------------------------- MODULE MCConditionHistory -------------------------
EXTENDS ConditionHistory

\* Every type and status the reconciler sets, with one or two reasons each.
MCCalls ==
    {<<"Initialized", "True", "">>,
     <<"Deployed", "True", "InstallSuccessful">>,
     <<"Deployed", "True", "UpdateSuccessful">>,
     <<"Deployed", "False", "UninstallSuccessful">>,
     <<"Failed", "True", "ParametersError">>,
     <<"Failed", "True", "UpdateError">>,
     <<"Irreconcilable", "False", "DuplicateError">>,
     <<"Irreconcilable", "True", "ReconcileError">>}
=============================================================================
