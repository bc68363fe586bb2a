----------------------------- MODULE MCUpdateGate -----------------------------
EXTENDS UpdateGate

Cron(phases) == [never |-> FALSE, parses |-> TRUE, at |-> phases]

Blackout == [never |-> TRUE, parses |-> FALSE, at |-> {}]

Garbage == [never |-> FALSE, parses |-> FALSE, at |-> {}]

\* No window, once and twice a day, two lines, a line that never fires, and
\* lists that hold a Never or a line that does not parse.
MCWindows ==
    {{}, {Cron({0})}, {Cron({2, 6})}, {Cron({0}), Cron({2})}, {Cron({})},
     {Cron({0}), Blackout}, {Cron({0}), Garbage}}
=============================================================================
