--------------------------- MODULE UpdateGateProofs ---------------------------
(***************************************************************************)
(* One update per opening of the window, for every window, every pair of   *)
(* intervals and every delay; the types, which follow from the same        *)
(* invariant; and no opening that prompt checks miss, which needs some     *)
(* arithmetic of the clock.                                                *)
(***************************************************************************)
EXTENDS UpdateGate, TLAPS

\* The openings an update was meant for lie within checkInterval of it, and
\* an update is as old as the last check that is recorded.
GateInv ==
    /\ checkInterval \in Nat /\ updateInterval \in Nat /\ age \in Nat
    /\ aimed \subseteq Nat \ {0}
    /\ \A d \in aimed : d + age < checkInterval

LEMMA InitGate == Init => GateInv
BY IntervalsAssumption DEF Init, GateInv, Old

LEMMA CloserAndOlder ==
    ASSUME NEW e \in Nat \ {0}, NEW old \in Nat, NEW young \in Nat,
           NEW limit \in Nat, e + young < limit, old <= young + 1, e # 1
    PROVE  e - 1 \in Nat \ {0} /\ e - 1 + old < limit
OBVIOUS

LEMMA NextGate == GateInv /\ [Next]_vars => GateInv'
<1> SUFFICES ASSUME GateInv, [Next]_vars PROVE GateInv'
  OBVIOUS
<1> USE DEF GateInv
<1>1. ASSUME Skip, UNCHANGED config PROVE GateInv'
  BY <1>1 DEF Skip, config
<1>2. ASSUME Update, UNCHANGED config PROVE GateInv'
  <2>1. checkInterval' = checkInterval /\ updateInterval' = updateInterval
    BY <1>2 DEF config
  <2>2. age' = 0 /\ aimed' = aimed \cup Soon
    BY <1>2 DEF Update
  <2>3. \A d \in Soon : d \in Nat \ {0} /\ d < checkInterval
    BY DEF Soon
  <2>4. \A d \in aimed : d \in Nat \ {0} /\ d < checkInterval
    OBVIOUS
  <2>5. \A d \in aimed' : d \in Nat \ {0} /\ d < checkInterval
    BY <2>2, <2>3, <2>4, Zenon
  <2>6. age' \in Nat /\ \A d \in aimed' : d + age' < checkInterval'
    BY <2>1, <2>2, <2>5
  <2>7. aimed' \subseteq Nat \ {0}
    BY <2>5
  <2> QED BY <2>1, <2>6, <2>7
<1>3. CASE Pass
  <2>1. checkInterval' = checkInterval /\ updateInterval' = updateInterval
    BY <1>3 DEF Pass, config
  <2>2. age' \in Nat /\ age' <= age + 1
    BY <1>3 DEF Pass
  <2>3. ASSUME NEW d \in aimed'
        PROVE  d \in Nat \ {0} /\ d + age' < checkInterval'
    <3>1. PICK e \in aimed : d = e - 1 /\ e # 1
      BY <1>3, <2>3 DEF Pass
    <3>2. e \in Nat \ {0} /\ e + age < checkInterval
      BY <3>1
    <3>3. age \in Nat /\ age' \in Nat /\ checkInterval \in Nat /\ age' <= age + 1
      BY <2>2
    <3> HIDE DEF GateInv
    <3>4. d \in Nat \ {0} /\ d + age' < checkInterval
      BY <3>1, <3>2, <3>3, CloserAndOlder
    <3> QED BY <2>1, <3>4
  <2> QED BY <2>1, <2>2, <2>3
<1>4. CASE UNCHANGED vars
  BY <1>4 DEF vars, config
<1> QED BY <1>1, <1>2, <1>3, <1>4 DEF Next, Check, Event, config

\* When an update is not too early every opening an earlier one was meant for
\* has passed.
LEMMA NotTooEarly ==
    GateInv /\ ~TooEarly /\ checkInterval <= updateInterval => aimed = {}
<1> SUFFICES ASSUME GateInv, ~TooEarly, checkInterval <= updateInterval,
                    NEW d \in aimed
             PROVE  FALSE
  OBVIOUS
<1>1. d \in Nat /\ d + age < checkInterval
  BY DEF GateInv
<1>2. age \in Nat /\ checkInterval \in Nat /\ updateInterval \in Nat
  BY DEF GateInv
<1> QED BY <1>1, <1>2 DEF TooEarly

\* An opening of the window starts at most one update as long as updates may
\* not be closer than checks (update_window.go:80-90, reconcile_update.go:71-81).
THEOREM OneUpdate == Spec => OneUpdatePerOpening
<1>1. Spec => []GateInv
  BY InitGate, NextGate, PTL DEF Spec
<1>2. GateInv /\ [Next]_vars
      => [Update /\ checkInterval <= updateInterval => aimed \cap Soon = {}]_vars
  BY NotTooEarly DEF Update
<1> QED BY <1>1, <1>2, PTL DEF Spec, OneUpdatePerOpening

-----------------------------------------------------------------------------
\* Types: an aimed opening lies within the check interval because GateInv says
\* so, not because its distance only shrinks.

LEMMA PhaseType ==
    ASSUME NEW p \in 0..Day-1
    PROVE  (p + 1) % Day \in 0..Day-1
BY DayAssumption

\* What GateInv says of an aimed opening is more than its type.
LEMMA AimedType == GateInv => aimed \subseteq 1..checkInterval - 1
<1> SUFFICES ASSUME GateInv, NEW d \in aimed
             PROVE  d \in 1..checkInterval - 1
  OBVIOUS
<1>1. d \in Nat \ {0} /\ d + age < checkInterval /\ age \in Nat /\ checkInterval \in Nat
  BY DEF GateInv
<1>. QED
  BY <1>1

LEMMA RequeueType ==
    ASSUME TypeOK, Requeue
    PROVE  wait' \in Nat /\ queued' \in BOOLEAN
<1>1. queued' \in BOOLEAN
  <2>1. queued' = (checkInterval > 0 \/ (queued /\ wait > 0))
    BY DEF Requeue
  <2>. QED
    BY <2>1, Zenon
<1>2. slack \in Nat
  BY IntervalsAssumption DEF TypeOK
<1>3. PICK d \in 0..slack :
         wait' = IF ~(queued /\ wait > 0) THEN checkInterval + d
                 ELSE IF wait < d THEN d ELSE wait
  BY DEF Requeue
<1>4. d \in Nat /\ wait \in Nat /\ checkInterval \in Nat
  BY <1>2, <1>3 DEF TypeOK
<1>5. checkInterval + d \in Nat
  BY <1>4
<1>6. wait' \in {checkInterval + d, d, wait}
  BY <1>3, Zenon
<1>. QED
  BY <1>1, <1>4, <1>5, <1>6

LEMMA NextType ==
    ASSUME TypeOK, GateInv, GateInv', [Next]_vars
    PROVE  TypeOK'
<1>1. aimed' \subseteq 1..checkInterval' - 1
  <2>1. (GateInv => aimed \subseteq 1..checkInterval - 1)'
    BY AimedType, PTL
  <2>. QED
    BY <2>1
<1>2. CASE UNCHANGED vars
  BY <1>2 DEF vars, config, TypeOK, Old
<1>3. CASE Pass
  <2>1. phase' \in 0..Day-1
    BY <1>3, PhaseType DEF Pass, TypeOK
  <2>2. UNCHANGED config /\ UNCHANGED Old /\ age' \in 0..Old
    BY <1>3 DEF Pass, TypeOK, Old, config
  <2>3. wait' \in Nat /\ queued' \in BOOLEAN
    BY <1>3 DEF Pass, TypeOK
  <2>4. aimed' \subseteq 1..checkInterval' - 1
    BY <1>1
  <2>. QED
    BY <2>1, <2>2, <2>3, <2>4 DEF TypeOK, config
<1>4. CASE Check \/ Event
  <2>1. UNCHANGED <<config, phase>> /\ (Skip \/ Update)
    BY <1>4 DEF Check, Event
  <2>2. wait' \in Nat /\ queued' \in BOOLEAN
    BY <2>1, RequeueType DEF Skip, Update
  <2>3. age' \in 0..Old
    BY <2>1 DEF Skip, Update, TypeOK, Old
  <2>4. aimed' \subseteq 1..checkInterval' - 1
    BY <1>1
  <2>. QED
    BY <2>1, <2>2, <2>3, <2>4 DEF TypeOK, config, Old
<1>. QED
  BY <1>2, <1>3, <1>4 DEF Next

\* Every variable keeps its type: no interval makes a wait or an age negative.
THEOREM GateTyped == Spec => []TypeOK
<1>1. Init => TypeOK
  BY DayAssumption, IntervalsAssumption DEF Init, TypeOK, Old
<1>2. GateInv /\ [Next]_vars => GateInv'
  BY NextGate
<1>3. TypeOK /\ GateInv /\ GateInv' /\ [Next]_vars => TypeOK'
  BY NextType
<1>. QED
  BY <1>1, <1>2, <1>3, InitGate, PTL DEF Spec

-----------------------------------------------------------------------------
\* The clock.

\* Division with remainder.
LEMMA Remainder ==
    ASSUME NEW n \in Nat \ {0}, NEW x \in Nat
    PROVE  /\ x % n \in 0..n-1
           /\ \E q \in Nat : x = (n * q) + (x % n)
<1>1. /\ x = (n * (x \div n)) + (x % n)
      /\ x % n \in 0..n-1 /\ x \div n \in Nat
  BY SMT
<1>. QED
  BY <1>1

\* ... and there is only one remainder.
LEMMA OneRemainder ==
    ASSUME NEW n \in Nat \ {0}, NEW a \in Int, NEW b \in Int,
           NEW r \in 0..n-1, NEW s \in 0..n-1, n * a + r = n * b + s
    PROVE  r = s
BY SMT

\* A full turn of the clock, and the parity of the time it shows.
LEMMA FullTurn ==
    ASSUME NEW n \in Nat \ {0}, NEW x \in Nat
    PROVE  (x + n) % n = x % n
<1>1. PICK q \in Nat : x = (n * q) + (x % n)
  BY Remainder
<1>2. x + n \in Nat
  OBVIOUS
<1>3. PICK p \in Nat : x + n = (n * p) + ((x + n) % n)
  BY <1>2, Remainder
<1>. DEFINE r == x % n
            s == (x + n) % n
<1>4. r \in 0..n-1 /\ s \in 0..n-1
  BY <1>2, Remainder
<1>5. x = (n * q) + r /\ x + n = (n * p) + s
  BY <1>1, <1>3
<1>. HIDE DEF r, s
<1>6. n * (q + 1) = n * q + n
  OBVIOUS
<1>7. n * (q + 1) + r = n * p + s
  BY <1>4, <1>5, <1>6
<1>8. r = s
  BY <1>4, <1>7, OneRemainder
<1>. QED
  BY <1>8 DEF r, s

LEMMA SameParity ==
    ASSUME NEW n \in Nat \ {0}, n % 2 = 0, NEW x \in Nat
    PROVE  (x % n) % 2 = x % 2
<1>1. PICK q \in Nat : x = (n * q) + (x % n)
  BY Remainder
<1>2. PICK h \in Nat : n = 2 * h
  BY SMT
<1>. DEFINE k == h * q
            r == x % n
<1>3. n * q = 2 * k /\ k \in Nat
  BY <1>2
<1>4. x = 2 * k + r /\ r \in Nat
  <2>1. r \in 0..n-1
    BY Remainder
  <2>. QED
    BY <1>1, <1>3, <2>1
<1>. HIDE DEF k, r
<1>5. r % 2 = x % 2
  BY <1>3, <1>4
<1>. QED
  BY <1>5 DEF r

-----------------------------------------------------------------------------
\* Prompt checks.

\* A line that fires d from now fires d - 1 from the next moment.
LEMMA FiringComesNearer ==
    ASSUME phase \in 0..Day-1, phase' = (phase + 1) % Day, UNCHANGED window,
           NEW d \in Nat
    PROVE  Fires(d)' <=> Fires(d + 1)
<1>1. Day \in Nat \ {0} /\ phase \in Nat /\ phase + 1 + d \in Nat
  BY DayAssumption
<1>2. (phase' + d) % Day = (phase + (d + 1)) % Day
  <2>1. CASE phase + 1 < Day
    <3>1. phase' = phase + 1
      BY <1>1, <2>1
    <3>. QED
      BY <1>1, <3>1
  <2>2. CASE phase + 1 = Day
    <3>1. phase' = 0
      BY <1>1, <2>2
    <3>2. phase + (d + 1) = d + Day /\ phase' + d = d
      BY <1>1, <2>2, <3>1
    <3>. QED
      BY <1>1, <3>2, FullTurn
  <2>. QED
    BY <1>1, <2>1, <2>2
<1>. QED
  BY <1>2 DEF Fires

\* Lines fire at even times.
LEMMA FiresAtEven ==
    ASSUME TypeOK, NEW d \in Nat, Fires(d)
    PROVE  (phase + d) % 2 = 0
<1>1. PICK e \in window : (phase + d) % Day \in e.at
  BY DEF Fires
<1>2. ((phase + d) % Day) % 2 = 0
  BY <1>1, EvenAssumption DEF TypeOK
<1>3. phase + d \in Nat /\ Day \in Nat \ {0} /\ Day % 2 = 0
  BY DayAssumption, EvenAssumption DEF TypeOK
<1>. QED
  BY <1>2, <1>3, SameParity

Prompt == slack = 0 /\ checkInterval > 0

\* Checks that are prompt take place between the firings, no further apart
\* than checkInterval, and whatever fires before the next one finds a check
\* that is not yet older than both intervals.
PromptInv ==
    /\ checkInterval \in Intervals(CheckEnvs, DefaultCheckInterval)
    /\ Prompt =>
          /\ queued /\ wait \in 0..checkInterval
          /\ (phase + wait) % 2 = 1
          /\ Timed => \A d \in 1..wait : Fires(d) => age + d < Old

LEMMA InitPrompt == Init => PromptInv
<1>. SUFFICES ASSUME Init PROVE PromptInv
  OBVIOUS
<1>1. checkInterval \in Nat /\ wait = 0 /\ queued /\ phase \in Nat /\ phase % 2 = 1
  BY DayAssumption, IntervalsAssumption DEF Init
<1>2. 1..wait = {} /\ (phase + wait) % 2 = 1
  BY <1>1
<1>. QED
  BY <1>1, <1>2 DEF Init, PromptInv, Prompt

\* The next check is not put off by a call: prompt requests stay, and a new
\* one is checkInterval away.
LEMMA PromptRequeue ==
    ASSUME TypeOK, PromptInv, Prompt, Requeue
    PROVE  /\ queued'
           /\ wait' = IF wait = 0 THEN checkInterval ELSE wait
<1>1. queued /\ wait \in Nat /\ checkInterval \in Nat /\ checkInterval > 0 /\ slack = 0
  BY DEF TypeOK, PromptInv, Prompt
<1>2. queued' = (checkInterval > 0 \/ (queued /\ wait > 0))
  BY DEF Requeue
<1>3. queued'
  BY <1>1, <1>2, Zenon
<1>4. PICK d \in 0..slack :
         wait' = IF ~(queued /\ wait > 0) THEN checkInterval + d
                 ELSE IF wait < d THEN d ELSE wait
  BY DEF Requeue
<1>5. d = 0
  BY <1>1, <1>4
<1>6. wait > 0 => wait' = wait
  BY <1>1, <1>4, <1>5
<1>7. wait = 0 => wait' = checkInterval
  BY <1>1, <1>4, <1>5
<1>. QED
  BY <1>1, <1>3, <1>6, <1>7

\* Nothing that fires before the next check is as far away as the interval.
LEMMA FiresBeforeNext ==
    ASSUME TypeOK, PromptInv, Prompt,
           NEW w \in Nat, w = IF wait = 0 THEN checkInterval ELSE wait,
           NEW d \in 1..w, Fires(d)
    PROVE  d < checkInterval
<1>1. /\ phase \in Nat /\ wait \in Nat /\ checkInterval \in Nat /\ wait <= checkInterval
      /\ checkInterval % 2 = 0 /\ (phase + wait) % 2 = 1
  BY DayAssumption, EvenAssumption DEF TypeOK, PromptInv
<1>2. (phase + d) % 2 = 0 /\ d \in Nat
  BY FiresAtEven
<1>3. (phase + w) % 2 = 1 /\ w <= checkInterval
  BY <1>1
<1>. QED
  BY <1>1, <1>2, <1>3

\* A call leaves the openings before the next check to a recent one.
LEMMA CallPrompt ==
    ASSUME TypeOK, PromptInv, Skip \/ Update, UNCHANGED <<config, phase>>,
           (queued /\ wait = 0) \/ ~queued \/ wait \in 1..checkInterval
    PROVE  PromptInv'
<1>1. /\ UNCHANGED <<window, checkInterval, updateInterval, slack, phase>>
      /\ UNCHANGED Old /\ UNCHANGED Prompt /\ UNCHANGED Timed
      /\ \A d \in Nat : Fires(d)' <=> Fires(d)
  BY DEF config, Old, Prompt, Timed, Fires
<1>2. ASSUME Prompt
      PROVE  /\ queued' /\ wait' \in 0..checkInterval /\ (phase + wait') % 2 = 1
             /\ Timed => \A d \in 1..wait' : Fires(d) => age' + d < Old
  <2>1. queued' /\ wait' = IF wait = 0 THEN checkInterval ELSE wait
    BY <1>2, PromptRequeue DEF Skip, Update
  <2>2. /\ phase \in Nat /\ wait \in 0..checkInterval /\ checkInterval \in Nat
        /\ updateInterval \in Nat /\ age \in Nat
        /\ checkInterval % 2 = 0 /\ (phase + wait) % 2 = 1 /\ Old = updateInterval + checkInterval
    BY <1>2, DayAssumption, EvenAssumption DEF TypeOK, PromptInv, Old
  <2>3. wait' \in 0..checkInterval /\ (phase + wait') % 2 = 1
    BY <2>1, <2>2
  <2>4. ASSUME Timed, NEW d \in 1..wait', Fires(d) PROVE age' + d < Old
    <3>1. d < checkInterval /\ d \in 1..checkInterval-1
      BY <1>2, <2>1, <2>2, <2>3, <2>4, FiresBeforeNext
    <3>2. CASE Update
      BY <2>2, <3>1, <3>2 DEF Update
    <3>3. CASE Skip /\ wait = 0
      <4>1. Allowed
        BY <2>4, <3>1 DEF Allowed, Soon
      <4>2. age < updateInterval /\ age' = age
        BY <3>3, <4>1 DEF Skip, TooEarly
      <4>. QED
        BY <2>2, <3>1, <4>2
    <3>4. CASE Skip /\ wait # 0
      <4>1. age' = age /\ d \in 1..wait
        BY <2>1, <3>4 DEF Skip
      <4>. QED
        BY <1>2, <2>4, <4>1 DEF PromptInv
    <3>. QED
      BY <3>2, <3>3, <3>4
  <2>. QED
    BY <2>1, <2>3, <2>4
<1>3. \A d \in 1..wait' : d \in Nat
  OBVIOUS
<1>. QED
  BY <1>1, <1>2, <1>3 DEF PromptInv

LEMMA OddStays ==
    ASSUME NEW p \in Nat, NEW q \in Nat, q % 2 = (p + 1) % 2,
           NEW w \in Nat, w > 0, (p + w) % 2 = 1
    PROVE  (q + (w - 1)) % 2 = 1
OBVIOUS

LEMMA OlderAndNearer ==
    ASSUME NEW old \in Nat, NEW young \in Nat, NEW d \in Nat, NEW limit \in Nat,
           old <= young + 1, young + (d + 1) < limit
    PROVE  old + d < limit
OBVIOUS

\* The time between two calls brings the next check and the firings nearer.
LEMMA PassPrompt ==
    ASSUME TypeOK, PromptInv, Pass
    PROVE  PromptInv'
<1>1. /\ UNCHANGED <<window, checkInterval, updateInterval, slack>>
      /\ UNCHANGED Old /\ UNCHANGED Prompt /\ UNCHANGED Timed
  BY DEF Pass, config, Old, Prompt, Timed
<1>2. \A d \in Nat : Fires(d)' <=> Fires(d + 1)
  BY FiringComesNearer DEF Pass, TypeOK, config
<1>3. ASSUME Prompt
      PROVE  /\ queued' /\ wait' \in 0..checkInterval /\ (phase' + wait') % 2 = 1
             /\ Timed => \A d \in 1..wait' : Fires(d)' => age' + d < Old
  <2>1. /\ queued /\ wait \in 0..checkInterval /\ checkInterval \in Nat /\ (phase + wait) % 2 = 1
        /\ Timed => \A d \in 1..wait : Fires(d) => age + d < Old
        /\ age \in Nat /\ Old \in Nat /\ phase \in Nat
    BY <1>3, DayAssumption DEF TypeOK, PromptInv, Old
  <2>2. queued' /\ wait > 0 /\ wait' = wait - 1 /\ age' \in Nat /\ age' <= age + 1
    BY <2>1 DEF Pass
  <2>3. (phase' + wait') % 2 = 1
    <3>1. phase' % 2 = (phase + 1) % 2 /\ phase' \in Nat
      <4>1. phase + 1 \in Nat /\ phase' = (phase + 1) % Day
        BY <2>1 DEF Pass
      <4>2. ((phase + 1) % Day) % 2 = (phase + 1) % 2
        BY <4>1, DayAssumption, EvenAssumption, SameParity
      <4>3. (phase + 1) % Day \in 0..Day-1
        BY <4>1, DayAssumption, Remainder
      <4>. QED
        BY <4>1, <4>2, <4>3, DayAssumption
    <3>2. phase \in Nat /\ wait \in Nat /\ (phase + wait) % 2 = 1 /\ wait > 0 /\ wait' = wait - 1
      BY <2>1, <2>2
    <3>. QED
      BY <3>1, <3>2, OddStays
  <2>4. ASSUME Timed, NEW d \in 1..wait', Fires(d)' PROVE age' + d < Old
    <3>1. d \in Nat /\ d + 1 \in 1..wait
      BY <2>1, <2>2
    <3>2. age + (d + 1) < Old
      BY <1>2, <2>1, <2>4, <3>1
    <3>3. age \in Nat /\ age' \in Nat /\ age' <= age + 1 /\ Old \in Nat
      BY <2>1, <2>2
    <3>. QED
      BY <3>1, <3>2, <3>3, OlderAndNearer
  <2>5. wait' \in 0..checkInterval
    BY <2>1, <2>2
  <2>6. Timed => \A d \in 1..wait' : Fires(d)' => age' + d < Old
    BY <2>4
  <2>. QED
    BY <2>2, <2>3, <2>5, <2>6
<1>. QED
  BY <1>1, <1>3, Zenon DEF PromptInv

\* No opening of the window passes unnoticed when the checks are prompt: the
\* check before the opening either is allowed by it or comes too early, and
\* then the last check is recent (update_window.go:80-90).
THEOREM PromptChecksSuffice == Spec => PromptChecksMissNothing
<1>1. TypeOK /\ PromptInv /\ [Next]_vars => PromptInv'
  <2>. SUFFICES ASSUME TypeOK, PromptInv, [Next]_vars PROVE PromptInv'
    OBVIOUS
  <2>1. CASE Check \/ Event
    BY <2>1, CallPrompt DEF Check, Event
  <2>2. CASE Pass
    BY <2>2, PassPrompt
  <2>3. CASE UNCHANGED vars
    BY <2>3 DEF vars, config, PromptInv, Prompt, Timed, Fires, Old
  <2>. QED
    BY <2>1, <2>2, <2>3 DEF Next
<1>2. TypeOK /\ PromptInv /\ [Next]_vars
      => [Pass /\ slack = 0 /\ checkInterval > 0 /\ Timed /\ Fires(1) => age' < Old]_vars
  <2>. SUFFICES ASSUME TypeOK, PromptInv, Pass, Prompt, Timed, Fires(1) PROVE age' < Old
    BY DEF Prompt
  <2>1. queued /\ wait \in Nat /\ wait > 0 /\ age \in Nat /\ Old \in Nat
    BY DEF TypeOK, PromptInv, Pass, Old
  <2>2. 1 \in 1..wait /\ age + 1 < Old
    BY <2>1 DEF PromptInv
  <2>. QED
    BY <2>1, <2>2 DEF Pass
<1>. QED
  BY <1>1, <1>2, InitPrompt, GateTyped, PTL DEF Spec, PromptChecksMissNothing
=============================================================================
