----------------------- MODULE OutboundDispatchProofs -----------------------
(***************************************************************************)
(* Proofs about OutboundDispatch for any campaign, any quick calls, any    *)
(* workers, any limit of the agent and any number of faults.               *)
(***************************************************************************)
EXTENDS OutboundDispatch, FiniteSetTheorems, TLAPS

-----------------------------------------------------------------------------
(* The inductive invariant.                                                *)

\* Where a worker may be that works on one call.
Trials == {"claim-quick", "authorize", "look", "dial"}
Attending == Trials \cup {"mark", "return-admission", "check", "fail"}

Locals ==
    [pc : {"idle", "claim-slots"}]
    \cup [pc : {"enqueue", "complete"}, pending : SUBSET Calls, over : BOOLEAN]
    \cup [pc : {"cancel-rows", "stop-calls"}, running : SUBSET Calls]
    \cup [pc : {"claim-quick"}, call : Quick]
    \cup [pc : {"look", "check"}, call : Calls]
    \cup [pc : {"authorize", "dial", "mark", "return-admission", "fail", "cancel-call"},
          call : All]

Typed == TypeOK /\ proc \in [Workers -> Locals]

Attends(w, c) == proc[w].pc \in Attending /\ proc[w].call = c

\* A call that somebody works on has left the state it was imported in.
Started ==
    /\ \A c \in Calls : row[c].status # "NONE"
    /\ \A w \in Workers, c \in All : Attends(w, c) =>
           /\ row[c].status # "NONE"
           /\ c \in Calls => row[c].status # "SCHEDULED" /\ campaign # "SCHEDULED"

\* The workers that may yet dial a call, and whether another may begin to.
Tries(w, c) == Attends(w, c) /\ proc[w].pc \in Trials
Trying(c) == {w \in Workers : Tries(w, c)}
Open(c) == \/ c \in Quick /\ row[c].status = "NONE"
           \/ /\ c \in Calls /\ job[c] # "running"
              /\ row[c].status \in {"SCHEDULED", "PROCESSED"}
              /\ campaign \in {"SCHEDULED", "ACTIVE"}
Chances(c) == IF Open(c) THEN 1 ELSE 0

\* Dials made, dials that may still be made, and the one that may begin.
Scarce == \A c \in All : dials[c] + Cardinality(Trying(c)) + Chances(c) <= 1 + faults

\* Before any fault a call has one worker at most, who holds its job ...
Alone == \A c \in All : \A w, v \in Workers : Attends(w, c) /\ Attends(v, c) => w = v
Jobs == \A w \in Workers, c \in Calls : Attends(w, c) => job[c] = "running"

\* ... and whose place says what state the call is in.
Tidy(c, pc) ==
    /\ leg[c] = "live" => row[c].status = "IN_PROGRESS" \/ pc = "mark"
    /\ session[c] = "ACTIVE" => \/ row[c].status = "IN_PROGRESS"
                                \/ pc \in {"look", "dial", "mark", "return-admission"}
    /\ row[c].status \in {"NONE", "SCHEDULED"} => leg[c] = "none"
    /\ row[c].status = "PROCESSED" /\ leg[c] # "none" => pc = "mark"
    /\ pc \in {"return-admission", "check", "fail"} => leg[c] # "live"
    /\ pc \in {"check", "fail"} => session[c] # "ACTIVE"
    /\ pc = "claim-quick" => c \in Quick /\ row[c].status = "SCHEDULED"
    /\ pc \in {"authorize", "look", "dial"} =>
           /\ leg[c] = "none"
           /\ \/ row[c].status = "PROCESSED"
              \/ row[c].status = "FAILED" /\ campaign = "CANCELLED"
    /\ pc = "mark" /\ campaign # "CANCELLED" =>
           IF leg[c] = "reported" THEN row[c].status = "COMPLETED"
                                  ELSE row[c].status = "PROCESSED"

TidyCall(c) == /\ \A w \in Workers : Attends(w, c) => Tidy(c, proc[w].pc)
               /\ (\A w \in Workers : ~Attends(w, c)) => Tidy(c, "nobody")

Calm == faults = 0 =>
            Alone /\ Jobs /\ \A c \in All : ~row[c].cancelled => TidyCall(c)

Within == Undisturbed => Cardinality(ActiveCalls) <= Limit

Inv == Typed /\ Started /\ Scarce /\ Calm /\ Within
-----------------------------------------------------------------------------
(* Steps that concern one call and the worker that works on it.            *)

Concerns(w, c) ==
    /\ campaign' = campaign
    /\ \A d \in All \ {c} : /\ row'[d] = row[d] /\ session'[d] = session[d]
                            /\ leg'[d] = leg[d] /\ dials'[d] = dials[d]
    /\ \A d \in Calls \ {c} : job'[d] = job[d]
    /\ \A v \in Workers \ {w} : proc'[v] = proc[v]
    /\ \A d \in All \ {c} : ~Attends(w, d) /\ ~Attends(w, d)'

LEMMA TryingFinite ==
    ASSUME NEW c \in All
    PROVE  IsFiniteSet(Trying(c)) /\ Cardinality(Trying(c)) \in Nat
  <1>1. Trying(c) \subseteq Workers
    BY DEF Trying
  <1> QED BY <1>1, CallsAreFew, FS_Subset, FS_CardinalityType

LEMMA ConcernsTrying ==
    ASSUME NEW w \in Workers, NEW c \in All, Concerns(w, c)
    PROVE  /\ \A d \in All \ {c} : Trying(d)' = Trying(d)
           /\ Cardinality(Trying(c)') + (IF Tries(w, c) THEN 1 ELSE 0)
                = Cardinality(Trying(c)) + (IF Tries(w, c)' THEN 1 ELSE 0)
  <1>1. \A v \in Workers \ {w}, d \in All : Tries(v, d)' <=> Tries(v, d)
    BY DEF Concerns, Tries, Attends
  <1>2. \A d \in All \ {c} : ~Tries(w, d) /\ ~Tries(w, d)'
    BY DEF Concerns, Tries
  <1>3. \A d \in All \ {c} : Trying(d)' = Trying(d)
    BY <1>1, <1>2 DEF Trying
  <1> DEFINE rest == {v \in Workers \ {w} : Tries(v, c)}
  <1>4. Trying(c) = IF Tries(w, c) THEN rest \cup {w} ELSE rest
    BY DEF Trying
  <1>5. Trying(c)' = IF Tries(w, c)' THEN rest \cup {w} ELSE rest
    BY <1>1 DEF Trying
  <1>6. IsFiniteSet(rest) /\ w \notin rest
    BY CallsAreFew, FS_Subset
  <1> HIDE DEF rest
  <1>7. Cardinality(rest \cup {w}) = Cardinality(rest) + 1 /\ Cardinality(rest) \in Nat
    BY <1>6, FS_AddElement, FS_CardinalityType
  <1>8. Cardinality(Trying(c)) = Cardinality(rest) + (IF Tries(w, c) THEN 1 ELSE 0)
    BY <1>4, <1>7
  <1>9. Cardinality(Trying(c)') = Cardinality(rest) + (IF Tries(w, c)' THEN 1 ELSE 0)
    BY <1>5, <1>7
  <1> QED BY <1>3, <1>7, <1>8, <1>9

\* The number of dials that one step may add to what a call has left.
LEMMA ConcernsScarce ==
    ASSUME Typed, Typed', Scarce, NEW w \in Workers, NEW c \in All, Concerns(w, c),
           faults' >= faults,
           dials'[c] + (IF Tries(w, c)' THEN 1 ELSE 0) + Chances(c)'
               <= dials[c] + (IF Tries(w, c) THEN 1 ELSE 0) + Chances(c) + faults' - faults
    PROVE  Scarce'
  <1> SUFFICES ASSUME NEW d \in All
               PROVE  (dials[d] + Cardinality(Trying(d)) + Chances(d) <= 1 + faults)'
    BY DEF Scarce
  <1>1. dials[d] \in Nat /\ dials'[d] \in Nat /\ faults \in Nat /\ faults' \in Nat
    BY CallsAreFew DEF Typed, TypeOK
  <1>2. Chances(d) \in Nat /\ Chances(d)' \in Nat
    BY DEF Chances
  <1>3. Cardinality(Trying(d)) \in Nat /\ Cardinality(Trying(d)') \in Nat
    <2>1. Trying(d) \in SUBSET Workers /\ Trying(d)' \in SUBSET Workers
      BY DEF Trying
    <2> QED BY <2>1, CallsAreFew, FS_Subset, FS_CardinalityType
  <1>4. dials[d] + Cardinality(Trying(d)) + Chances(d) <= 1 + faults
    BY DEF Scarce
  <1>5. CASE d = c
    <2>1. Cardinality(Trying(d)') + (IF Tries(w, c) THEN 1 ELSE 0)
              = Cardinality(Trying(d)) + (IF Tries(w, c)' THEN 1 ELSE 0)
      BY <1>5, ConcernsTrying
    <2> HIDE DEF Chances
    <2> QED BY <2>1, <1>1, <1>2, <1>3, <1>4, <1>5
  <1>6. CASE d # c
    <2>1. Cardinality(Trying(d)') = Cardinality(Trying(d))
      BY <1>6, ConcernsTrying
    <2>2. dials'[d] = dials[d]
      BY <1>6 DEF Concerns
    <2>3. d \in Calls => job'[d] = job[d]
      BY <1>6 DEF Concerns
    <2>4. row'[d] = row[d] /\ campaign' = campaign
      BY <1>6 DEF Concerns
    <2>5. Chances(d)' = Chances(d)
      BY <2>3, <2>4 DEF Chances, Open
    <2> QED BY <2>1, <2>2, <2>5, <1>1, <1>2, <1>3, <1>4
  <1> QED BY <1>5, <1>6

LEMMA ConcernsCalm ==
    ASSUME Typed, Calm, faults = 0, NEW w \in Workers, NEW c \in All, Concerns(w, c),
           Attends(w, c) \/ \A v \in Workers : ~Attends(v, c),
           Attends(w, c)' /\ c \in Calls => job'[c] = "running",
           NEW from, from = IF Attends(w, c) THEN proc[w].pc ELSE "nobody",
           NEW to, to = IF Attends(w, c)' THEN proc'[w].pc ELSE "nobody",
           ~row'[c].cancelled /\ Tidy(c, from) => ~row[c].cancelled /\ Tidy(c, to)',
           row[c].cancelled => row'[c].cancelled
    PROVE  Calm'
  <1>1. Alone /\ Jobs /\ \A d \in All : ~row[d].cancelled => TidyCall(d)
    BY DEF Calm
  <1>2. \A v \in Workers \ {w}, d \in All :
            (Attends(v, d)' <=> Attends(v, d)) /\ proc'[v] = proc[v]
    BY DEF Concerns, Attends
  <1>3. \A v \in Workers \ {w} : ~Attends(v, c)
    BY <1>1 DEF Alone
  <1>4. \A d \in All \ {c} : ~Attends(w, d) /\ ~Attends(w, d)'
    BY DEF Concerns
  <1>5. Alone'
    <2> SUFFICES ASSUME NEW d \in All, NEW u \in Workers, NEW v \in Workers,
                        Attends(u, d)', Attends(v, d)'
                 PROVE  u = v
      BY DEF Alone
    <2> QED BY <1>1, <1>2, <1>3, <1>4 DEF Alone
  <1>6. Jobs'
    <2> SUFFICES ASSUME NEW v \in Workers, NEW d \in Calls, Attends(v, d)'
                 PROVE  job'[d] = "running"
      BY DEF Jobs
    <2>0. d \in All
      BY DEF All
    <2>1. CASE d = c
      BY <2>1, <2>0, <1>2, <1>3
    <2>2. CASE d # c
      BY <2>0, <2>2, <1>1, <1>2, <1>4 DEF Jobs, Concerns
    <2> QED BY <2>1, <2>2
  <1>7. ASSUME NEW d \in All, ~row'[d].cancelled
        PROVE  TidyCall(d)'
    <2>1. CASE d = c
      <3>0. ~row[c].cancelled
        BY <2>1, <1>7
      <3>1. Tidy(c, from)
        BY <1>1, <1>3, <3>0 DEF TidyCall
      <3>2. Tidy(c, to)'
        BY <3>1, <2>1, <1>7
      <3> QED BY <3>2, <2>1, <1>2, <1>3 DEF TidyCall
    <2>2. CASE d # c
      <3>1. /\ row'[d] = row[d] /\ session'[d] = session[d] /\ leg'[d] = leg[d]
            /\ campaign' = campaign
        BY <2>2 DEF Concerns
      <3>2. TidyCall(d)
        BY <1>1, <1>7, <3>1
      <3>3. \A pc : Tidy(d, pc) => Tidy(d, pc)'
        BY <3>1 DEF Tidy
      <3>4. \A v \in Workers : Attends(v, d)' => Attends(v, d) /\ proc'[v] = proc[v]
        BY <2>2, <1>2, <1>4
      <3>5. \A v \in Workers : Attends(v, d) => Attends(v, d)'
        BY <2>2, <1>2, <1>4
      <3>6. (\A v \in Workers : ~Attends(v, d)') => Tidy(d, "nobody")'
        BY <3>2, <3>3, <3>5 DEF TidyCall
      <3>7. \A v \in Workers : Attends(v, d)' => Tidy(d, proc[v].pc)'
        BY <3>2, <3>3, <3>4 DEF TidyCall
      <3> QED BY <3>7, <3>6 DEF TidyCall
    <2> QED BY <2>1, <2>2
  <1> QED BY <1>5, <1>6, <1>7 DEF Calm

LEMMA ConcernsStarted ==
    ASSUME Started, NEW w \in Workers, NEW c \in All, Concerns(w, c),
           row[c].status # "NONE" => row'[c].status # "NONE",
           row'[c].status = "SCHEDULED" => row[c].status \in {"NONE", "SCHEDULED"},
           Attends(w, c)' =>
               Attends(w, c) \/ /\ row'[c].status # "NONE"
                                /\ c \in Calls => /\ row'[c].status # "SCHEDULED"
                                                  /\ campaign' # "SCHEDULED"
    PROVE  Started'
  <1>1. \A v \in Workers \ {w}, d \in All : Attends(v, d)' <=> Attends(v, d)
    BY DEF Concerns, Attends
  <1>2. \A d \in Calls : d \in All
    BY DEF All
  <1>3. \A d \in Calls : row'[d].status # "NONE"
    BY <1>2 DEF Started, Concerns
  <1>4. ASSUME NEW v \in Workers, NEW d \in All, Attends(v, d)'
        PROVE  /\ row'[d].status # "NONE"
               /\ d \in Calls => row'[d].status # "SCHEDULED" /\ campaign' # "SCHEDULED"
    <2>1. CASE v = w /\ ~Attends(w, d)
      BY <2>1, <1>4 DEF Concerns
    <2>2. CASE v # w \/ Attends(w, d)
      <3>1. Attends(v, d)
        BY <2>2, <1>1, <1>4
      <3>2. /\ row[d].status # "NONE"
            /\ d \in Calls => row[d].status # "SCHEDULED" /\ campaign # "SCHEDULED"
        BY <3>1 DEF Started
      <3> QED BY <3>2 DEF Concerns
    <2> QED BY <2>1, <2>2
  <1> QED BY <1>3, <1>4 DEF Started
-----------------------------------------------------------------------------
(* Steps that leave alone who works on what.                               *)

\* Nobody comes to a call, leaves it or gets on with it.
Aside ==
    /\ \A v \in Workers, d \in All :
           (Attends(v, d)' <=> Attends(v, d)) /\ (Attends(v, d) => proc'[v].pc = proc[v].pc)
    /\ \A d \in Calls : job'[d] = "running" <=> job[d] = "running"
    /\ dials' = dials
    /\ faults' = faults
    /\ campaign' = "SCHEDULED" => campaign = "SCHEDULED"
    /\ campaign' = "ACTIVE" => campaign \in {"SCHEDULED", "ACTIVE"}

\* What becomes of the state of a call.
Fares(c) ==
    /\ row'[c].status = "NONE" => row[c].status = "NONE"
    /\ row'[c].status = "SCHEDULED" => row[c].status = "SCHEDULED"
    /\ c \in Calls /\ row'[c].status = "PROCESSED" =>
           row[c].status \in {"SCHEDULED", "PROCESSED"}
    /\ ~row'[c].cancelled => ~row[c].cancelled
    /\ ~row'[c].cancelled =>
           \A pc \in Attending \cup {"nobody"} : Tidy(c, pc) => Tidy(c, pc)'

LEMMA AsideKeeps ==
    ASSUME Typed, Typed', Started, Scarce, Calm, Aside, \A c \in All : Fares(c)
    PROVE  Started' /\ Scarce' /\ Calm'
  <1>0. \A d \in Calls : d \in All
    BY DEF All
  <1>1. Started'
    BY <1>0 DEF Started, Aside, Fares
  <1>2. Scarce'
    <2> SUFFICES ASSUME NEW c \in All
                 PROVE  (dials[c] + Cardinality(Trying(c)) + Chances(c) <= 1 + faults)'
      BY DEF Scarce
    <2>1. Trying(c)' = Trying(c)
      BY DEF Trying, Tries, Aside
    <2>2. Open(c)' => Open(c)
      <3>1. /\ c \in Calls => (job'[c] = "running" <=> job[c] = "running")
            /\ campaign' \in {"SCHEDULED", "ACTIVE"} => campaign \in {"SCHEDULED", "ACTIVE"}
        BY DEF Aside
      <3>2. /\ row'[c].status = "NONE" => row[c].status = "NONE"
            /\ c \in Calls /\ row'[c].status \in {"SCHEDULED", "PROCESSED"} =>
                   row[c].status \in {"SCHEDULED", "PROCESSED"}
        BY DEF Fares
      <3> QED BY <3>1, <3>2 DEF Open
    <2>3. dials[c] \in Nat /\ faults \in Nat /\ dials' = dials /\ faults' = faults
      BY CallsAreFew DEF Typed, TypeOK, Aside
    <2>4. dials[c] + Cardinality(Trying(c)) + Chances(c) <= 1 + faults
      BY DEF Scarce
    <2>5. Chances(c) \in {0, 1} /\ Chances(c)' \in {0, 1} /\ (Chances(c)' = 1 => Chances(c) = 1)
      BY <2>2 DEF Chances
    <2>6. Cardinality(Trying(c)) \in Nat
      BY TryingFinite
    <2> HIDE DEF Chances
    <2> QED BY <2>1, <2>3, <2>4, <2>5, <2>6
  <1>3. Calm'
    <2> SUFFICES ASSUME faults' = 0
                 PROVE  (Alone /\ Jobs /\ \A c \in All : ~row[c].cancelled => TidyCall(c))'
      BY DEF Calm
    <2>1. Alone /\ Jobs /\ \A c \in All : ~row[c].cancelled => TidyCall(c)
      BY DEF Calm, Aside
    <2>2. Alone'
      BY <2>1 DEF Alone, Aside
    <2>3. Jobs'
      BY <2>1, <1>0 DEF Jobs, Aside
    <2>4. ASSUME NEW c \in All, ~row'[c].cancelled
          PROVE  TidyCall(c)'
      <3>1. TidyCall(c) /\ \A pc \in Attending \cup {"nobody"} : Tidy(c, pc) => Tidy(c, pc)'
        BY <2>1, <2>4 DEF Fares
      <3>2. \A w \in Workers : Attends(w, c)' =>
                Attends(w, c) /\ proc'[w].pc = proc[w].pc /\ proc[w].pc \in Attending
        BY DEF Aside, Attends
      <3>3. \A w \in Workers : Attends(w, c)' => Tidy(c, proc[w].pc)'
        BY <3>1, <3>2 DEF TidyCall
      <3>4. (\A w \in Workers : ~Attends(w, c)') => Tidy(c, "nobody")'
        BY <3>1 DEF TidyCall, Aside
      <3> QED BY <3>3, <3>4 DEF TidyCall
    <2> QED BY <2>2, <2>3, <2>4
  <1> QED BY <1>1, <1>2, <1>3

-----------------------------------------------------------------------------
(* The concurrency limit.                                                  *)

LEMMA CallsFinite ==
    ASSUME NEW S \in SUBSET All
    PROVE  IsFiniteSet(S) /\ Cardinality(S) \in Nat
  <1>1. IsFiniteSet(All)
    BY CallsAreFew, FS_Union DEF All
  <1> QED BY <1>1, FS_Subset, FS_CardinalityType

LEMMA WithinShrinks ==
    ASSUME Within, Undisturbed' => Undisturbed, ActiveCalls' \subseteq ActiveCalls
    PROVE  Within'
  <1>1. ActiveCalls \in SUBSET All
    BY DEF ActiveCalls, Reserved, With
  <1>2. IsFiniteSet(ActiveCalls) /\ Cardinality(ActiveCalls) \in Nat
    BY <1>1, CallsFinite
  <1>3. Cardinality(ActiveCalls') <= Cardinality(ActiveCalls) /\ Cardinality(ActiveCalls') \in Nat
    BY <1>2, FS_Subset, FS_CardinalityType
  <1>4. Undisturbed' => Cardinality(ActiveCalls) <= Limit
    BY DEF Within
  <1>5. Undisturbed' => Cardinality(ActiveCalls') <= Limit
    BY <1>2, <1>3, <1>4, CallsAreFew
  <1> QED BY <1>5 DEF Within

\* As many calls may be added as there are free slots.
LEMMA WithinGrows ==
    ASSUME Within, Undisturbed' => Undisturbed, NEW more \in SUBSET All,
           Cardinality(more) <= Free, ActiveCalls' = ActiveCalls \cup more
    PROVE  Within'
  <1>1. ActiveCalls \in SUBSET All
    BY DEF ActiveCalls, Reserved, With
  <1>2. IsFiniteSet(ActiveCalls) /\ Cardinality(ActiveCalls) \in Nat
    BY <1>1, CallsFinite
  <1>3. IsFiniteSet(more) /\ Cardinality(more) \in Nat
    BY CallsFinite
  <1>4. /\ Cardinality(ActiveCalls \cup more)
               = Cardinality(ActiveCalls) + Cardinality(more) - Cardinality(ActiveCalls \cap more)
        /\ Cardinality(ActiveCalls \cap more) \in Nat
    BY <1>2, <1>3, FS_Union, FS_Intersection, FS_CardinalityType
  <1>5. Undisturbed' => Cardinality(ActiveCalls) <= Limit
    BY DEF Within
  <1>6. CASE Cardinality(ActiveCalls) < Limit
    <2>1. Cardinality(more) <= Limit - Cardinality(ActiveCalls)
      BY <1>6 DEF Free
    <2>2. Cardinality(ActiveCalls \cup more) <= Limit
      BY <2>1, <1>2, <1>3, <1>4, CallsAreFew
    <2> QED BY <2>2 DEF Within
  <1>7. CASE ~(Cardinality(ActiveCalls) < Limit)
    <2>1. Cardinality(more) = 0
      BY <1>7, <1>3 DEF Free
    <2>2. more = {}
      BY <2>1, <1>3, FS_EmptySet
    <2>3. ActiveCalls' = ActiveCalls
      BY <2>2
    <2> QED BY <2>3, <1>5 DEF Within
  <1> QED BY <1>6, <1>7
-----------------------------------------------------------------------------
(* Local states.                                                           *)

LEMMA CallLocals ==
    ASSUME NEW l \in Locals, l.pc \in Attending \cup {"cancel-call"}
    PROVE  /\ l.call \in All
           /\ l.pc = "claim-quick" => l.call \in Quick
           /\ l.pc \in {"look", "check"} => l.call \in Calls
           /\ \A pc \in Attending :
                  /\ [l EXCEPT !.pc = pc].pc = pc
                  /\ [l EXCEPT !.pc = pc].call = l.call
                  /\ pc \notin {"claim-quick", "look", "check"} => [l EXCEPT !.pc = pc] \in Locals
                  /\ pc \in {"look", "check"} /\ l.call \in Calls => [l EXCEPT !.pc = pc] \in Locals
  <1>1. l \in [pc : {"claim-quick"}, call : Quick] \cup [pc : {"look", "check"}, call : Calls]
             \cup [pc : {"authorize", "dial", "mark", "return-admission", "fail", "cancel-call"},
                   call : All]
    BY DEF Locals, Attending, Trials
  <1>2. l \in [pc : Attending \cup {"cancel-call"}, call : All]
    BY <1>1 DEF Attending, Trials, All
  <1>3. \A pc \in Attending : [l EXCEPT !.pc = pc] = [pc |-> pc, call |-> l.call]
    BY <1>2
  <1>4. l.call \in All
    BY <1>2
  <1>5. \A pc \in {"authorize", "dial", "mark", "return-admission", "fail"} :
            [pc |-> pc, call |-> l.call] \in Locals
    BY <1>4 DEF Locals
  <1>6. \A pc \in {"look", "check"} :
            l.call \in Calls => [pc |-> pc, call |-> l.call] \in Locals
    BY DEF Locals
  <1>7. \A pc \in Attending \ {"claim-quick", "look", "check"} : 
            pc \in {"authorize", "dial", "mark", "return-admission", "fail"}
    BY DEF Attending, Trials
  <1>8. /\ l.pc = "claim-quick" => l.call \in Quick
        /\ l.pc \in {"look", "check"} => l.call \in Calls
    BY <1>1
  <1> QED BY <1>3, <1>4, <1>5, <1>6, <1>7, <1>8

LEMMA IdleLocals ==
    /\ Idle \in Locals /\ Idle.pc = "idle" /\ Idle.pc \notin Attending
  BY DEF Idle, Locals, Attending, Trials

LEMMA Gone ==
    ASSUME Typed, NEW w \in Workers, NEW l \in Locals, Goto(w, l)
    PROVE  /\ proc' \in [Workers -> Locals]
           /\ proc'[w] = l
           /\ \A v \in Workers \ {w} : proc'[v] = proc[v]
  BY DEF Typed, Goto

\* A worker that goes from one place to another without attending to a call.
LEMMA Elsewhere ==
    ASSUME Typed, NEW w \in Workers, NEW l \in Locals, Goto(w, l),
           proc[w].pc \notin Attending, l.pc \notin Attending
    PROVE  \A v \in Workers, d \in All :
               (Attends(v, d)' <=> Attends(v, d)) /\ (Attends(v, d) => proc'[v].pc = proc[v].pc)
  BY Gone DEF Attends

LEMMA Unharmed ==
    ASSUME Typed, row' = row, session' = session, leg' = leg,
           campaign' = "CANCELLED" <=> campaign = "CANCELLED"
    PROVE  \A c \in All : Fares(c)
  <1>1. ASSUME NEW c \in All, NEW pc
        PROVE  Tidy(c, pc) => Tidy(c, pc)'
    BY DEF Tidy
  <1> QED BY <1>1 DEF Fares

LEMMA SameLimit ==
    ASSUME Within, row' = row, session' = session, faults' = faults,
           campaign' # "CANCELLED" => campaign # "CANCELLED"
    PROVE  Within'
  <1>1. ActiveCalls' = ActiveCalls
    BY DEF ActiveCalls, Reserved, With
  <1>2. Undisturbed' => Undisturbed
    BY DEF Undisturbed
  <1> QED BY <1>1, <1>2, WithinShrinks

-----------------------------------------------------------------------------
(* The pump and the cancellations.                                         *)

LEMMA PumpKeeps ==
    ASSUME Inv, NEW w \in Workers, Pump(w)
    PROVE  Inv'
  <1> DEFINE l == [pc |-> "claim-slots"]
  <1>1. l \in Locals /\ l.pc \notin Attending
    BY DEF Locals, Attending, Trials
  <1>2. Goto(w, l) /\ proc[w].pc \notin Attending
    BY DEF Pump, At, Attending, Trials
  <1> HIDE DEF l
  <1>3. Typed'
    BY <1>1, <1>2, Gone DEF Pump, Inv, Typed, TypeOK
  <1>4. Aside
    BY <1>1, <1>2, Elsewhere DEF Inv, Aside, Pump
  <1>5. \A c \in All : Fares(c)
    BY Unharmed DEF Inv, Pump
  <1>6. Within'
    BY SameLimit DEF Inv, Pump
  <1> QED BY <1>3, <1>4, <1>5, <1>6, AsideKeeps DEF Inv

LEMMA ClaimSlotsKeeps ==
    ASSUME Inv, NEW w \in Workers, ClaimSlots(w)
    PROVE  Inv'
  <1> DEFINE waiting == With({"SCHEDULED"}) \cap Calls
             again == With({"PROCESSED"}) \cap Calls
  <1>1. waiting \in SUBSET Calls /\ again \in SUBSET Calls /\ Calls \subseteq All
    BY DEF All
  <1>2. /\ proc[w].pc \notin Attending
        /\ UNCHANGED <<campaign, session, leg, dials, job, faults>>
    BY DEF ClaimSlots, Claim, At, Attending, Trials
  <1>3. ASSUME Stop(w), UNCHANGED row
        PROVE  Inv'
    <2>1. Typed'
      BY <1>2, <1>3, IdleLocals, Gone DEF Inv, Typed, TypeOK, Stop
    <2>2. Aside
      BY <1>2, <1>3, IdleLocals, Elsewhere DEF Inv, Stop, Aside
    <2>3. \A c \in All : Fares(c)
      BY <1>2, <1>3, Unharmed DEF Inv
    <2>4. Within'
      BY <1>2, <1>3, SameLimit DEF Inv
    <2> QED BY <2>1, <2>2, <2>3, <2>4, AsideKeeps DEF Inv
  <1>4. ASSUME NEW claimed \in SUBSET waiting, campaign = "ACTIVE",
               Cardinality(claimed) <= Free,
               row' = [c \in All |-> IF c \in claimed
                                     THEN [row[c] EXCEPT !.status = "PROCESSED"] ELSE row[c]],
               NEW over \in BOOLEAN,
               Goto(w, [pc |-> "enqueue", pending |-> claimed \cup again, over |-> over])
        PROVE  Inv'
    <2> DEFINE l == [pc |-> "enqueue", pending |-> claimed \cup again, over |-> over]
    <2>1. l \in Locals /\ l.pc \notin Attending
      BY <1>1 DEF Locals, Attending, Trials
    <2>2. Goto(w, l)
      BY <1>4
    <2> HIDE DEF l
    <2>3. ASSUME NEW c \in All
          PROVE  /\ row'[c] = IF c \in claimed THEN [row[c] EXCEPT !.status = "PROCESSED"]
                                               ELSE row[c]
                 /\ row'[c] \in [status : {"NONE", "SCHEDULED", "PROCESSED", "IN_PROGRESS",
                                           "FAILED", "COMPLETED"}, cancelled : BOOLEAN]
                 /\ row'[c].cancelled = row[c].cancelled
                 /\ c \in claimed => /\ row[c].status = "SCHEDULED" /\ c \in Calls
                                     /\ row'[c].status = "PROCESSED"
      <3>1. row[c] \in [status : {"NONE", "SCHEDULED", "PROCESSED", "IN_PROGRESS",
                                  "FAILED", "COMPLETED"}, cancelled : BOOLEAN]
        BY DEF Inv, Typed, TypeOK
      <3>2. c \in claimed => row[c].status = "SCHEDULED" /\ c \in Calls
        BY DEF With
      <3> QED BY <1>4, <3>1, <3>2
    <2>4. Typed'
      <3>1. row' \in [All -> [status : {"NONE", "SCHEDULED", "PROCESSED", "IN_PROGRESS",
                                        "FAILED", "COMPLETED"}, cancelled : BOOLEAN]]
        BY <1>4, <2>3
      <3> QED BY <3>1, <1>2, <2>1, <2>2, Gone DEF Inv, Typed, TypeOK
    <2>5. Aside
      BY <1>2, <2>1, <2>2, Elsewhere DEF Inv, Aside
    <2>6. ASSUME NEW c \in All
          PROVE  Fares(c)
      <3>1. CASE c \notin claimed
        <4>1. row'[c] = row[c]
          BY <2>3, <3>1
        <4>2. \A pc : Tidy(c, pc) => Tidy(c, pc)'
          BY <4>1, <1>2 DEF Tidy
        <4> QED BY <4>1, <4>2 DEF Fares
      <3>2. CASE c \in claimed
        <4>1. /\ row[c].status = "SCHEDULED" /\ c \in Calls
              /\ row'[c].status = "PROCESSED" /\ row'[c].cancelled = row[c].cancelled
          BY <2>3, <3>2
        <4>2. c \notin Quick
          BY <4>1, CallsAreFew
        <4>3. \A pc : Tidy(c, pc) => Tidy(c, pc)'
          BY <4>1, <4>2, <1>2, <1>4 DEF Tidy
        <4> QED BY <4>1, <4>3 DEF Fares
      <3> QED BY <3>1, <3>2
    <2>7. Within'
      <3>1. ActiveCalls' = ActiveCalls \cup claimed
        <4>1. \A c \in All : row'[c].status = IF c \in claimed THEN "PROCESSED" ELSE row[c].status
          BY <2>3
        <4>2. claimed \subseteq All
          BY <1>1
        <4> QED BY <4>1, <4>2, <1>2 DEF ActiveCalls, Reserved, With
      <3>2. Undisturbed' => Undisturbed
        BY <1>2, <2>3 DEF Undisturbed
      <3>3. claimed \in SUBSET All
        BY <1>1
      <3> QED BY <3>1, <3>2, <3>3, <1>4, WithinGrows DEF Inv
    <2> QED BY <2>4, <2>5, <2>6, <2>7, AsideKeeps DEF Inv
  <1>5. ASSUME NEW claimed \in SUBSET waiting,
               \/ claimed = waiting /\ Cardinality(waiting) <= Free
               \/ Cardinality(claimed) = Free
        PROVE  Cardinality(claimed) <= Free
    <2>1. claimed \in SUBSET All
      BY <1>1
    <2>2. Cardinality(claimed) \in Nat
      BY <2>1, CallsFinite
    <2> HIDE DEF waiting
    <2> QED BY <1>5, <2>2
  <1> QED BY <1>3, <1>4, <1>5 DEF ClaimSlots, Claim

LEMMA EnqueueKeeps ==
    ASSUME Inv, NEW w \in Workers, Enqueue(w)
    PROVE  Inv'
  <1>1. /\ At(w, "enqueue") /\ UNCHANGED <<campaign, row, session, leg, dials, faults>>
        /\ job' = [c \in Calls |-> IF c \in proc[w].pending /\ job[c] \notin {"waiting", "running"}
                                   THEN "waiting" ELSE job[c]]
    BY DEF Enqueue, EnqueueUnless
  <1>2. \E l \in Locals : l.pc \notin Attending /\ Goto(w, l)
    <2>1. CASE proc[w].over
      <3> DEFINE l == [proc[w] EXCEPT !.pc = "complete"]
      <3>1. proc[w] \in [pc : {"enqueue", "complete"}, pending : SUBSET Calls, over : BOOLEAN]
        BY <1>1 DEF Inv, Typed, Locals, At
      <3>2. l \in Locals /\ l.pc = "complete"
        BY <3>1 DEF Locals
      <3>3. Goto(w, l)
        BY <2>1 DEF Enqueue, EnqueueUnless, Step
      <3> QED BY <3>2, <3>3 DEF Attending, Trials
    <2>2. CASE ~proc[w].over
      BY <2>2, IdleLocals DEF Enqueue, EnqueueUnless, Stop
    <2> QED BY <2>1, <2>2
  <1>3. PICK l \in Locals : l.pc \notin Attending /\ Goto(w, l)
    BY <1>2
  <1>4. \A c \in Calls : /\ job'[c] \in {"none", "waiting", "running"}
                         /\ job'[c] = "running" <=> job[c] = "running"
    BY <1>1 DEF Inv, Typed, TypeOK
  <1>5. Typed'
    BY <1>1, <1>3, <1>4, Gone DEF Inv, Typed, TypeOK
  <1>6. Aside
    BY <1>1, <1>3, <1>4, Elsewhere DEF Inv, Aside, At, Attending, Trials
  <1>7. \A c \in All : Fares(c)
    BY <1>1, Unharmed DEF Inv
  <1>8. Within'
    BY <1>1, SameLimit DEF Inv
  <1> QED BY <1>5, <1>6, <1>7, <1>8, AsideKeeps DEF Inv

LEMMA MarkCampaignCompletedKeeps ==
    ASSUME Inv, NEW w \in Workers, MarkCampaignCompleted(w)
    PROVE  Inv'
  <1>1. /\ At(w, "complete") /\ Stop(w) /\ UNCHANGED <<row, session, leg, dials, job, faults>>
        /\ campaign' \in {campaign, "COMPLETED"}
        /\ campaign' # campaign => campaign = "ACTIVE"
    BY DEF MarkCampaignCompleted
  <1>2. Typed'
    BY <1>1, IdleLocals, Gone DEF Inv, Typed, TypeOK, Stop
  <1>3. Aside
    BY <1>1, IdleLocals, Elsewhere DEF Inv, Aside, At, Attending, Trials, Stop
  <1>4. \A c \in All : Fares(c)
    BY <1>1, Unharmed DEF Inv
  <1>5. Within'
    BY <1>1, SameLimit DEF Inv
  <1> QED BY <1>2, <1>3, <1>4, <1>5, AsideKeeps DEF Inv

LEMMA CancelCampaignKeeps ==
    ASSUME Inv, NEW w \in Workers, CancelCampaign(w)
    PROVE  Inv'
  <1> DEFINE l == [pc |-> "cancel-rows", running |-> With({"IN_PROGRESS"}) \cap Calls]
  <1>1. l \in Locals /\ l.pc \notin Attending
    BY DEF Locals, Attending, Trials
  <1>2. /\ At(w, "idle") /\ Goto(w, l)
        /\ UNCHANGED <<campaign, row, session, leg, dials, job, faults>>
    BY DEF CancelCampaign
  <1> HIDE DEF l
  <1>3. Typed'
    BY <1>1, <1>2, Gone DEF Inv, Typed, TypeOK
  <1>4. Aside
    BY <1>1, <1>2, Elsewhere DEF Inv, Aside, At, Attending, Trials
  <1>5. \A c \in All : Fares(c)
    BY <1>2, Unharmed DEF Inv
  <1>6. Within'
    BY <1>2, SameLimit DEF Inv
  <1> QED BY <1>3, <1>4, <1>5, <1>6, AsideKeeps DEF Inv

LEMMA CancelRowsKeeps ==
    ASSUME Inv, NEW w \in Workers, CancelRows(w)
    PROVE  Inv'
  <1> DEFINE l == [proc[w] EXCEPT !.pc = "stop-calls"]
  <1>1. /\ At(w, "cancel-rows") /\ Goto(w, l) /\ campaign' = "CANCELLED"
        /\ UNCHANGED <<session, leg, dials, job, faults>>
    BY DEF CancelRows, Step
  <1>2. l \in Locals /\ l.pc \notin Attending
    <2>1. proc[w] \in [pc : {"cancel-rows", "stop-calls"}, running : SUBSET Calls]
      BY <1>1 DEF Inv, Typed, Locals, At
    <2>2. l \in [pc : {"cancel-rows", "stop-calls"}, running : SUBSET Calls]
      BY <2>1
    <2>3. l.pc = "stop-calls"
      BY <2>1
    <2> QED BY <2>2, <2>3 DEF Locals, Attending, Trials
  <1> HIDE DEF l
  <1>3. ASSUME NEW c \in All
        PROVE  /\ row'[c] \in [status : {"NONE", "SCHEDULED", "PROCESSED", "IN_PROGRESS",
                                         "FAILED", "COMPLETED"}, cancelled : BOOLEAN]
               /\ row'[c].cancelled = row[c].cancelled
               /\ \/ row'[c] = row[c]
                  \/ /\ c \in Calls /\ row'[c].status = "FAILED"
                     /\ row[c].status \in {"SCHEDULED", "PROCESSED"}
               /\ c \in Calls => row'[c].status \notin {"SCHEDULED", "PROCESSED"}
    <2>1. row[c] \in [status : {"NONE", "SCHEDULED", "PROCESSED", "IN_PROGRESS",
                                "FAILED", "COMPLETED"}, cancelled : BOOLEAN]
      BY DEF Inv, Typed, TypeOK
    <2>2. row'[c] = IF c \in Calls /\ row[c].status \in {"SCHEDULED", "PROCESSED"}
                    THEN [row[c] EXCEPT !.status = "FAILED"] ELSE row[c]
      BY DEF CancelRows
    <2> QED BY <2>1, <2>2
  <1>4. Typed'
    <2>1. row' \in [All -> [status : {"NONE", "SCHEDULED", "PROCESSED", "IN_PROGRESS",
                                      "FAILED", "COMPLETED"}, cancelled : BOOLEAN]]
      BY <1>3 DEF CancelRows
    <2> QED BY <2>1, <1>1, <1>2, Gone DEF Inv, Typed, TypeOK
  <1>5. Aside
    BY <1>1, <1>2, Elsewhere DEF Inv, Aside, At, Attending, Trials
  <1>6. ASSUME NEW c \in All
        PROVE  Fares(c)
    <2>1. c \in Calls => c \notin Quick
      BY CallsAreFew
    <2>2. \A pc : Tidy(c, pc) => Tidy(c, pc)'
      BY <1>1, <1>3, <2>1 DEF Tidy
    <2> QED BY <1>3, <2>2 DEF Fares
  <1>7. Within'
    BY <1>1 DEF Within, Undisturbed
  <1> QED BY <1>4, <1>5, <1>6, <1>7, AsideKeeps DEF Inv

LEMMA StopCallsKeeps ==
    ASSUME Inv, NEW w \in Workers, StopCalls(w)
    PROVE  Inv'
  <1>1. /\ At(w, "stop-calls") /\ Stop(w)
        /\ UNCHANGED <<campaign, row, session, dials, job, faults>>
    BY DEF StopCalls
  <1>2. \A c \in All : /\ leg'[c] \in {"none", "live", "over", "reported"}
                       /\ leg'[c] = leg[c] \/ (leg[c] = "live" /\ leg'[c] = "over")
    BY DEF StopCalls, Inv, Typed, TypeOK
  <1>3. Typed'
    <2>1. leg' \in [All -> {"none", "live", "over", "reported"}]
      BY <1>2 DEF StopCalls
    <2> QED BY <2>1, <1>1, IdleLocals, Gone DEF Inv, Typed, TypeOK, Stop
  <1>4. Aside
    BY <1>1, IdleLocals, Elsewhere DEF Inv, Aside, At, Attending, Trials, Stop
  <1>5. ASSUME NEW c \in All
        PROVE  Fares(c)
    <2>1. \A pc : Tidy(c, pc) => Tidy(c, pc)'
      BY <1>1, <1>2 DEF Tidy
    <2> QED BY <1>1, <2>1 DEF Fares
  <1>6. Within'
    BY <1>1, SameLimit DEF Inv
  <1> QED BY <1>3, <1>4, <1>5, <1>6, AsideKeeps DEF Inv

LEMMA CancelCallKeeps ==
    ASSUME Inv, NEW w \in Workers, NEW c \in All, CancelCall(w, c)
    PROVE  Inv'
  <1> DEFINE l == [pc |-> "cancel-call", call |-> c]
  <1>1. l \in Locals /\ l.pc \notin Attending
    BY DEF Locals, Attending, Trials
  <1>2. /\ At(w, "idle") /\ Goto(w, l)
        /\ UNCHANGED <<campaign, row, session, leg, dials, job, faults>>
    BY DEF CancelCall
  <1> HIDE DEF l
  <1>3. Typed'
    BY <1>1, <1>2, Gone DEF Inv, Typed, TypeOK
  <1>4. Aside
    BY <1>1, <1>2, Elsewhere DEF Inv, Aside, At, Attending, Trials
  <1>5. \A d \in All : Fares(d)
    BY <1>2, Unharmed DEF Inv
  <1>6. Within'
    BY <1>2, SameLimit DEF Inv
  <1> QED BY <1>3, <1>4, <1>5, <1>6, AsideKeeps DEF Inv
LEMMA MarkCancelledKeeps ==
    ASSUME Inv, NEW w \in Workers, MarkCancelled(w)
    PROVE  Inv'
  <1> DEFINE c == proc[w].call
  <1>1. /\ At(w, "cancel-call") /\ Stop(w)
        /\ UNCHANGED <<campaign, session, leg, dials, job, faults>>
        /\ row' = [row EXCEPT ![c] = [status |-> "FAILED", cancelled |-> TRUE]]
    BY DEF MarkCancelled, Cancelled
  <1>2. c \in All
    BY <1>1, CallLocals DEF Inv, Typed, At
  <1> HIDE DEF c
  <1>3. /\ row'[c].status = "FAILED" /\ row'[c].cancelled
        /\ \A d \in All \ {c} : row'[d] = row[d]
        /\ row' \in [All -> [status : {"NONE", "SCHEDULED", "PROCESSED", "IN_PROGRESS",
                                       "FAILED", "COMPLETED"}, cancelled : BOOLEAN]]
    BY <1>1, <1>2 DEF Inv, Typed, TypeOK
  <1>4. Typed'
    BY <1>1, <1>3, IdleLocals, Gone DEF Inv, Typed, TypeOK, Stop
  <1>5. Aside
    BY <1>1, IdleLocals, Elsewhere DEF Inv, Aside, At, Attending, Trials, Stop
  <1>6. ASSUME NEW d \in All
        PROVE  Fares(d)
    <2>1. CASE d = c
      BY <2>1, <1>3 DEF Fares
    <2>2. CASE d # c
      <3>1. row'[d] = row[d]
        BY <2>2, <1>3
      <3>2. \A pc : Tidy(d, pc) => Tidy(d, pc)'
        BY <3>1, <1>1 DEF Tidy
      <3> QED BY <3>1, <3>2 DEF Fares
    <2> QED BY <2>1, <2>2
  <1>7. Within'
    <2>1. ~Undisturbed'
      BY <1>2, <1>3 DEF Undisturbed
    <2> QED BY <2>1 DEF Within
  <1> QED BY <1>4, <1>5, <1>6, <1>7, AsideKeeps DEF Inv

-----------------------------------------------------------------------------
(* Callees, the AI worker, the sweeps and faults.                          *)

LEMMA HangUpKeeps ==
    ASSUME Inv, NEW c \in All, HangUp(c)
    PROVE  Inv'
  <1>1. leg[c] = "live" /\ UNCHANGED <<campaign, row, session, dials, job, proc, faults>>
    BY DEF HangUp
  <1>2. /\ leg' \in [All -> {"none", "live", "over", "reported"}]
        /\ leg'[c] = "over" /\ \A d \in All \ {c} : leg'[d] = leg[d]
    BY DEF HangUp, Inv, Typed, TypeOK
  <1>3. Typed'
    BY <1>1, <1>2 DEF Inv, Typed, TypeOK
  <1>4. Aside
    BY <1>1 DEF Aside, Attends
  <1>5. ASSUME NEW d \in All
        PROVE  Fares(d)
    <2>1. leg'[d] = leg[d] \/ (leg[d] = "live" /\ leg'[d] = "over")
      BY <1>1, <1>2
    <2>2. \A pc : Tidy(d, pc) => Tidy(d, pc)'
      BY <1>1, <2>1 DEF Tidy
    <2> QED BY <1>1, <2>2 DEF Fares
  <1>6. Within'
    BY <1>1, SameLimit DEF Inv
  <1> QED BY <1>3, <1>4, <1>5, <1>6, AsideKeeps DEF Inv

LEMMA ReportCallKeeps ==
    ASSUME Inv, NEW c \in All, ReportCall(c)
    PROVE  Inv'
  <1>1. leg[c] = "over" /\ UNCHANGED <<campaign, dials, job, proc, faults>>
    BY DEF ReportCall
  <1>2. /\ leg' \in [All -> {"none", "live", "over", "reported"}]
        /\ leg'[c] = "reported" /\ \A d \in All \ {c} : leg'[d] = leg[d]
    BY DEF ReportCall, Inv, Typed, TypeOK
  <1>3. /\ session' \in [All -> {"NONE", "ACTIVE", "ENDED", "SETTLED"}]
        /\ session'[c] # "ACTIVE" /\ \A d \in All \ {c} : session'[d] = session[d]
    BY DEF ReportCall, Inv, Typed, TypeOK
  <1>4. /\ row' \in [All -> [status : {"NONE", "SCHEDULED", "PROCESSED", "IN_PROGRESS",
                                       "FAILED", "COMPLETED"}, cancelled : BOOLEAN]]
        /\ row'[c].status = "COMPLETED" /\ row'[c].cancelled = row[c].cancelled
        /\ \A d \in All \ {c} : row'[d] = row[d]
    BY DEF ReportCall, Inv, Typed, TypeOK
  <1>5. Typed'
    BY <1>1, <1>2, <1>3, <1>4 DEF Inv, Typed, TypeOK
  <1>6. Aside
    BY <1>1 DEF Aside, Attends
  <1>7. ASSUME NEW d \in All
        PROVE  Fares(d)
    <2>1. CASE d = c
      <3>1. \A pc : Tidy(d, pc) => Tidy(d, pc)'
        BY <2>1, <1>1, <1>2, <1>3, <1>4 DEF Tidy
      <3> QED BY <2>1, <3>1, <1>4 DEF Fares
    <2>2. CASE d # c
      <3>1. row'[d] = row[d] /\ session'[d] = session[d] /\ leg'[d] = leg[d]
        BY <2>2, <1>2, <1>3, <1>4
      <3>2. \A pc : Tidy(d, pc) => Tidy(d, pc)'
        BY <3>1, <1>1 DEF Tidy
      <3> QED BY <3>1, <3>2 DEF Fares
    <2> QED BY <2>1, <2>2
  <1>8. Within'
    <2>1. Undisturbed' => Undisturbed
      BY <1>1, <1>4 DEF Undisturbed
    <2>2. ActiveCalls' \subseteq ActiveCalls
      BY <1>3, <1>4 DEF ActiveCalls, Reserved, With
    <2> QED BY <2>1, <2>2, WithinShrinks DEF Inv
  <1> QED BY <1>5, <1>6, <1>7, <1>8, AsideKeeps DEF Inv

LEMMA EndSilentSessionKeeps ==
    ASSUME Inv, NEW c \in All, EndSilentSession(c)
    PROVE  Inv'
  <1>1. UNCHANGED <<campaign, row, leg, dials, job, proc, faults>>
    BY DEF EndSilentSession
  <1>2. /\ session' \in [All -> {"NONE", "ACTIVE", "ENDED", "SETTLED"}]
        /\ session'[c] # "ACTIVE" /\ \A d \in All \ {c} : session'[d] = session[d]
    BY DEF EndSilentSession, Inv, Typed, TypeOK
  <1>3. Typed'
    BY <1>1, <1>2 DEF Inv, Typed, TypeOK
  <1>4. Aside
    BY <1>1 DEF Aside, Attends
  <1>5. ASSUME NEW d \in All
        PROVE  Fares(d)
    <2>1. \A pc : Tidy(d, pc) => Tidy(d, pc)'
      BY <1>1, <1>2 DEF Tidy
    <2> QED BY <1>1, <2>1 DEF Fares
  <1>6. Within'
    <2>1. Undisturbed' => Undisturbed
      BY <1>1 DEF Undisturbed
    <2>2. ActiveCalls' \subseteq ActiveCalls
      BY <1>1, <1>2 DEF ActiveCalls, Reserved, With
    <2> QED BY <2>1, <2>2, WithinShrinks DEF Inv
  <1> QED BY <1>3, <1>4, <1>5, <1>6, AsideKeeps DEF Inv

\* After a fault only the dials count, and a fault makes room for one more.
LEMMA FaultCounts ==
    ASSUME Inv, Typed', Started', Fault,
           \A c \in All : dials'[c] + Cardinality(Trying(c)') <= dials[c] + Cardinality(Trying(c))
    PROVE  Inv'
  <1>1. faults \in Nat /\ faults' = faults + 1
    BY CallsAreFew DEF Inv, Typed, TypeOK, Fault
  <1>2. Calm' /\ Within'
    BY <1>1 DEF Calm, Within, Undisturbed
  <1>3. Scarce'
    <2> SUFFICES ASSUME NEW c \in All
                 PROVE  (dials[c] + Cardinality(Trying(c)) + Chances(c) <= 1 + faults)'
      BY DEF Scarce
    <2>1. /\ dials[c] + Cardinality(Trying(c)) + Chances(c) <= 1 + faults
          /\ dials[c] \in Nat /\ dials'[c] \in Nat
      BY DEF Inv, Scarce, Typed, TypeOK
    <2>2. Cardinality(Trying(c)) \in Nat
      BY TryingFinite
    <2>3. Cardinality(Trying(c)') \in Nat
      <3>1. Trying(c)' \subseteq Workers
        BY DEF Trying
      <3> QED BY <3>1, CallsAreFew, FS_Subset, FS_CardinalityType
    <2>4. Chances(c) \in {0, 1} /\ Chances(c)' \in {0, 1}
      BY DEF Chances
    <2> HIDE DEF Chances
    <2> QED BY <1>1, <2>1, <2>2, <2>3, <2>4
  <1> QED BY <1>2, <1>3 DEF Inv

LEMMA FaultKeeps ==
    ASSUME Inv, Typed', Started', Fault, dials' = dials,
           \A c \in All : Trying(c)' \subseteq Trying(c)
    PROVE  Inv'
  <1>1. ASSUME NEW c \in All
        PROVE  dials'[c] + Cardinality(Trying(c)') <= dials[c] + Cardinality(Trying(c))
    <2>1. IsFiniteSet(Trying(c)) /\ Cardinality(Trying(c)) \in Nat
      BY TryingFinite
    <2>2. Cardinality(Trying(c)') \in Nat /\ Cardinality(Trying(c)') <= Cardinality(Trying(c))
      BY <2>1, FS_Subset, FS_CardinalityType
    <2>3. dials[c] \in Nat
      BY DEF Inv, Typed, TypeOK
    <2> QED BY <2>1, <2>2, <2>3
  <1> QED BY <1>1, FaultCounts

LEMMA CrashKeeps ==
    ASSUME Inv, NEW w \in Workers, Crash(w)
    PROVE  Inv'
  <1>1. Fault /\ Stop(w) /\ UNCHANGED <<campaign, row, session, leg, dials>>
    BY DEF Crash
  <1>2. job' \in [Calls -> {"none", "waiting", "running"}]
    <2>1. \A c : Requeued(c) \in [Calls -> {"none", "waiting", "running"}]
      BY DEF Requeued, Inv, Typed, TypeOK
    <2> QED BY <2>1 DEF Crash, Inv, Typed, TypeOK
  <1>3. faults' \in 0..MaxFaults
    BY <1>1, CallsAreFew DEF Fault, Inv, Typed, TypeOK
  <1>4. /\ proc' \in [Workers -> Locals] /\ proc'[w] = Idle
        /\ \A v \in Workers \ {w} : proc'[v] = proc[v]
    BY <1>1, IdleLocals, Gone DEF Inv, Stop
  <1>5. Typed'
    BY <1>1, <1>2, <1>3, <1>4 DEF Inv, Typed, TypeOK
  <1>6. \A v \in Workers, c \in All :
            Attends(v, c)' => Attends(v, c) /\ proc'[v] = proc[v]
    BY <1>4, IdleLocals DEF Attends
  <1>7. Started'
    BY <1>1, <1>6 DEF Inv, Started
  <1>8. \A c \in All : Trying(c)' \subseteq Trying(c)
    BY <1>6 DEF Trying, Tries
  <1> QED BY <1>1, <1>5, <1>7, <1>8, FaultKeeps

LEMMA LoseJobLockKeeps ==
    ASSUME Inv, NEW c \in Calls, LoseJobLock(c)
    PROVE  Inv'
  <1>1. Fault /\ UNCHANGED <<campaign, row, session, leg, dials, proc>>
    BY DEF LoseJobLock
  <1>2. job' \in [Calls -> {"none", "waiting", "running"}]
    BY DEF LoseJobLock, Requeued, Inv, Typed, TypeOK
  <1>3. faults' \in 0..MaxFaults
    BY <1>1, CallsAreFew DEF Fault, Inv, Typed, TypeOK
  <1>4. Typed'
    BY <1>1, <1>2, <1>3 DEF Inv, Typed, TypeOK
  <1>5. Started'
    BY <1>1 DEF Inv, Started, Attends
  <1>6. \A d \in All : Trying(d)' \subseteq Trying(d)
    BY <1>1 DEF Trying, Tries, Attends
  <1> QED BY <1>1, <1>4, <1>5, <1>6, FaultKeeps

-----------------------------------------------------------------------------
(* The worker of a call.                                                   *)

Rows == [status : {"NONE", "SCHEDULED", "PROCESSED", "IN_PROGRESS", "FAILED", "COMPLETED"},
         cancelled : BOOLEAN]

\* The worker of the call goes to another place, or is done with the call.
Comes(w, c, to) == \/ /\ to \in Attending \ {"claim-quick"} /\ Step(w, to)
                      /\ to \in {"look", "check"} => c \in Calls
                   \/ to = "nobody" /\ Stop(w)

Only(c) ==
    /\ campaign' = campaign
    /\ \A d \in All \ {c} : /\ row'[d] = row[d] /\ session'[d] = session[d]
                            /\ leg'[d] = leg[d] /\ dials'[d] = dials[d]
    /\ \A d \in Calls \ {c} : job'[d] = job[d]

LEMMA Comers ==
    ASSUME Typed, NEW w \in Workers, NEW c, Attends(w, c), NEW to, Comes(w, c, to)
    PROVE  /\ c \in All
           /\ proc' \in [Workers -> Locals]
           /\ \A v \in Workers \ {w} : proc'[v] = proc[v]
           /\ Attends(w, c)' <=> to # "nobody"
           /\ Attends(w, c)' => proc'[w].pc = to
           /\ Tries(w, c)' <=> to \in Trials
           /\ Tries(w, c) <=> proc[w].pc \in Trials
           /\ Only(c) => Concerns(w, c)
  <1>1. proc[w] \in Locals /\ proc[w].pc \in Attending /\ proc[w].call = c
    BY DEF Typed, Attends
  <1>2. c \in All
    BY <1>1, CallLocals
  <1>3. ASSUME to \in Attending \ {"claim-quick"}, Step(w, to),
               to \in {"look", "check"} => c \in Calls
        PROVE  /\ proc' \in [Workers -> Locals]
               /\ \A v \in Workers \ {w} : proc'[v] = proc[v]
               /\ proc'[w].pc = to /\ proc'[w].call = c
    <2> DEFINE l == [proc[w] EXCEPT !.pc = to]
    <2>1. l \in Locals /\ l.pc = to /\ l.call = c
      BY <1>1, <1>3, CallLocals
    <2>2. Goto(w, l)
      BY <1>3 DEF Step
    <2> HIDE DEF l
    <2> QED BY <2>1, <2>2, Gone
  <1>4. ASSUME to = "nobody", Stop(w)
        PROVE  /\ proc' \in [Workers -> Locals]
               /\ \A v \in Workers \ {w} : proc'[v] = proc[v]
               /\ proc'[w].pc \notin Attending
    BY <1>4, IdleLocals, Gone DEF Stop
  <1>5. "nobody" \notin Attending /\ Trials \subseteq Attending
    BY DEF Attending, Trials
  <1>6. \A d \in All \ {c} : ~Attends(w, d) /\ ~Attends(w, d)'
    BY <1>1, <1>3, <1>4 DEF Attends, Comes
  <1>7. Only(c) => Concerns(w, c)
    BY <1>3, <1>4, <1>6 DEF Only, Concerns, Comes
  <1>8. (Attends(w, c)' <=> to # "nobody") /\ (Attends(w, c)' => proc'[w].pc = to)
    BY <1>3, <1>4, <1>5 DEF Comes, Attends
  <1> QED BY <1>2, <1>3, <1>4, <1>5, <1>7, <1>8 DEF Comes, Tries

\* The state of its call allows the worker to come there.
Leads(c, from, to) ==
    /\ row[c].status # "NONE" => row'[c].status # "NONE"
    /\ row'[c].status = "SCHEDULED" => row[c].status = "SCHEDULED"
    /\ row'[c].cancelled = row[c].cancelled
    /\ to # "nobody" /\ c \in Calls => job'[c] = job[c]
    /\ dials'[c] + (IF to \in Trials THEN 1 ELSE 0)
           <= dials[c] + (IF from \in Trials THEN 1 ELSE 0)
    /\ Open(c)' => Open(c)
    /\ faults = 0 /\ Tidy(c, from) => Tidy(c, to)'

LEMMA ComersKeep ==
    ASSUME Typed, Typed', Started, Scarce, Calm, NEW w \in Workers, NEW c, Attends(w, c),
           NEW to, Comes(w, c, to), Only(c), faults' = faults, Leads(c, proc[w].pc, to)
    PROVE  Started' /\ Scarce' /\ Calm'
  <1>1. /\ c \in All /\ Concerns(w, c)
        /\ Attends(w, c)' <=> to # "nobody"
        /\ Attends(w, c)' => proc'[w].pc = to
        /\ Tries(w, c)' <=> to \in Trials
        /\ Tries(w, c) <=> proc[w].pc \in Trials
    BY Comers
  <1>2. Started'
    BY <1>1, ConcernsStarted DEF Leads
  <1>3. faults \in Nat
    BY CallsAreFew DEF Typed, TypeOK
  <1>4. Scarce'
    <2>1. Chances(c) \in {0, 1} /\ Chances(c)' \in {0, 1} /\ (Chances(c)' = 1 => Chances(c) = 1)
      BY DEF Chances, Leads
    <2>2. dials[c] \in Nat /\ dials'[c] \in Nat
      BY <1>1 DEF Typed, TypeOK
    <2>3. dials'[c] + (IF Tries(w, c)' THEN 1 ELSE 0) <= dials[c] + (IF Tries(w, c) THEN 1 ELSE 0)
      BY <1>1 DEF Leads
    <2>4. dials'[c] + (IF Tries(w, c)' THEN 1 ELSE 0) + Chances(c)'
              <= dials[c] + (IF Tries(w, c) THEN 1 ELSE 0) + Chances(c) + faults' - faults
      <3> HIDE DEF Chances
      <3> QED BY <2>1, <2>2, <2>3, <1>3
    <2>5. faults' >= faults
      BY <1>3
    <2> QED BY <1>1, <2>4, <2>5, ConcernsScarce
  <1>5. Calm'
    <2> SUFFICES ASSUME faults = 0
                 PROVE  Calm'
      BY DEF Calm
    <2>1. Attends(w, c)' /\ c \in Calls => job'[c] = "running"
      BY <1>1 DEF Calm, Jobs, Leads
    <2>2. to = IF Attends(w, c)' THEN proc'[w].pc ELSE "nobody"
      BY <1>1
    <2>3. Tidy(c, proc[w].pc) => Tidy(c, to)'
      BY DEF Leads
    <2>4. row'[c].cancelled = row[c].cancelled
      BY DEF Leads
    <2>5. PICK from : from = proc[w].pc
      OBVIOUS
    <2>6. from = IF Attends(w, c) THEN proc[w].pc ELSE "nobody"
      BY <2>5
    <2>7. Tidy(c, from) => Tidy(c, to)'
      BY <2>3, <2>5
    <2> QED BY <1>1, <2>1, <2>2, <2>4, <2>6, <2>7, ConcernsCalm
  <1> QED BY <1>2, <1>4, <1>5

LEMMA Attended ==
    ASSUME Inv, NEW w \in Workers, NEW c \in All, Attends(w, c)
    PROVE  /\ row[c] \in Rows /\ row[c].status # "NONE"
           /\ c \in Calls => row[c].status # "SCHEDULED" /\ campaign # "SCHEDULED"
           /\ c \in Calls \/ c \in Quick
           /\ ~(c \in Calls /\ c \in Quick)
           /\ Undisturbed => Tidy(c, proc[w].pc)
  <1>1. row[c] \in Rows
    BY DEF Inv, Typed, TypeOK, Rows
  <1>2. Undisturbed => Tidy(c, proc[w].pc)
    BY DEF Undisturbed, Inv, Calm, TidyCall
  <1> QED BY <1>1, <1>2, CallsAreFew DEF Inv, Started, All

LEMMA Putting ==
    ASSUME Typed, NEW c \in All, NEW status, Put(c, status),
           status \in {"NONE", "SCHEDULED", "PROCESSED", "IN_PROGRESS", "FAILED", "COMPLETED"}
    PROVE  /\ row' \in [All -> Rows]
           /\ row'[c].status = status /\ row'[c].cancelled = row[c].cancelled
           /\ \A d \in All \ {c} : row'[d] = row[d]
  <1>1. row \in [All -> Rows]
    BY DEF Typed, TypeOK, Rows
  <1> QED BY <1>1 DEF Put, Rows

LEMMA Finishing ==
    ASSUME Typed, NEW w \in Workers, NEW c \in All, Attends(w, c), Finish(w)
    PROVE  /\ Comes(w, c, "nobody")
           /\ job' \in [Calls -> {"none", "waiting", "running"}]
           /\ \A d \in Calls \ {c} : job'[d] = job[d]
  BY DEF Typed, TypeOK, Finish, Comes, Attends

LEMMA AuthorizeKeeps ==
    ASSUME Inv, NEW w \in Workers, Authorize(w)
    PROVE  Inv'
  <1>1. proc[w].pc = "authorize" /\ proc[w].pc \in Attending
    BY DEF Authorize, At, Attending, Trials
  <1>2. PICK c \in All : c = proc[w].call /\ Attends(w, c)
    BY <1>1, CallLocals DEF Inv, Typed, Attends
  <1>3. UNCHANGED <<campaign, row, leg, dials, job, faults>>
    BY DEF Authorize
  <1>5. PICK to \in {"look", "dial", "return-admission"} :
            /\ Comes(w, c, to)
            /\ \/ session' = session /\ to = "return-admission"
               \/ session' = [session EXCEPT ![c] = "ACTIVE"] /\ to \in {"look", "dial"}
    BY <1>2 DEF Authorize, Comes, Attending, Trials
  <1>6. /\ session' \in [All -> {"NONE", "ACTIVE", "ENDED", "SETTLED"}]
        /\ \A d \in All \ {c} : session'[d] = session[d]
        /\ \/ session'[c] = session[c] /\ to = "return-admission"
           \/ session'[c] = "ACTIVE" /\ to \in {"look", "dial"}
    BY <1>2, <1>5 DEF Inv, Typed, TypeOK
  <1>7. Typed'
    BY <1>2, <1>3, <1>5, <1>6, Comers DEF Inv, Typed, TypeOK
  <1>8. Only(c)
    BY <1>3, <1>6 DEF Only
  <1>9. Leads(c, proc[w].pc, to)
    <2>1. Tidy(c, "authorize") => Tidy(c, to)'
      BY <1>3, <1>5, <1>6 DEF Tidy
    <2>2. dials[c] \in Nat
      BY <1>2 DEF Inv, Typed, TypeOK
    <2>3. Open(c)' => Open(c)
      BY <1>3 DEF Open
    <2> QED BY <1>1, <1>3, <2>1, <2>2, <2>3 DEF Leads, Trials
  <1>10. Within'
    <2>1. Undisturbed' => Undisturbed
      BY <1>3 DEF Undisturbed
    <2>2. SUFFICES ASSUME Undisturbed
                   PROVE  ActiveCalls' \subseteq ActiveCalls
      BY <2>1, WithinShrinks DEF Inv, Within
    <2>3. row[c].status = "PROCESSED"
      BY <1>1, <1>2, <2>2, Attended DEF Tidy, Undisturbed
    <2>4. c \in ActiveCalls
      BY <1>2, <2>3 DEF ActiveCalls, Reserved, With
    <2> QED BY <1>3, <1>6, <2>4 DEF ActiveCalls, Reserved, With
  <1> QED BY <1>2, <1>3, <1>5, <1>7, <1>8, <1>9, <1>10, ComersKeep DEF Inv

LEMMA LookForCalleeKeeps ==
    ASSUME Inv, NEW w \in Workers, LookForCallee(w)
    PROVE  Inv'
  <1>1. proc[w].pc = "look" /\ proc[w].pc \in Attending
    BY DEF LookForCallee, At, Attending, Trials
  <1>2. PICK c \in All : c = proc[w].call /\ Attends(w, c)
    BY <1>1, CallLocals DEF Inv, Typed, Attends
  <1>3. UNCHANGED <<campaign, row, session, leg, dials, job, faults>>
    BY DEF LookForCallee
  <1>4. PICK to : to = (IF leg[c] = "live" THEN "mark" ELSE "dial") /\ Comes(w, c, to)
    BY <1>2 DEF LookForCallee, Comes, Attending, Trials
  <1>5. Typed'
    BY <1>2, <1>3, <1>4, Comers DEF Inv, Typed, TypeOK
  <1>6. Only(c)
    BY <1>3 DEF Only
  <1>7. Leads(c, proc[w].pc, to)
    <2>1. Tidy(c, "look") => Tidy(c, to)'
      BY <1>3, <1>4 DEF Tidy
    <2>2. dials[c] \in Nat
      BY <1>2 DEF Inv, Typed, TypeOK
    <2>3. Open(c)' => Open(c)
      BY <1>3 DEF Open
    <2> QED BY <1>1, <1>3, <1>4, <2>1, <2>2, <2>3 DEF Leads, Trials
  <1>8. Within'
    BY <1>3, SameLimit DEF Inv
  <1> QED BY <1>2, <1>3, <1>4, <1>5, <1>6, <1>7, <1>8, ComersKeep DEF Inv

LEMMA DialKeeps ==
    ASSUME Inv, NEW w \in Workers, Dial(w)
    PROVE  Inv'
  <1>1. proc[w].pc = "dial" /\ proc[w].pc \in Attending
    BY DEF Dial, At, Attending, Trials
  <1>2. PICK c \in All : c = proc[w].call /\ Attends(w, c)
    BY <1>1, CallLocals DEF Inv, Typed, Attends
  <1>3. UNCHANGED <<campaign, row, session, job>>
    BY DEF Dial
  <1>5. PICK to \in {"mark", "return-admission"} :
            /\ Comes(w, c, to)
            /\ \/ UNCHANGED <<leg, dials, faults>> /\ to = "return-admission"
               \/ /\ leg' = [leg EXCEPT ![c] = "live"]
                  /\ dials' = [dials EXCEPT ![c] = @ + 1]
                  /\ \/ to = "mark" /\ UNCHANGED faults
                     \/ to = "return-admission" /\ Fault
    BY <1>2 DEF Dial, Comes, Attending, Trials
  <1>6. /\ leg' \in [All -> {"none", "live", "over", "reported"}]
        /\ dials' \in [All -> Nat]
        /\ \A d \in All \ {c} : leg'[d] = leg[d] /\ dials'[d] = dials[d]
        /\ \/ /\ leg'[c] = leg[c] /\ dials'[c] = dials[c] /\ to = "return-admission"
              /\ faults' = faults
           \/ /\ leg'[c] = "live" /\ dials'[c] = dials[c] + 1 /\ to = "mark"
              /\ faults' = faults
           \/ dials'[c] = dials[c] + 1 /\ to = "return-admission" /\ Fault
    <2>1. leg \in [All -> {"none", "live", "over", "reported"}] /\ dials \in [All -> Nat]
      BY DEF Inv, Typed, TypeOK
    <2>2. CASE UNCHANGED <<leg, dials, faults>> /\ to = "return-admission"
      BY <2>1, <2>2, <1>2
    <2>3. CASE /\ leg' = [leg EXCEPT ![c] = "live"]
               /\ dials' = [dials EXCEPT ![c] = @ + 1]
               /\ \/ to = "mark" /\ UNCHANGED faults
                  \/ to = "return-admission" /\ Fault
      BY <2>1, <2>3, <1>2
    <2> QED BY <1>5, <2>2, <2>3
  <1>7. Typed'
    <2>1. faults' \in 0..MaxFaults
      BY <1>6, CallsAreFew DEF Fault, Inv, Typed, TypeOK
    <2> QED BY <1>2, <1>3, <1>5, <1>6, <2>1, Comers DEF Inv, Typed, TypeOK
  <1>8. Only(c)
    BY <1>3, <1>6 DEF Only
  <1>9. dials[c] \in Nat
    BY <1>2 DEF Inv, Typed, TypeOK
  <1>10. CASE /\ \/ leg'[c] = leg[c] /\ dials'[c] = dials[c] /\ to = "return-admission"
                 \/ leg'[c] = "live" /\ dials'[c] = dials[c] + 1 /\ to = "mark"
              /\ faults' = faults
    <2>1. Leads(c, proc[w].pc, to)
      <3>1. Tidy(c, "dial") => Tidy(c, to)'
        BY <1>3, <1>5, <1>10 DEF Tidy
      <3>2. Open(c)' => Open(c)
        BY <1>3 DEF Open
      <3> QED BY <1>1, <1>3, <1>9, <1>10, <3>1, <3>2 DEF Leads, Trials
    <2>2. Within'
      BY <1>3, <1>10, SameLimit DEF Inv
    <2> QED BY <1>2, <1>5, <1>7, <1>8, <1>10, <2>1, <2>2, ComersKeep DEF Inv
  <1>11. CASE /\ Fault /\ to = "return-admission" /\ dials'[c] = dials[c] + 1
    <2>1. Concerns(w, c) /\ (Tries(w, c)' <=> to \in Trials)
      BY <1>2, <1>5, <1>8, Comers DEF Inv
    <2>2. Started'
      BY <1>2, <1>3, <2>1, ConcernsStarted DEF Inv
    <2>3. Tries(w, c) /\ ~Tries(w, c)'
      BY <1>1, <1>2, <1>11, <2>1 DEF Tries, Trials
    <2>4. /\ \A d \in All \ {c} : Trying(d)' = Trying(d)
          /\ Cardinality(Trying(c)') + 1 = Cardinality(Trying(c))
      <3>1. /\ \A d \in All \ {c} : Trying(d)' = Trying(d)
            /\ Cardinality(Trying(c)') + 1 = Cardinality(Trying(c)) + 0
        BY <2>1, <2>3, ConcernsTrying
      <3> QED BY <3>1, TryingFinite
    <2>5. ASSUME NEW d \in All
          PROVE  dials'[d] + Cardinality(Trying(d)') <= dials[d] + Cardinality(Trying(d))
      <3>1. dials[d] \in Nat /\ Cardinality(Trying(d)) \in Nat
        BY TryingFinite DEF Inv, Typed, TypeOK
      <3>2. CASE d # c
        BY <1>6, <2>4, <3>1, <3>2
      <3>3. CASE d = c
        <4>1. Cardinality(Trying(c)') \in Nat
          <5>1. Trying(c)' \subseteq Workers
            BY DEF Trying
          <5> QED BY <5>1, CallsAreFew, FS_Subset, FS_CardinalityType
        <4> QED BY <1>11, <2>4, <3>1, <3>3, <4>1
      <3> QED BY <3>2, <3>3
    <2> QED BY <1>7, <1>11, <2>2, <2>5, FaultCounts
  <1> QED BY <1>6, <1>10, <1>11

LEMMA MarkInProgressKeeps ==
    ASSUME Inv, NEW w \in Workers, MarkInProgress(w)
    PROVE  Inv'
  <1>1. proc[w].pc = "mark" /\ proc[w].pc \in Attending
    BY DEF MarkInProgress, At, Attending, Trials
  <1>2. PICK c \in All : c = proc[w].call /\ Attends(w, c)
    BY <1>1, CallLocals DEF Inv, Typed, Attends
  <1>3. UNCHANGED <<campaign, session, dials>> /\ dials[c] \in Nat
    BY <1>2 DEF MarkInProgress, Inv, Typed, TypeOK
  <1>4. /\ row[c] \in Rows /\ row[c].status # "NONE"
        /\ c \in Calls => row[c].status # "SCHEDULED"
        /\ c \in Calls \/ c \in Quick
        /\ Undisturbed => Tidy(c, "mark")
    BY <1>1, <1>2, Attended
  <1>5. ASSUME row[c].status \in {"SCHEDULED", "PROCESSED"}, Put(c, "IN_PROGRESS"),
               Finish(w), UNCHANGED <<leg, faults>>
        PROVE  Inv'
    <2>1. /\ row' \in [All -> Rows]
          /\ row'[c].status = "IN_PROGRESS" /\ row'[c].cancelled = row[c].cancelled
          /\ \A d \in All \ {c} : row'[d] = row[d]
      BY <1>2, <1>5, Putting DEF Inv
    <2>2. /\ Comes(w, c, "nobody")
          /\ job' \in [Calls -> {"none", "waiting", "running"}]
          /\ \A d \in Calls \ {c} : job'[d] = job[d]
      BY <1>2, <1>5, Finishing DEF Inv
    <2>3. Typed'
      BY <1>2, <1>3, <1>5, <2>1, <2>2, Comers DEF Inv, Typed, TypeOK, Rows
    <2>4. Only(c)
      BY <1>3, <1>5, <2>1, <2>2 DEF Only
    <2>5. Leads(c, proc[w].pc, "nobody")
      <3>1. Tidy(c, "mark") => Tidy(c, "nobody")'
        BY <1>3, <1>5, <2>1 DEF Tidy
      <3>2. ~Open(c)'
        BY <2>1 DEF Open
      <3> QED BY <1>1, <1>3, <2>1, <3>1, <3>2 DEF Leads, Trials
    <2>6. Within'
      <3>1. Undisturbed' => Undisturbed
        BY <1>3, <1>5, <2>1 DEF Undisturbed
      <3>2. SUFFICES ASSUME Undisturbed
                     PROVE  ActiveCalls' \subseteq ActiveCalls
        BY <3>1, WithinShrinks DEF Inv, Within
      <3>3. row[c].status = "PROCESSED"
        BY <1>4, <1>5, <3>2 DEF Tidy, Undisturbed
      <3> QED BY <1>2, <1>3, <2>1, <3>3 DEF ActiveCalls, Reserved, With
    <2> QED BY <1>2, <1>5, <2>2, <2>3, <2>4, <2>5, <2>6, ComersKeep DEF Inv
  <1>6. ASSUME row[c].status \notin {"SCHEDULED", "PROCESSED"},
               leg' = [leg EXCEPT ![c] = IF @ = "live" THEN "over" ELSE @],
               Step(w, "return-admission"), UNCHANGED <<row, job, faults>>
        PROVE  Inv'
    <2>1. Comes(w, c, "return-admission")
      BY <1>6 DEF Comes, Attending, Trials
    <2>2. /\ leg' \in [All -> {"none", "live", "over", "reported"}]
          /\ leg'[c] = (IF leg[c] = "live" THEN "over" ELSE leg[c])
          /\ \A d \in All \ {c} : leg'[d] = leg[d]
      BY <1>2, <1>6 DEF Inv, Typed, TypeOK
    <2>3. Typed'
      BY <1>2, <1>3, <1>6, <2>1, <2>2, Comers DEF Inv, Typed, TypeOK
    <2>4. Only(c)
      BY <1>3, <1>6, <2>2 DEF Only
    <2>5. Leads(c, proc[w].pc, "return-admission")
      <3>1. Tidy(c, "mark") => Tidy(c, "return-admission")'
        BY <1>3, <1>6, <2>2 DEF Tidy
      <3>2. Open(c)' => Open(c)
        BY <1>3, <1>6 DEF Open
      <3> QED BY <1>1, <1>3, <1>6, <3>1, <3>2 DEF Leads, Trials
    <2>6. Within'
      BY <1>3, <1>6, SameLimit DEF Inv
    <2> QED BY <1>2, <1>6, <2>1, <2>3, <2>4, <2>5, <2>6, ComersKeep DEF Inv
  <1>7. ASSUME Fault, Step(w, "return-admission"), UNCHANGED <<row, leg, job>>
        PROVE  Inv'
    <2>1. Comes(w, c, "return-admission")
      BY <1>7 DEF Comes, Attending, Trials
    <2>2. faults' \in 0..MaxFaults
      BY <1>7, CallsAreFew DEF Fault, Inv, Typed, TypeOK
    <2>3. Typed'
      BY <1>2, <1>3, <1>7, <2>1, <2>2, Comers DEF Inv, Typed, TypeOK
    <2>4. Concerns(w, c) /\ (Tries(w, c)' <=> "return-admission" \in Trials)
      BY <1>2, <1>3, <1>7, <2>1, Comers DEF Only, Inv
    <2>5. Started'
      BY <1>2, <1>3, <1>7, <2>4, ConcernsStarted DEF Inv
    <2>6. ASSUME NEW d \in All
          PROVE  Trying(d)' \subseteq Trying(d)
      <3>1. \A v \in Workers \ {w} : Tries(v, d)' => Tries(v, d)
        BY <2>4 DEF Concerns, Tries, Attends
      <3>2. ~Tries(w, d)'
        BY <2>4 DEF Concerns, Tries, Trials
      <3> QED BY <3>1, <3>2 DEF Trying
    <2> QED BY <1>3, <1>7, <2>3, <2>5, <2>6, FaultKeeps
  <1> QED BY <1>2, <1>5, <1>6, <1>7 DEF MarkInProgress

LEMMA ReturnAdmissionKeeps ==
    ASSUME Inv, NEW w \in Workers, ReturnAdmission(w)
    PROVE  Inv'
  <1>1. proc[w].pc = "return-admission" /\ proc[w].pc \in Attending
    BY DEF ReturnAdmission, At, Attending, Trials
  <1>2. PICK c \in All : c = proc[w].call /\ Attends(w, c)
    BY <1>1, CallLocals DEF Inv, Typed, Attends
  <1>3. UNCHANGED <<campaign, row, leg, dials, job, faults>> /\ dials[c] \in Nat
    BY <1>2 DEF ReturnAdmission, Inv, Typed, TypeOK
  <1>4. /\ session' \in [All -> {"NONE", "ACTIVE", "ENDED", "SETTLED"}]
        /\ session'[c] # "ACTIVE" /\ \A d \in All \ {c} : session'[d] = session[d]
    BY <1>2 DEF ReturnAdmission, Inv, Typed, TypeOK
  <1>5. PICK to \in {"check", "fail"} : Comes(w, c, to)
    BY <1>2 DEF ReturnAdmission, Comes, Attending, Trials
  <1>6. Typed'
    BY <1>2, <1>3, <1>4, <1>5, Comers DEF Inv, Typed, TypeOK
  <1>7. Only(c)
    BY <1>3, <1>4 DEF Only
  <1>8. Leads(c, proc[w].pc, to)
    <2>1. Tidy(c, "return-admission") => Tidy(c, to)'
      BY <1>3, <1>4, <1>5 DEF Tidy
    <2>2. Open(c)' => Open(c)
      BY <1>3 DEF Open
    <2> QED BY <1>1, <1>3, <1>5, <2>1, <2>2 DEF Leads, Trials
  <1>9. Within'
    <2>1. Undisturbed' => Undisturbed
      BY <1>3 DEF Undisturbed
    <2>2. ActiveCalls' \subseteq ActiveCalls
      BY <1>3, <1>4 DEF ActiveCalls, Reserved, With
    <2> QED BY <2>1, <2>2, WithinShrinks DEF Inv
  <1> QED BY <1>2, <1>3, <1>5, <1>6, <1>7, <1>8, <1>9, ComersKeep DEF Inv

LEMMA CheckCancelledKeeps ==
    ASSUME Inv, NEW w \in Workers, CheckCancelled(w)
    PROVE  Inv'
  <1>1. proc[w].pc = "check" /\ proc[w].pc \in Attending
    BY DEF CheckCancelled, At, Attending, Trials
  <1>2. PICK c \in All : c = proc[w].call /\ Attends(w, c)
    BY <1>1, CallLocals DEF Inv, Typed, Attends
  <1>3. UNCHANGED <<campaign, row, session, leg, dials, faults>> /\ dials[c] \in Nat
    BY <1>2 DEF CheckCancelled, Inv, Typed, TypeOK
  <1>4. /\ row[c] \in Rows /\ c \in Calls /\ c \notin Quick
        /\ row[c].status # "SCHEDULED" /\ campaign # "SCHEDULED"
    BY <1>1, <1>2, Attended, CallLocals DEF Inv, Typed
  <1>5. PICK to \in {"fail", "nobody"} :
            /\ Comes(w, c, to)
            /\ job' \in [Calls -> {"none", "waiting", "running"}]
            /\ \A d \in Calls \ {c} : job'[d] = job[d]
            /\ to = "fail" => job' = job
            /\ to = "nobody" => ~Dispatchable(c)
    <2>1. CASE Dispatchable(c)
      BY <1>2, <2>1 DEF CheckCancelled, Comes, Attending, Trials, Inv, Typed, TypeOK
    <2>2. CASE ~Dispatchable(c)
      BY <1>2, <2>2, Finishing DEF CheckCancelled, Inv
    <2> QED BY <2>1, <2>2
  <1>6. Typed'
    BY <1>2, <1>3, <1>5, Comers DEF Inv, Typed, TypeOK
  <1>7. Only(c)
    BY <1>3, <1>5 DEF Only
  <1>8. Leads(c, proc[w].pc, to)
    <2>1. Tidy(c, "check") => Tidy(c, to)'
      BY <1>3, <1>5 DEF Tidy
    <2>2. Open(c)' => Open(c)
      BY <1>3, <1>4, <1>5 DEF Open, Dispatchable
    <2> QED BY <1>1, <1>3, <1>5, <2>1, <2>2 DEF Leads, Trials
  <1>9. Within'
    BY <1>3, SameLimit DEF Inv
  <1> QED BY <1>2, <1>3, <1>5, <1>6, <1>7, <1>8, <1>9, ComersKeep DEF Inv

LEMMA MarkFailedKeeps ==
    ASSUME Inv, NEW w \in Workers, MarkFailed(w)
    PROVE  Inv'
  <1>1. proc[w].pc = "fail" /\ proc[w].pc \in Attending
    BY DEF MarkFailed, At, Attending, Trials
  <1>2. PICK c \in All : c = proc[w].call /\ Attends(w, c)
    BY <1>1, CallLocals DEF Inv, Typed, Attends
  <1>3. UNCHANGED <<campaign, session, leg, dials, faults>> /\ dials[c] \in Nat
    BY <1>2 DEF MarkFailed, Inv, Typed, TypeOK
  <1>4. /\ row' \in [All -> Rows]
        /\ row'[c].status = "FAILED" /\ row'[c].cancelled = row[c].cancelled
        /\ \A d \in All \ {c} : row'[d] = row[d]
    <2>1. Put(c, "FAILED")
      BY <1>2 DEF MarkFailed
    <2> QED BY <1>2, <2>1, Putting DEF Inv
  <1>5. /\ Comes(w, c, "nobody")
        /\ job' \in [Calls -> {"none", "waiting", "running"}]
        /\ \A d \in Calls \ {c} : job'[d] = job[d]
    BY <1>2, Finishing DEF MarkFailed, Inv
  <1>6. Typed'
    BY <1>2, <1>3, <1>4, <1>5, Comers DEF Inv, Typed, TypeOK, Rows
  <1>7. Only(c)
    BY <1>3, <1>4, <1>5 DEF Only
  <1>8. Leads(c, proc[w].pc, "nobody")
    <2>1. Tidy(c, "fail") => Tidy(c, "nobody")'
      BY <1>3, <1>4 DEF Tidy
    <2>2. ~Open(c)'
      BY <1>4 DEF Open
    <2> QED BY <1>1, <1>3, <1>4, <2>1, <2>2 DEF Leads, Trials
  <1>9. Within'
    <2>1. Undisturbed' => Undisturbed
      BY <1>3, <1>4 DEF Undisturbed
    <2>2. ActiveCalls' \subseteq ActiveCalls
      BY <1>3, <1>4 DEF ActiveCalls, Reserved, With
    <2> QED BY <2>1, <2>2, WithinShrinks DEF Inv
  <1> QED BY <1>2, <1>3, <1>5, <1>6, <1>7, <1>8, <1>9, ComersKeep DEF Inv

LEMMA ClaimQuickCallKeeps ==
    ASSUME Inv, NEW w \in Workers, ClaimQuickCall(w)
    PROVE  Inv'
  <1>1. proc[w].pc = "claim-quick" /\ proc[w].pc \in Attending
    BY DEF ClaimQuickCall, At, Attending, Trials
  <1>2. PICK c \in All : c = proc[w].call /\ Attends(w, c)
    BY <1>1, CallLocals DEF Inv, Typed, Attends
  <1>3. UNCHANGED <<campaign, session, leg, dials, job, faults>> /\ dials[c] \in Nat
    BY <1>2 DEF ClaimQuickCall, Inv, Typed, TypeOK
  <1>4. /\ row[c] \in Rows /\ row[c].status # "NONE"
        /\ c \in Quick /\ c \notin Calls
    BY <1>1, <1>2, Attended, CallLocals DEF Inv, Typed
  <1>5. PICK to \in {"authorize", "return-admission"} :
            /\ Comes(w, c, to)
            /\ to = "authorize" =>
                   row[c].status = "SCHEDULED" /\ Free > 0 /\ Put(c, "PROCESSED")
            /\ to = "return-admission" => row' = row
    BY <1>2 DEF ClaimQuickCall, Comes, Attending, Trials
  <1>6. /\ row' \in [All -> Rows]
        /\ row'[c].cancelled = row[c].cancelled
        /\ row'[c].status = IF to = "authorize" THEN "PROCESSED" ELSE row[c].status
        /\ \A d \in All \ {c} : row'[d] = row[d]
    <2>1. row \in [All -> Rows]
      BY DEF Inv, Typed, TypeOK, Rows
    <2>2. CASE to = "authorize"
      BY <2>2, <1>5, Putting DEF Inv
    <2>3. CASE to = "return-admission"
      BY <2>1, <2>3, <1>5
    <2> QED BY <2>2, <2>3
  <1>7. Typed'
    BY <1>2, <1>3, <1>5, <1>6, Comers DEF Inv, Typed, TypeOK, Rows
  <1>8. Only(c)
    BY <1>3, <1>6 DEF Only
  <1>9. Leads(c, proc[w].pc, to)
    <2>1. Tidy(c, "claim-quick") => Tidy(c, to)'
      BY <1>3, <1>5, <1>6 DEF Tidy
    <2>2. ~Open(c)'
      BY <1>4, <1>6 DEF Open
    <2> QED BY <1>1, <1>3, <1>4, <1>5, <1>6, <2>1, <2>2 DEF Leads, Trials
  <1>10. Within'
    <2>1. Undisturbed' => Undisturbed
      BY <1>3, <1>6 DEF Undisturbed
    <2>2. CASE to = "authorize"
      <3>1. ActiveCalls' = ActiveCalls \cup {c}
        BY <1>2, <1>3, <1>6, <2>2 DEF ActiveCalls, Reserved, With
      <3>2. Cardinality({c}) = 1
        BY FS_Singleton
      <3>3. ActiveCalls \in SUBSET All
        BY DEF ActiveCalls, Reserved, With
      <3>4. Free \in Nat
        BY <3>3, CallsFinite, CallsAreFew DEF Free
      <3>5. Cardinality({c}) <= Free
        BY <1>5, <2>2, <3>2, <3>4
      <3> QED BY <2>1, <3>1, <3>5, WithinGrows DEF Inv
    <2>3. CASE to = "return-admission"
      BY <2>3, <1>3, <1>5, SameLimit DEF Inv
    <2> QED BY <2>2, <2>3
  <1> QED BY <1>2, <1>3, <1>5, <1>7, <1>8, <1>9, <1>10, ComersKeep DEF Inv

-----------------------------------------------------------------------------
(* A worker comes to a call.                                               *)

LEMMA CreateQuickCallKeeps ==
    ASSUME Inv, NEW w \in Workers, NEW q \in Quick, CreateQuickCall(w, q)
    PROVE  Inv'
  <1> DEFINE l == [pc |-> "claim-quick", call |-> q]
  <1>1. l \in Locals /\ l.pc = "claim-quick" /\ l.call = q /\ q \in All /\ q \notin Calls
    BY CallsAreFew DEF Locals, All
  <1>2. /\ proc[w].pc = "idle" /\ row[q].status = "NONE" /\ Put(q, "SCHEDULED") /\ Goto(w, l)
        /\ UNCHANGED <<campaign, session, leg, dials, job, faults>>
    BY DEF CreateQuickCall, At
  <1> HIDE DEF l
  <1>3. /\ row' \in [All -> Rows]
        /\ row'[q].status = "SCHEDULED" /\ row'[q].cancelled = row[q].cancelled
        /\ \A d \in All \ {q} : row'[d] = row[d]
    BY <1>1, <1>2, Putting DEF Inv
  <1>4. /\ proc' \in [Workers -> Locals] /\ proc'[w] = l
        /\ \A v \in Workers \ {w} : proc'[v] = proc[v]
    BY <1>1, <1>2, Gone DEF Inv
  <1>5. Typed'
    BY <1>2, <1>3, <1>4 DEF Inv, Typed, TypeOK, Rows
  <1>6. /\ \A d \in All : ~Attends(w, d)
        /\ \A d \in All \ {q} : ~Attends(w, d)'
        /\ Attends(w, q)' /\ Tries(w, q)'
    BY <1>1, <1>2, <1>4 DEF Attends, Tries, Attending, Trials
  <1>7. Concerns(w, q)
    BY <1>2, <1>3, <1>4, <1>6 DEF Concerns
  <1>8. Started'
    BY <1>1, <1>2, <1>3, <1>7, ConcernsStarted DEF Inv
  <1>9. Scarce'
    <2>1. Chances(q) = 1 /\ Chances(q)' = 0
      BY <1>1, <1>2, <1>3 DEF Chances, Open
    <2>2. dials' = dials /\ dials[q] \in Nat /\ faults' = faults /\ faults \in Nat
      BY <1>1, <1>2, CallsAreFew DEF Inv, Typed, TypeOK
    <2>3. ~Tries(w, q)
      BY <1>1, <1>6 DEF Tries
    <2>4. /\ faults' >= faults
          /\ dials'[q] + (IF Tries(w, q)' THEN 1 ELSE 0) + Chances(q)'
                 <= dials[q] + (IF Tries(w, q) THEN 1 ELSE 0) + Chances(q) + faults' - faults
      BY <2>1, <2>2, <2>3, <1>6
    <2> QED BY <1>1, <1>5, <1>7, <2>4, ConcernsScarce DEF Inv
  <1>10. Calm'
    <2> SUFFICES ASSUME faults = 0
                 PROVE  Calm'
      BY <1>2 DEF Calm
    <2>1. \A v \in Workers : ~Attends(v, q)
      BY <1>1, <1>2 DEF Inv, Started
    <2>2. Tidy(q, "nobody") => Tidy(q, "claim-quick")'
      BY <1>2, <1>3 DEF Tidy
    <2>3. /\ "nobody" = IF Attends(w, q) THEN proc[w].pc ELSE "nobody"
          /\ "claim-quick" = IF Attends(w, q)' THEN proc'[w].pc ELSE "nobody"
      BY <1>1, <1>4, <1>6
    <2> QED BY <1>1, <1>3, <1>7, <2>1, <2>2, <2>3, ConcernsCalm DEF Inv
  <1>11. Within'
    <2>1. Undisturbed' => Undisturbed
      BY <1>1, <1>2, <1>3 DEF Undisturbed
    <2>2. ActiveCalls' \subseteq ActiveCalls
      BY <1>2, <1>3 DEF ActiveCalls, Reserved, With
    <2> QED BY <2>1, <2>2, WithinShrinks DEF Inv
  <1> QED BY <1>5, <1>8, <1>9, <1>10, <1>11 DEF Inv

LEMMA TakeJobKeeps ==
    ASSUME Inv, NEW w \in Workers, NEW c \in Calls, TakeJob(w, c)
    PROVE  Inv'
  <1>1. /\ proc[w].pc = "idle" /\ job[c] = "waiting"
        /\ UNCHANGED <<campaign, row, session, leg, dials, faults>>
        /\ c \in All /\ c \notin Quick
    BY CallsAreFew DEF TakeJob, At, All
  <1>2. Within'
    BY <1>1, SameLimit DEF Inv
  <1>3. ASSUME Dispatchable(c), job' = [job EXCEPT ![c] = "running"],
               Goto(w, [pc |-> "authorize", call |-> c])
        PROVE  Inv'
    <2> DEFINE l == [pc |-> "authorize", call |-> c]
    <2>1. l \in Locals /\ l.pc = "authorize" /\ l.call = c
      BY <1>1 DEF Locals
    <2>2. Goto(w, l)
      BY <1>3
    <2> HIDE DEF l
    <2>3. /\ proc' \in [Workers -> Locals] /\ proc'[w] = l
          /\ \A v \in Workers \ {w} : proc'[v] = proc[v]
      BY <2>1, <2>2, Gone DEF Inv
    <2>4. /\ job' \in [Calls -> {"none", "waiting", "running"}] /\ job'[c] = "running"
          /\ \A d \in Calls \ {c} : job'[d] = job[d]
      BY <1>3 DEF Inv, Typed, TypeOK
    <2>5. Typed'
      BY <1>1, <2>3, <2>4 DEF Inv, Typed, TypeOK
    <2>6. /\ \A d \in All : ~Attends(w, d)
          /\ \A d \in All \ {c} : ~Attends(w, d)'
          /\ Attends(w, c)' /\ Tries(w, c)'
      BY <1>1, <2>1, <2>3 DEF Attends, Tries, Attending, Trials
    <2>7. Concerns(w, c)
      BY <1>1, <2>3, <2>4, <2>6 DEF Concerns
    <2>8. Started'
      BY <1>1, <1>3, <2>7, ConcernsStarted DEF Inv, Dispatchable
    <2>9. Scarce'
      <3>1. Chances(c) = 1 /\ Chances(c)' = 0
        BY <1>1, <1>3, <2>4 DEF Chances, Open, Dispatchable
      <3>2. dials' = dials /\ dials[c] \in Nat /\ faults' = faults /\ faults \in Nat
        BY <1>1, CallsAreFew DEF Inv, Typed, TypeOK
      <3>3. ~Tries(w, c)
        BY <1>1, <2>6 DEF Tries
      <3>4. /\ faults' >= faults
            /\ dials'[c] + (IF Tries(w, c)' THEN 1 ELSE 0) + Chances(c)'
                   <= dials[c] + (IF Tries(w, c) THEN 1 ELSE 0) + Chances(c) + faults' - faults
        BY <3>1, <3>2, <3>3, <2>6
      <3> QED BY <1>1, <2>5, <2>7, <3>4, ConcernsScarce DEF Inv
    <2>10. Calm'
      <3> SUFFICES ASSUME faults = 0
                   PROVE  Calm'
        BY <1>1 DEF Calm
      <3>1. \A v \in Workers : ~Attends(v, c)
        BY <1>1 DEF Inv, Calm, Jobs
      <3>2. Tidy(c, "nobody") => Tidy(c, "authorize")'
        BY <1>1, <1>3 DEF Tidy, Dispatchable
      <3>3. /\ "nobody" = IF Attends(w, c) THEN proc[w].pc ELSE "nobody"
            /\ "authorize" = IF Attends(w, c)' THEN proc'[w].pc ELSE "nobody"
        BY <1>1, <2>1, <2>3, <2>6
      <3> QED BY <1>1, <2>4, <2>7, <3>1, <3>2, <3>3, ConcernsCalm DEF Inv
    <2> QED BY <1>2, <2>5, <2>8, <2>9, <2>10 DEF Inv
  <1>4. ASSUME job' = [job EXCEPT ![c] = "none"], UNCHANGED proc
        PROVE  Inv'
    <2>1. /\ job' \in [Calls -> {"none", "waiting", "running"}]
          /\ \A d \in Calls : job'[d] = "running" <=> job[d] = "running"
      BY <1>1, <1>4 DEF Inv, Typed, TypeOK
    <2>2. Typed'
      BY <1>1, <1>4, <2>1 DEF Inv, Typed, TypeOK
    <2>3. Aside
      BY <1>1, <1>4, <2>1 DEF Aside, Attends
    <2>4. \A d \in All : Fares(d)
      BY <1>1, Unharmed DEF Inv
    <2> QED BY <1>2, <2>2, <2>3, <2>4, AsideKeeps DEF Inv
  <1> QED BY <1>3, <1>4 DEF TakeJob
-----------------------------------------------------------------------------
(* Every behaviour.                                                        *)

\* The invariant holds whatever calls of the campaign were made before.
LEMMA Starts ==
    ASSUME NEW over \in SUBSET All, InitAfter(over), faults = 0
    PROVE  Inv
  <1>1. \A w \in Workers : proc[w] = Idle
    BY DEF InitAfter
  <1>2. \A w \in Workers, c \in All : ~Attends(w, c)
    BY <1>1, IdleLocals DEF Attends
  <1>3. ASSUME NEW c \in All
        PROVE  /\ row[c] \in Rows /\ ~row[c].cancelled
               /\ row[c].status = IF c \in over THEN "COMPLETED"
                                  ELSE IF c \in Calls THEN "SCHEDULED" ELSE "NONE"
               /\ session[c] = IF c \in over THEN "SETTLED" ELSE "NONE"
               /\ leg[c] = IF c \in over THEN "reported" ELSE "none"
               /\ dials[c] = IF c \in over THEN 1 ELSE 0
    BY DEF InitAfter, Rows
  <1>4. Typed
    <2>1. /\ row \in [All -> Rows]
          /\ session \in [All -> {"NONE", "ACTIVE", "ENDED", "SETTLED"}]
          /\ leg \in [All -> {"none", "live", "over", "reported"}]
          /\ dials \in [All -> Nat]
      BY <1>3 DEF InitAfter
    <2>2. /\ campaign \in {"SCHEDULED", "ACTIVE", "COMPLETED", "CANCELLED"}
          /\ job \in [Calls -> {"none", "waiting", "running"}]
          /\ faults \in 0..MaxFaults
      BY CallsAreFew DEF InitAfter
    <2>3. proc \in [Workers -> Locals]
      BY IdleLocals DEF InitAfter
    <2> QED BY <2>1, <2>2, <2>3 DEF Typed, TypeOK, Rows
  <1>5. Started
    <2>1. Calls \subseteq All
      BY DEF All
    <2> QED BY <2>1, <1>2, <1>3 DEF Started
  <1>6. Scarce
    <2> SUFFICES ASSUME NEW c \in All
                 PROVE  dials[c] + Cardinality(Trying(c)) + Chances(c) <= 1 + faults
      BY DEF Scarce
    <2>1. Trying(c) = {}
      BY <1>2 DEF Trying, Tries
    <2>2. Cardinality(Trying(c)) = 0
      BY <2>1, FS_EmptySet
    <2>3. dials[c] = 1 => Chances(c) = 0
      BY <1>3 DEF Chances, Open
    <2>4. dials[c] \in {0, 1} /\ Chances(c) \in {0, 1}
      BY <1>3 DEF Chances
    <2> HIDE DEF Chances
    <2> QED BY <2>2, <2>3, <2>4
  <1>7. Calm
    <2>1. \A c \in All : Tidy(c, "nobody")
      BY <1>3 DEF Tidy
    <2>2. Calls \subseteq All
      BY DEF All
    <2> QED BY <2>1, <2>2, <1>2 DEF Calm, Alone, Jobs, TidyCall
  <1>8. Within
    <2>1. ActiveCalls = {}
      BY <1>3 DEF ActiveCalls, Reserved, With
    <2>2. Cardinality(ActiveCalls) = 0
      BY <2>1, FS_EmptySet
    <2> QED BY <2>2, CallsAreFew DEF Within
  <1> QED BY <1>4, <1>5, <1>6, <1>7, <1>8 DEF Inv

LEMMA StutterKeeps ==
    ASSUME Inv, UNCHANGED vars
    PROVE  Inv'
  <1>1. UNCHANGED <<campaign, row, session, leg, dials, job, proc, faults>>
    BY DEF vars
  <1>2. Typed'
    BY <1>1 DEF Inv, Typed, TypeOK
  <1>3. Aside
    BY <1>1 DEF Aside, Attends
  <1>4. \A c \in All : Fares(c)
    BY <1>1, Unharmed DEF Inv
  <1>5. Within'
    BY <1>1, SameLimit DEF Inv
  <1> QED BY <1>2, <1>3, <1>4, <1>5, AsideKeeps DEF Inv

LEMMA StepsKeep ==
    ASSUME Inv, [Next]_vars
    PROVE  Inv'
  <1>1. ASSUME NEW w \in Workers, Work(w)
        PROVE  Inv'
    BY <1>1, ClaimSlotsKeeps, EnqueueKeeps, MarkCampaignCompletedKeeps, ClaimQuickCallKeeps,
       AuthorizeKeeps, LookForCalleeKeeps, DialKeeps, MarkInProgressKeeps,
       ReturnAdmissionKeeps, CheckCancelledKeeps, MarkFailedKeeps, CancelRowsKeeps,
       StopCallsKeeps, MarkCancelledKeeps DEF Work
  <1>2. ASSUME NEW w \in Workers, Pump(w) \/ CancelCampaign(w) \/ Crash(w)
        PROVE  Inv'
    BY <1>2, PumpKeeps, CancelCampaignKeeps, CrashKeeps
  <1>3. ASSUME NEW c \in All, HangUp(c) \/ ReportCall(c) \/ EndSilentSession(c)
        PROVE  Inv'
    BY <1>3, HangUpKeeps, ReportCallKeeps, EndSilentSessionKeeps
  <1> QED BY <1>1, <1>2, <1>3, CreateQuickCallKeeps, TakeJobKeeps, CancelCallKeeps,
             LoseJobLockKeeps, StutterKeeps DEF Next

\* The invariant of outbound dispatch, for any number of calls and workers.
THEOREM OutboundInvariance == Spec => []Inv
  <1>1. Init => Inv
    BY Starts DEF Init
  <1>2. Inv /\ [Next]_vars => Inv'
    BY StepsKeep
  <1> QED BY <1>1, <1>2, PTL DEF Spec

\* Rows, sessions, legs and jobs keep their types.
THEOREM OutboundTypes == Spec => []TypeOK
  <1>1. Inv => TypeOK
    BY DEF Inv, Typed
  <1> QED BY <1>1, OutboundInvariance, PTL

\* A call is never dialled more than once, and once more per fault.
THEOREM DialsOnce == Spec => []DialledOnce
  <1>1. Inv => DialledOnce
    <2> SUFFICES ASSUME Inv, NEW c \in All
                 PROVE  dials[c] <= 1 + faults
      BY DEF DialledOnce
    <2>1. dials[c] + Cardinality(Trying(c)) + Chances(c) <= 1 + faults
      BY DEF Inv, Scarce
    <2>2. Cardinality(Trying(c)) \in Nat /\ Chances(c) \in {0, 1}
      BY TryingFinite DEF Chances
    <2>3. dials[c] \in Nat /\ faults \in Nat
      BY CallsAreFew DEF Inv, Typed, TypeOK
    <2> HIDE DEF Chances
    <2> QED BY <2>1, <2>2, <2>3
  <1> QED BY <1>1, OutboundInvariance, PTL

\* Undisturbed, campaign and quick calls together stay within the agent's limit.
THEOREM WithinLimit == Spec => []LegsWithinLimit
  <1>1. Inv => LegsWithinLimit
    <2> SUFFICES ASSUME Inv, Undisturbed
                 PROVE  Cardinality(Live) <= Limit
      BY DEF LegsWithinLimit
    <2>1. ASSUME NEW c \in Live
          PROVE  c \in ActiveCalls
      <3>1. c \in All /\ leg[c] = "live" /\ TidyCall(c) /\ campaign # "CANCELLED"
        BY DEF Live, Undisturbed, Inv, Calm
      <3>2. CASE \E w \in Workers : Attends(w, c)
        BY <3>1, <3>2 DEF TidyCall, Tidy, ActiveCalls, Reserved, With
      <3>3. CASE \A w \in Workers : ~Attends(w, c)
        BY <3>1, <3>3 DEF TidyCall, Tidy, ActiveCalls, Reserved, With
      <3> QED BY <3>2, <3>3
    <2>2. ActiveCalls \in SUBSET All
      BY DEF ActiveCalls, Reserved, With
    <2>3. IsFiniteSet(ActiveCalls) /\ Cardinality(ActiveCalls) \in Nat
      BY <2>2, CallsFinite
    <2>4. Cardinality(Live) <= Cardinality(ActiveCalls) /\ Cardinality(Live) \in Nat
      BY <2>1, <2>3, FS_Subset, FS_CardinalityType
    <2>5. Cardinality(ActiveCalls) <= Limit
      BY DEF Inv, Within
    <2> QED BY <2>3, <2>4, <2>5, CallsAreFew
  <1> QED BY <1>1, OutboundInvariance, PTL

\* Before any fault, a call nobody works on any more is recorded for what it is.
THEOREM OutcomesRecorded == Spec => []OutcomesAreRecorded
  <1>1. Inv => OutcomesAreRecorded
    <2> SUFFICES ASSUME Inv, Quiet, faults = 0, NEW c \in All, ~row[c].cancelled
                 PROVE  /\ leg[c] = "live" => row[c].status = "IN_PROGRESS"
                        /\ row[c].status = "FAILED" => session[c] # "ACTIVE"
      BY DEF OutcomesAreRecorded
    <2>1. \A w \in Workers : ~Attends(w, c)
      BY DEF Quiet, At, Attends, Attending, Trials
    <2>2. Tidy(c, "nobody")
      BY <2>1 DEF Inv, Calm, TidyCall
    <2> QED BY <2>2 DEF Tidy
  <1> QED BY <1>1, OutboundInvariance, PTL
=============================================================================
