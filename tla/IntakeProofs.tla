---------------------------- MODULE IntakeProofs ----------------------------
(***************************************************************************)
(* What WorkerIntake promises, proved for any number of rows, processors   *)
(* and changes of the surroundings.  One invariant carries all three       *)
(* theorems; it says what the counters of WorkerIntake count, and what a   *)
(* fetch knows of the demand it was begun for.                             *)
(***************************************************************************)
EXTENDS WorkerIntake, FiniteSetTheorems, TLAPS

-----------------------------------------------------------------------------
(***************************************************************************)
(* The invariant, in parts.  Counts: what idle, the budget and the         *)
(* generations count.  Hands: whose row is whose.  Fetch: a fetch never    *)
(* asks for more than the demand that waits for it.  Wakeups, and Proofs:  *)
(* once a fetch has come back short, nothing of what a processor saw when  *)
(* it asked can still be ready, if the fetch was begun after that.         *)
(***************************************************************************)
AtIn(A) == {p \in Processor : at[p] \in A}

Asks == {"enabled", "looked", "waiting"}
Asked == Asks \cup {"drained", "exited"}
Reserved == Asks \cup {"asking"}
Taken == In("working") \cup In("done")

IntakeTypes ==
    /\ burst \in BOOLEAN
    /\ place \in [Row -> Place]
    /\ db \in BOOLEAN /\ leased \in BOOLEAN /\ beating \in BOOLEAN
    /\ stopping \in BOOLEAN /\ permit \in BOOLEAN /\ stop \in BOOLEAN
    /\ changes \in 0..MaxChanges
    /\ idle \in Nat /\ demandGeneration \in Nat
    /\ drainedGeneration \in 0..demandGeneration
    /\ at \in [Processor -> {"top", "asking", "enabled", "looked", "waiting",
                             "working", "drained", "exited"}]
    /\ generation \in [Processor -> 0..demandGeneration]
    /\ notified \in [Processor -> BOOLEAN]
    /\ late \in [Processor -> BOOLEAN]
    /\ job \in [Processor -> Row \cup {NoJob}]
    /\ budget \in Nat
    /\ seen \in [Processor -> SUBSET Row]
    /\ fetcher \in {"top", "asked", "claimed", "answered", "extended",
                    "select", "draining", "exited"}
    /\ want \in 0..Cardinality(Processor)
    /\ fetchGeneration \in 0..demandGeneration
    /\ answer \in [open : BOOLEAN, work : BOOLEAN]
    /\ unclaimable \in Budget /\ failing \in Budget /\ shutout \in Budget

Counts ==
    /\ idle = Cardinality(AtIn(Asks))
    /\ demandGeneration <= Cardinality(Taken) + Cardinality(AtIn(Asked))
    /\ burst => budget + Cardinality(AtIn(Reserved)) + Cardinality(Taken)
                  = MaxBurstJobs
    /\ ~burst => budget = MaxBurstJobs

Hands ==
    /\ \A p \in Processor : at[p] = "working" => job[p] \in In("working")
    /\ \A p, q \in Processor :
         at[p] = "working" /\ at[q] = "working" /\ job[p] = job[q] => p = q
    /\ \A r \in In("working") : \E p \in Processor :
         at[p] = "working" /\ job[p] = r

Fetch ==
    /\ stopping = stop
    /\ \A p \in Processor : late[p] => burst
    /\ In("answer") # {} => fetcher \in {"claimed", "answered"}
    /\ fetcher \in {"asked", "claimed", "answered"} => want > 0
    /\ Cardinality(In("answer")) <= want
    /\ fetcher = "exited" => In("buffer") = {}
    /\ ~burst /\ ~stop =>
         /\ Cardinality(In("answer")) + Cardinality(In("buffer")) <= idle
         /\ fetcher = "asked" => want + Cardinality(In("buffer")) <= idle

Wakeups ==
    /\ \A p \in Processor :
         at[p] \in {"looked", "waiting"} /\ In("buffer") # {} /\ ~stopping
             => notified[p] \/ fetcher = "extended"
    /\ fetcher \in {"asked", "claimed", "answered", "extended", "select"}
         /\ demandGeneration > fetchGeneration => permit

\* Of one processor.
ProofFor(p) ==
    /\ seen[p] \subseteq In("ready")
    /\ at[p] \in Asks =>
         /\ generation[p] <= drainedGeneration => seen[p] = {}
         /\ generation[p] <= fetchGeneration =>
              /\ fetcher = "claimed" /\ Cardinality(In("answer")) < want =>
                   seen[p] = {} \/ (~leased /\ In("answer") = {})
              /\ fetcher = "answered" /\ Cardinality(In("answer")) < want =>
                   seen[p] = {} \/ (~answer.open /\ In("answer") = {})
              /\ fetcher = "extended" /\ want > 0 => seen[p] = {}

Proofs == \A p \in Processor : ProofFor(p)

IntakeInv ==
    IntakeTypes /\ Counts /\ Hands /\ Fetch /\ Wakeups /\ Proofs

-----------------------------------------------------------------------------
(***************************************************************************)
(* Counting                                                                *)
(***************************************************************************)

\* The rows of a place are finitely many.
LEMMA RowsFinite ==
    ASSUME NEW x
    PROVE  IsFiniteSet(In(x)) /\ Cardinality(In(x)) \in Nat
<1>1. IsFiniteSet(Row) BY IntakeAssumption
<1>2. In(x) \subseteq Row BY DEF In
<1>. QED BY <1>1, <1>2, FS_Subset, FS_CardinalityType

\* So are the rows that were taken.
LEMMA TakenFinite ==
    /\ IsFiniteSet(Taken) /\ Cardinality(Taken) \in Nat
    /\ Cardinality(Taken) <= Cardinality(Row)
<1>1. IsFiniteSet(Row) BY IntakeAssumption
<1>2. Taken \subseteq Row BY DEF Taken, In
<1>. QED BY <1>1, <1>2, FS_Subset, FS_CardinalityType

\* And the processors at a place.
LEMMA ProcessorsFinite ==
    ASSUME NEW A
    PROVE  /\ IsFiniteSet(AtIn(A)) /\ Cardinality(AtIn(A)) \in Nat
           /\ Cardinality(AtIn(A)) <= Cardinality(Processor)
           /\ Cardinality(Processor) \in Nat
<1>1. IsFiniteSet(Processor) BY IntakeAssumption
<1>2. AtIn(A) \subseteq Processor BY DEF AtIn
<1>. QED BY <1>1, <1>2, FS_Subset, FS_CardinalityType

\* A processor that stays within a group does not change its number; one that
\* leaves or enters changes it by one.
LEMMA ProcessorMoves ==
    ASSUME IntakeTypes, NEW p \in Processor, NEW to, Goto(p, to), NEW A
    PROVE  /\ (at[p] \in A <=> to \in A) =>
                  Cardinality(AtIn(A)') = Cardinality(AtIn(A))
           /\ at[p] \in A /\ to \notin A =>
                  Cardinality(AtIn(A)') = Cardinality(AtIn(A)) - 1
           /\ at[p] \notin A /\ to \in A =>
                  Cardinality(AtIn(A)') = Cardinality(AtIn(A)) + 1
<1>0. IsFiniteSet(AtIn(A)) BY ProcessorsFinite
<1>1. /\ at'[p] = to
      /\ \A q \in Processor : q # p => at'[q] = at[q]
      BY DEF Goto, IntakeTypes
<1>2. ASSUME at[p] \in A <=> to \in A
      PROVE  Cardinality(AtIn(A)') = Cardinality(AtIn(A))
  <2>1. AtIn(A)' = AtIn(A) BY <1>1, <1>2 DEF AtIn
  <2>. QED BY <2>1
<1>3. ASSUME at[p] \in A, to \notin A
      PROVE  Cardinality(AtIn(A)') = Cardinality(AtIn(A)) - 1
  <2>1. AtIn(A)' = AtIn(A) \ {p} BY <1>1, <1>3 DEF AtIn
  <2>2. p \in AtIn(A) BY <1>3 DEF AtIn
  <2>. QED BY <2>1, <2>2, <1>0, FS_RemoveElement
<1>4. ASSUME at[p] \notin A, to \in A
      PROVE  Cardinality(AtIn(A)') = Cardinality(AtIn(A)) + 1
  <2>1. AtIn(A)' = AtIn(A) \cup {p} BY <1>1, <1>4 DEF AtIn
  <2>2. p \notin AtIn(A) BY <1>4 DEF AtIn
  <2>. QED BY <2>1, <2>2, <1>0, FS_AddElement
<1>. QED BY <1>2, <1>3, <1>4

\* The rows that move leave their place and enter the other one.
LEMMA RowsMove ==
    ASSUME IntakeTypes, NEW rows, NEW from, NEW to, from # to,
           rows \subseteq In(from), Move(rows, to)
    PROVE  /\ In(from)' = In(from) \ rows
           /\ In(to)' = In(to) \cup rows
           /\ \A x : x # from /\ x # to => In(x)' = In(x)
BY DEF Move, In, IntakeTypes

\* Rows that stay where they are.
LEMMA RowsStay ==
    ASSUME place' = place
    PROVE  \A x : In(x)' = In(x)
BY DEF In

\* What a processor is owed is kept or taken off.
LEMMA SeenShrinks ==
    ASSUME IntakeTypes, NEW rows, NEW to, Move(rows, to)
    PROVE  /\ seen' \in [Processor -> SUBSET Row]
           /\ \A p \in Processor : seen'[p] = seen[p] \ rows
BY DEF Move, IntakeTypes

-----------------------------------------------------------------------------
(***************************************************************************)
(* Types                                                                   *)
(***************************************************************************)

\* A processor that registers, moves on or goes keeps the types.
LEMMA ProcessorTypes ==
    ASSUME IntakeTypes, Counts, Hands, UNCHANGED burst, NEW p \in Processor,
           ProcessorStep(p) \/ DeadlinePasses(p)
    PROVE  IntakeTypes'
<1>. USE DEF IntakeTypes, environment, intake, slots, fetching
<1>1. CASE StartLoop(p)
      BY <1>1 DEF StartLoop, Reserve, Goto
<1>2. CASE RegisterDemand(p)
  <2>1. seen' \in [Processor -> SUBSET Row]
        BY <1>2 DEF RegisterDemand, In
  <2>2. generation' \in [Processor -> 0..demandGeneration']
    <3>1. \A q \in Processor : generation[q] \in 0..demandGeneration' 
          BY <1>2 DEF RegisterDemand
    <3>. QED BY <3>1, <1>2 DEF RegisterDemand
  <2>3. permit' \in BOOLEAN BY <1>2, Zenon DEF RegisterDemand, NotifyFetcher
  <2>. QED BY <1>2, <2>1, <2>2, <2>3 DEF RegisterDemand, Goto
<1>3. ASSUME NEW as \in {"exited", "drained"}, Leave(p, as),
             at[p] \in Asks
      PROVE  IntakeTypes'
  <2>1. idle >= 1
    <3>1. p \in AtIn(Asks) BY <1>3 DEF AtIn
    <3>2. AtIn(Asks) # {} BY <3>1
    <3>3. Cardinality(AtIn(Asks)) # 0
          BY <3>2, ProcessorsFinite, FS_EmptySet
    <3>. QED BY <3>3, ProcessorsFinite DEF Counts
  <2>2. idle' \in Nat BY <1>3, <2>1 DEF Leave
  <2>3. budget' \in Nat BY <1>3 DEF Leave
  <2>4. generation' \in [Processor -> 0..demandGeneration']
        BY <1>3 DEF Leave, ForgetWait
  <2>5. at' \in [Processor -> {"top", "asking", "enabled", "looked",
                               "waiting", "working", "drained", "exited"}]
        BY <1>3 DEF Leave, Goto
  <2>6. /\ late' \in [Processor -> BOOLEAN]
        /\ notified' \in [Processor -> BOOLEAN]
        /\ seen' \in [Processor -> SUBSET Row]
        BY <1>3 DEF Leave, ForgetWait
  <2>. QED BY <1>3, <2>2, <2>3, <2>4, <2>5, <2>6 DEF Leave
<1>4. CASE StopSeen(p) BY <1>3, <1>4 DEF StopSeen, Asks
<1>5. CASE Claim(p)
  <2>1. idle >= 1
    <3>1. p \in AtIn(Asks) BY <1>5 DEF AtIn, Claim, Asks
    <3>2. AtIn(Asks) # {} BY <3>1
    <3>3. Cardinality(AtIn(Asks)) # 0
          BY <3>2, ProcessorsFinite, FS_EmptySet
    <3>. QED BY <3>3, ProcessorsFinite DEF Counts
  <2>2. idle' \in Nat BY <1>5, <2>1 DEF Claim
  <2>3. PICK r \in In("buffer") :
          Move({r}, "working") /\ job' = [job EXCEPT ![p] = r]
        BY <1>5 DEF Claim
  <2>4. seen' \in [Processor -> SUBSET Row] BY <2>3, SeenShrinks
  <2>5. place' \in [Row -> Place] BY <2>3 DEF Move, Place
  <2>6. job' \in [Processor -> Row \cup {NoJob}] BY <2>3 DEF In
  <2>. QED BY <1>5, <2>2, <2>4, <2>5, <2>6 DEF Claim, ForgetWait, Goto
<1>6. CASE Drained(p) BY <1>3, <1>6 DEF Drained, Asks
<1>7. CASE Look(p) BY <1>7 DEF Look, Goto
<1>8. CASE Sleep(p) BY <1>8 DEF Sleep, Goto, NotifiedSinceEnabled
<1>9. CASE Wake(p) BY <1>9 DEF Wake, Goto
<1>10. CASE Process(p)
  <2>1. seen' \in [Processor -> SUBSET Row]
        BY <1>10, SeenShrinks DEF Process
  <2>2. place' \in [Row -> Place] BY <1>10 DEF Process, Move, Place
  <2>3. job' \in [Processor -> Row \cup {NoJob}] BY <1>10 DEF Process
  <2>4. at' \in [Processor -> {"top", "asking", "enabled", "looked",
                               "waiting", "working", "drained", "exited"}]
        BY <1>10 DEF Process, Goto
  <2>. QED BY <1>10, <2>1, <2>2, <2>3, <2>4 DEF Process
<1>11. CASE DeadlinePasses(p) BY <1>11 DEF DeadlinePasses, Goto
<1>. QED BY <1>1, <1>2, <1>4, <1>5, <1>6, <1>7, <1>8, <1>9, <1>10, <1>11
         DEF ProcessorStep

\* A proof or a refill reaches the processors that wait, and the proof covers
\* generations that exist.
LEMMA ProofTypes ==
    ASSUME IntakeTypes
    PROVE  /\ NotifyWaiters => notified' \in [Processor -> BOOLEAN]
           /\ ProveDrain => drainedGeneration' \in 0..demandGeneration
<1>1. ASSUME NotifyWaiters PROVE notified' \in [Processor -> BOOLEAN]
  <2>1. \A q \in Processor : (notified[q] \/ q \in Waiters) \in BOOLEAN
        BY Zenon
  <2>. QED BY <1>1, <2>1 DEF NotifyWaiters
<1>2. ASSUME ProveDrain PROVE drainedGeneration' \in 0..demandGeneration
      BY <1>2 DEF ProveDrain, IntakeTypes
<1>. QED BY <1>1, <1>2

\* So does a step of the fetcher.
LEMMA FetcherTypes ==
    ASSUME IntakeTypes, Counts, Fetch, UNCHANGED burst, FetcherStep
    PROVE  IntakeTypes'
<1>. USE DEF IntakeTypes, environment, intake, slots, fetching, Nobody, Stay
<1>0. /\ Start(unclaimable) \in Budget /\ Start(failing) \in Budget
      /\ Start(shutout) \in Budget /\ "off" \in Budget
      BY DEF Start, Budget
<1>00. ProveDrain => NotifyWaiters BY DEF ProveDrain
<1>1. CASE DemandSnapshot
  <2>1. Cardinality(In("buffer")) \in Nat BY RowsFinite
  <2>2. idle <= Cardinality(Processor) /\ Cardinality(Processor) \in Nat
        BY ProcessorsFinite DEF Counts
  <2>3. UnmetDemand \in 0..Cardinality(Processor)
        BY <2>1, <2>2 DEF UnmetDemand
  <2>. QED BY <1>1, <2>3 DEF DemandSnapshot
<1>2. CASE ClaimCommits
  <2>1. PICK rows : Move(rows, "answer") BY <1>2 DEF ClaimCommits
  <2>2. seen' \in [Processor -> SUBSET Row] BY <2>1, SeenShrinks
  <2>3. place' \in [Row -> Place] BY <2>1 DEF Move, Place
  <2>. QED BY <1>2, <2>2, <2>3 DEF ClaimCommits
<1>3. CASE ProbeAnswers
  <2>1. (In("ready") \cup In("held") # {}) \in BOOLEAN BY Zenon
  <2>2. \E o, w \in BOOLEAN : answer' = [open |-> o, work |-> w]
    <3>1. CASE answer' = [open |-> TRUE, work |-> FALSE] BY <3>1, Zenon
    <3>2. CASE answer' = [open |-> TRUE, work |-> TRUE] BY <3>2, Zenon
    <3>3. CASE answer' = [open |-> leased,
                          work |-> In("ready") \cup In("held") # {}]
          BY <3>3, <2>1, Zenon
    <3>. QED BY <1>3, <3>1, <3>2, <3>3 DEF ProbeAnswers
  <2>3. answer' \in [open : BOOLEAN, work : BOOLEAN] BY <2>2
  <2>. QED BY <1>3, <1>0, <2>3 DEF ProbeAnswers
<1>4. CASE FoundNothing
      BY <1>4, <1>0, <1>00, ProofTypes DEF FoundNothing
<1>5. CASE FoundUnclaimable
      BY <1>5, <1>0, <1>00, ProofTypes DEF FoundUnclaimable
<1>6. CASE FoundClosed BY <1>6, <1>0 DEF FoundClosed
<1>7. CASE Extend
  <2>1. /\ Cardinality(In("answer")) \in Nat
        /\ Cardinality(In("answer")) <= want
        BY RowsFinite DEF Fetch
  <2>2. want' \in 0..Cardinality(Processor)
        BY <1>7, <2>1, ProcessorsFinite DEF Extend
  <2>3. seen' \in [Processor -> SUBSET Row] BY <1>7, SeenShrinks DEF Extend
  <2>4. place' \in [Row -> Place] BY <1>7 DEF Move, Place, Extend
  <2>. QED BY <1>7, <1>0, <2>2, <2>3, <2>4 DEF Extend
<1>8. CASE Refilled
      BY <1>8, <1>00, ProofTypes DEF Refilled, RefilledUnlessStopped
<1>9. CASE DequeueFails BY <1>9, <1>0 DEF DequeueFails
<1>10. CASE Poll
  <2>1. permit' = FALSE \/ permit' = permit BY <1>10 DEF Poll
  <2>2. permit' \in BOOLEAN BY <2>1
  <2>. QED BY <1>10, <2>2 DEF Poll
<1>11. CASE FetcherStops BY <1>11 DEF FetcherStops
<1>12. CASE DrainOnShutdown
  <2>1. CASE \E r \in In("buffer") : Move({r}, "returned") /\ UNCHANGED fetcher
    <3>1. PICK r \in In("buffer") : Move({r}, "returned") /\ UNCHANGED fetcher
          BY <2>1
    <3>2. seen' \in [Processor -> SUBSET Row] BY <3>1, SeenShrinks
    <3>3. place' \in [Row -> Place] BY <3>1 DEF Move, Place
    <3>. QED BY <1>12, <3>1, <3>2, <3>3 DEF DrainOnShutdown
  <2>2. CASE fetcher' = "exited" /\ Stay BY <1>12, <2>2 DEF DrainOnShutdown
  <2>. QED BY <1>12, <2>1, <2>2 DEF DrainOnShutdown
<1>. QED BY <1>1, <1>2, <1>3, <1>4, <1>5, <1>6, <1>7, <1>8, <1>9, <1>10,
            <1>11, <1>12 DEF FetcherStep

\* And so do a stop and the surroundings.
LEMMA OutsideTypes ==
    ASSUME IntakeTypes, UNCHANGED burst,
           Freeze \/ BudgetOver \/ Surroundings
    PROVE  IntakeTypes'
<1>. USE DEF IntakeTypes, environment, intake, slots, fetching, Stay
<1>1. CASE Freeze BY <1>1 DEF Freeze
<1>2. CASE BudgetOver BY <1>2 DEF BudgetOver, Budget
<1>3. CASE Surroundings
  <2>1. changes' \in 0..MaxChanges
        BY <1>3, IntakeAssumption DEF Surroundings
  <2>2. ASSUME NEW r \in Row, NEW to \in {"ready", "held"}, Move({r}, to)
        PROVE  /\ seen' \in [Processor -> SUBSET Row]
               /\ place' \in [Row -> Place]
    <3>1. seen' \in [Processor -> SUBSET Row] BY <2>2, SeenShrinks
    <3>2. place' \in [Row -> Place] BY <2>2 DEF Move, Place
    <3>. QED BY <3>1, <3>2
  <2>3. /\ seen' \in [Processor -> SUBSET Row]
        /\ place' \in [Row -> Place]
        BY <1>3, <2>2 DEF Surroundings, In
  <2>4. db' \in BOOLEAN /\ leased' \in BOOLEAN /\ beating' \in BOOLEAN
        BY <1>3 DEF Surroundings
  <2>. QED BY <1>3, <2>1, <2>3, <2>4 DEF Surroundings
<1>. QED BY <1>1, <1>2, <1>3

-----------------------------------------------------------------------------
(***************************************************************************)
(* Counts and hands                                                        *)
(***************************************************************************)

\* A step that leaves the processors and the rows they took alone.
LEMMA NobodyCounts ==
    ASSUME Counts, Hands,
           UNCHANGED <<burst, idle, demandGeneration, at, job, budget>>,
           In("working")' = In("working"), In("done")' = In("done")
    PROVE  Counts' /\ Hands'
<1>1. Taken' = Taken BY DEF Taken
<1>2. /\ AtIn(Asks)' = AtIn(Asks) /\ AtIn(Asked)' = AtIn(Asked)
      /\ AtIn(Reserved)' = AtIn(Reserved)
      BY DEF AtIn, Asks, Asked, Reserved
<1>3. Counts' BY <1>1, <1>2 DEF Counts
<1>4. Hands' BY DEF Hands
<1>. QED BY <1>3, <1>4

\* No step outside the processors touches a row that a processor took.
LEMMA OutsideLeavesTaken ==
    ASSUME IntakeTypes, FetcherStep \/ Freeze \/ BudgetOver \/ Surroundings
    PROVE  /\ UNCHANGED <<idle, demandGeneration, at, job, budget, generation,
                          late>>
           /\ In("working")' = In("working") /\ In("done")' = In("done")
<1>. USE DEF environment, intake, slots, fetching, Nobody, Stay
<1>1. /\ UNCHANGED <<idle, demandGeneration, at, job, budget, generation, late>>
      /\ \/ place' = place
         \/ \E rows \in SUBSET In("ready") : Move(rows, "answer")
         \/ Move(In("answer"), "buffer")
         \/ \E r \in In("buffer") : Move({r}, "returned")
         \/ \E r \in In("future") : Move({r}, "ready")
         \/ \E r \in In("ready") : Move({r}, "held")
         \/ \E r \in In("held") : Move({r}, "ready")
  <2>1. CASE DemandSnapshot BY <2>1 DEF DemandSnapshot
  <2>2. CASE ClaimCommits BY <2>2 DEF ClaimCommits
  <2>3. CASE ProbeAnswers BY <2>3 DEF ProbeAnswers
  <2>4. CASE FoundNothing BY <2>4 DEF FoundNothing
  <2>5. CASE FoundUnclaimable BY <2>5 DEF FoundUnclaimable
  <2>6. CASE FoundClosed BY <2>6 DEF FoundClosed
  <2>7. CASE Extend BY <2>7 DEF Extend
  <2>8. CASE Refilled BY <2>8 DEF Refilled
  <2>9. CASE DequeueFails BY <2>9 DEF DequeueFails
  <2>10. CASE Poll BY <2>10 DEF Poll
  <2>11. CASE FetcherStops BY <2>11 DEF FetcherStops
  <2>12. CASE DrainOnShutdown BY <2>12 DEF DrainOnShutdown
  <2>13. CASE Freeze BY <2>13 DEF Freeze
  <2>14. CASE BudgetOver BY <2>14 DEF BudgetOver
  <2>15. CASE Surroundings BY <2>15 DEF Surroundings
  <2>. QED BY <2>1, <2>2, <2>3, <2>4, <2>5, <2>6, <2>7, <2>8, <2>9, <2>10,
              <2>11, <2>12, <2>13, <2>14, <2>15 DEF FetcherStep
<1>2. ASSUME NEW from, NEW to, NEW rows \in SUBSET In(from), Move(rows, to),
             from # to, {from, to} \cap {"working", "done"} = {}
      PROVE  In("working")' = In("working") /\ In("done")' = In("done")
  <2>1. \A x \in {"working", "done"} : x # from /\ x # to
        BY <1>2
  <2>2. \A x : x # from /\ x # to => In(x)' = In(x)
        BY <1>2, RowsMove
  <2>. QED BY <2>1, <2>2
<1>3. CASE place' = place BY <1>1, <1>3 DEF In
<1>4. CASE \E rows \in SUBSET In("ready") : Move(rows, "answer")
      BY <1>1, <1>2, <1>4
<1>5. CASE Move(In("answer"), "buffer") BY <1>1, <1>2, <1>5
<1>6. ASSUME NEW from, NEW to, NEW r \in In(from), Move({r}, to),
             from # to, {from, to} \cap {"working", "done"} = {}
      PROVE  In("working")' = In("working") /\ In("done")' = In("done")
  <2>1. {r} \in SUBSET In(from) BY <1>6
  <2>. QED BY <1>2, <1>6, <2>1
<1>7. CASE \E r \in In("buffer") : Move({r}, "returned") BY <1>1, <1>6, <1>7
<1>8. CASE \E r \in In("future") : Move({r}, "ready") BY <1>1, <1>6, <1>8
<1>9. CASE \E r \in In("ready") : Move({r}, "held") BY <1>1, <1>6, <1>9
<1>10. CASE \E r \in In("held") : Move({r}, "ready") BY <1>1, <1>6, <1>10
<1>. QED BY <1>1, <1>3, <1>4, <1>5, <1>7, <1>8, <1>9, <1>10

\* What the processors' own steps do to the counts.
LEMMA ProcessorCounts ==
    ASSUME IntakeTypes, Counts, Hands, UNCHANGED burst, NEW p \in Processor,
           ProcessorStep(p) \/ DeadlinePasses(p)
    PROVE  Counts'
<1>. USE DEF environment, intake, slots, fetching
<1>0. \A A : /\ Cardinality(AtIn(A)) \in Nat
             /\ Cardinality(Taken) \in Nat
             /\ idle \in Nat /\ budget \in Nat /\ demandGeneration \in Nat
      BY ProcessorsFinite, TakenFinite DEF IntakeTypes
<1>1. ASSUME place' = place PROVE Taken' = Taken
      BY <1>1 DEF Taken, In
<1>2. ASSUME NEW to, Goto(p, to), Taken' = Taken,
             UNCHANGED <<idle, demandGeneration, budget>>,
             at[p] \in Asks <=> to \in Asks,
             at[p] \in Asked <=> to \in Asked,
             at[p] \in Reserved <=> to \in Reserved
      PROVE  Counts'
  <2>1. Cardinality(AtIn(Asks)') = Cardinality(AtIn(Asks))
        BY <1>2, ProcessorMoves
  <2>2. Cardinality(AtIn(Asked)') = Cardinality(AtIn(Asked))
        BY <1>2, ProcessorMoves
  <2>3. Cardinality(AtIn(Reserved)') = Cardinality(AtIn(Reserved))
        BY <1>2, ProcessorMoves
  <2>. QED BY <1>0, <1>2, <2>1, <2>2, <2>3 DEF Counts, Asks, Asked, Reserved
<1>3. CASE StartLoop(p)
  <2>0. at[p] = "top" /\ Taken' = Taken BY <1>3, <1>1 DEF StartLoop
  <2>1. CASE Goto(p, "asking")
    <3>1. Cardinality(AtIn(Asks)') = Cardinality(AtIn(Asks))
          BY <2>0, <2>1, ProcessorMoves DEF Asks
    <3>2. Cardinality(AtIn(Asked)') = Cardinality(AtIn(Asked))
          BY <2>0, <2>1, ProcessorMoves DEF Asked, Asks
    <3>3. Cardinality(AtIn(Reserved)') = Cardinality(AtIn(Reserved)) + 1
          BY <2>0, <2>1, ProcessorMoves DEF Reserved, Asks
    <3>4. budget' = IF burst THEN budget - 1 ELSE budget
          BY <1>3, <2>0, <2>1 DEF StartLoop, Reserve, Goto, IntakeTypes
    <3>. QED BY <1>0, <1>3, <2>0, <3>1, <3>2, <3>3, <3>4
             DEF Counts, StartLoop, Asks, Asked, Reserved
  <2>2. CASE burst /\ Goto(p, "exited") /\ UNCHANGED budget
    <3>1. Cardinality(AtIn(Asks)') = Cardinality(AtIn(Asks))
          BY <2>0, <2>2, ProcessorMoves DEF Asks
    <3>2. Cardinality(AtIn(Asked)') = Cardinality(AtIn(Asked)) + 1
          BY <2>0, <2>2, ProcessorMoves DEF Asked, Asks
    <3>3. Cardinality(AtIn(Reserved)') = Cardinality(AtIn(Reserved))
          BY <2>0, <2>2, ProcessorMoves DEF Reserved, Asks
    <3>. QED BY <1>0, <1>3, <2>0, <2>2, <3>1, <3>2, <3>3
             DEF Counts, StartLoop, Asks, Asked, Reserved
  <2>. QED BY <1>3, <2>1, <2>2 DEF StartLoop, Reserve
<1>4. CASE RegisterDemand(p)
  <2>0. /\ at[p] = "asking" /\ Taken' = Taken /\ Goto(p, "enabled")
        BY <1>4, <1>1 DEF RegisterDemand
  <2>1. Cardinality(AtIn(Asks)') = Cardinality(AtIn(Asks)) + 1
        BY <2>0, ProcessorMoves DEF Asks
  <2>2. Cardinality(AtIn(Asked)') = Cardinality(AtIn(Asked)) + 1
        BY <2>0, ProcessorMoves DEF Asked, Asks
  <2>3. Cardinality(AtIn(Reserved)') = Cardinality(AtIn(Reserved))
        BY <2>0, ProcessorMoves DEF Reserved, Asks
  <2>. QED BY <1>0, <1>4, <2>0, <2>1, <2>2, <2>3
           DEF Counts, RegisterDemand, Asks, Asked, Reserved
<1>5. ASSUME NEW as \in {"exited", "drained"}, Leave(p, as), at[p] \in Asks
      PROVE  Counts'
  <2>0. Taken' = Taken /\ Goto(p, as) BY <1>5, <1>1 DEF Leave
  <2>1. Cardinality(AtIn(Asks)') = Cardinality(AtIn(Asks)) - 1
        BY <1>5, <2>0, ProcessorMoves DEF Asks
  <2>2. Cardinality(AtIn(Asked)') = Cardinality(AtIn(Asked))
        BY <1>5, <2>0, ProcessorMoves DEF Asked, Asks
  <2>3. Cardinality(AtIn(Reserved)') = Cardinality(AtIn(Reserved)) - 1
        BY <1>5, <2>0, ProcessorMoves DEF Reserved, Asks
  <2>. QED BY <1>0, <1>5, <2>0, <2>1, <2>2, <2>3
           DEF Counts, Leave, Asks, Asked, Reserved
<1>6. CASE StopSeen(p) BY <1>5, <1>6 DEF StopSeen, Asks
<1>7. CASE Drained(p) BY <1>5, <1>7 DEF Drained, Asks
<1>8. CASE Claim(p)
  <2>0. /\ at[p] = "enabled" /\ Goto(p, "working")
        /\ UNCHANGED <<demandGeneration, budget>> /\ idle' = idle - 1
        BY <1>8 DEF Claim
  <2>1. Cardinality(AtIn(Asks)') = Cardinality(AtIn(Asks)) - 1
        BY <2>0, ProcessorMoves DEF Asks
  <2>2. Cardinality(AtIn(Asked)') = Cardinality(AtIn(Asked)) - 1
        BY <2>0, ProcessorMoves DEF Asked, Asks
  <2>3. Cardinality(AtIn(Reserved)') = Cardinality(AtIn(Reserved)) - 1
        BY <2>0, ProcessorMoves DEF Reserved, Asks
  <2>4. PICK r \in In("buffer") : Move({r}, "working") BY <1>8 DEF Claim
  <2>5. {r} \subseteq In("buffer") BY <2>4
  <2>6. /\ In("working")' = In("working") \cup {r}
        /\ In("done")' = In("done")
        BY <2>4, <2>5, RowsMove
  <2>7. Taken' = Taken \cup {r} /\ r \notin Taken
        BY <2>4, <2>6 DEF Taken, In
  <2>8. Cardinality(Taken') = Cardinality(Taken) + 1
        BY <2>7, TakenFinite, FS_AddElement
  <2>. QED BY <1>0, <2>0, <2>1, <2>2, <2>3, <2>8
           DEF Counts, Asks, Asked, Reserved
<1>9. CASE Process(p)
  <2>1. job[p] \in In("working") BY <1>9 DEF Hands, Process
  <2>2. {job[p]} \subseteq In("working") BY <2>1
  <2>3. Move({job[p]}, "done") BY <1>9 DEF Process
  <2>4. /\ In("working")' = In("working") \ {job[p]}
        /\ In("done")' = In("done") \cup {job[p]}
        BY <2>2, <2>3, RowsMove
  <2>5. Taken' = Taken BY <2>1, <2>4 DEF Taken
  <2>. QED BY <1>9, <1>2, <2>5 DEF Process, Asks, Asked, Reserved
<1>10. CASE Look(p)
      BY <1>1, <1>2, <1>10 DEF Look, Asks, Asked, Reserved
<1>11. CASE Sleep(p)
      BY <1>1, <1>2, <1>11 DEF Sleep, Asks, Asked, Reserved
<1>12. CASE Wake(p)
      BY <1>1, <1>2, <1>12 DEF Wake, Asks, Asked, Reserved
<1>13. CASE DeadlinePasses(p)
      BY <1>1, <1>2, <1>13 DEF DeadlinePasses, Asks, Asked, Reserved
<1>. QED BY <1>3, <1>4, <1>6, <1>7, <1>8, <1>9, <1>10, <1>11, <1>12, <1>13
         DEF ProcessorStep

\* And to whose row is whose.
LEMMA ProcessorHands ==
    ASSUME IntakeTypes, Hands, NEW p \in Processor,
           ProcessorStep(p) \/ DeadlinePasses(p)
    PROVE  Hands'
<1>. USE DEF environment, intake, slots, fetching
<1>1. ASSUME NEW to, Goto(p, to), to # "working", at[p] # "working",
             place' = place, job' = job
      PROVE  Hands'
  <2>1. /\ at'[p] # "working"
        /\ \A q \in Processor : q # p => at'[q] = at[q]
        BY <1>1 DEF Goto, IntakeTypes
  <2>2. In("working")' = In("working") BY <1>1 DEF In
  <2>. QED BY <1>1, <2>1, <2>2 DEF Hands
<1>2. CASE StartLoop(p) BY <1>1, <1>2 DEF StartLoop, Reserve
<1>3. CASE RegisterDemand(p) BY <1>1, <1>3 DEF RegisterDemand
<1>4. CASE StopSeen(p) BY <1>1, <1>4 DEF StopSeen, Leave
<1>5. CASE Drained(p) BY <1>1, <1>5 DEF Drained, Leave
<1>6. CASE Look(p) BY <1>1, <1>6 DEF Look
<1>7. CASE Sleep(p) BY <1>1, <1>7 DEF Sleep
<1>8. CASE Wake(p) BY <1>1, <1>8 DEF Wake
<1>9. CASE DeadlinePasses(p) BY <1>1, <1>9 DEF DeadlinePasses
<1>10. CASE Claim(p)
  <2>1. PICK r \in In("buffer") :
          Move({r}, "working") /\ job' = [job EXCEPT ![p] = r]
        BY <1>10 DEF Claim
  <2>2. {r} \subseteq In("buffer") BY <2>1
  <2>3. In("working")' = In("working") \cup {r} BY <2>1, <2>2, RowsMove
  <2>4. r \notin In("working") BY <2>1 DEF In
  <2>5. /\ at'[p] = "working" /\ job'[p] = r /\ at[p] = "enabled"
        /\ \A q \in Processor : q # p => at'[q] = at[q] /\ job'[q] = job[q]
        BY <1>10, <2>1 DEF Claim, Goto, IntakeTypes
  <2>. QED BY <2>3, <2>4, <2>5 DEF Hands
<1>11. CASE Process(p)
  <2>1. job[p] \in In("working") /\ at[p] = "working"
        BY <1>11 DEF Hands, Process
  <2>2. {job[p]} \subseteq In("working") BY <2>1
  <2>3. Move({job[p]}, "done") BY <1>11 DEF Process
  <2>4. In("working")' = In("working") \ {job[p]} BY <2>2, <2>3, RowsMove
  <2>5. /\ at'[p] = "top"
        /\ \A q \in Processor : q # p => at'[q] = at[q] /\ job'[q] = job[q]
        BY <1>11 DEF Process, Goto, IntakeTypes
  <2>. QED BY <2>1, <2>4, <2>5 DEF Hands
<1>. QED BY <1>2, <1>3, <1>4, <1>5, <1>6, <1>7, <1>8, <1>9, <1>10, <1>11
         DEF ProcessorStep

-----------------------------------------------------------------------------
(***************************************************************************)
(* What a fetch may ask for                                                *)
(***************************************************************************)

\* A processor's steps: a row leaves the buffer together with the demand that
\* waited for it, and demand is withdrawn only by a stop or by a burst.
LEMMA ProcessorFetch ==
    ASSUME IntakeTypes, Hands, Fetch, UNCHANGED burst, NEW p \in Processor,
           ProcessorStep(p) \/ DeadlinePasses(p)
    PROVE  Fetch'
<1>. USE DEF environment, intake, slots, fetching
<1>0. /\ Cardinality(In("answer")) \in Nat /\ Cardinality(In("buffer")) \in Nat
      /\ idle \in Nat /\ want \in Nat
      BY RowsFinite, ProcessorsFinite DEF IntakeTypes
<1>1. ASSUME place' = place, UNCHANGED <<stopping, stop, fetcher, want>>,
             \A q \in Processor : late'[q] => late[q] \/ burst,
             ~burst /\ ~stop => idle' \in Nat /\ idle' >= idle
      PROVE  Fetch'
  <2>1. In("answer")' = In("answer") /\ In("buffer")' = In("buffer")
        BY <1>1, RowsStay
  <2>. QED BY <1>0, <1>1, <2>1 DEF Fetch
<1>2. CASE StartLoop(p) BY <1>0, <1>1, <1>2 DEF StartLoop
<1>3. CASE RegisterDemand(p) BY <1>0, <1>1, <1>3 DEF RegisterDemand
<1>4. CASE StopSeen(p)
  <2>1. \A q \in Processor : late'[q] => late[q]
        BY <1>4 DEF StopSeen, Leave, ForgetWait, IntakeTypes
  <2>. QED BY <1>1, <1>4, <2>1 DEF StopSeen, Leave
<1>5. CASE Drained(p)
  <2>1. \A q \in Processor : late'[q] => late[q]
        BY <1>5 DEF Drained, Leave, ForgetWait, IntakeTypes
  <2>2. burst BY <1>5 DEF Drained, Fetch
  <2>. QED BY <1>1, <1>5, <2>1, <2>2 DEF Drained, Leave
<1>6. CASE Look(p) BY <1>0, <1>1, <1>6 DEF Look
<1>7. CASE Sleep(p) BY <1>0, <1>1, <1>7 DEF Sleep
<1>8. CASE Wake(p) BY <1>0, <1>1, <1>8 DEF Wake
<1>9. CASE DeadlinePasses(p)
  <2>1. burst BY <1>9 DEF DeadlinePasses
  <2>. QED BY <1>0, <1>1, <1>9, <2>1 DEF DeadlinePasses
<1>10. CASE Claim(p)
  <2>1. PICK r \in In("buffer") : Move({r}, "working") BY <1>10 DEF Claim
  <2>2. {r} \subseteq In("buffer") BY <2>1
  <2>3. /\ In("buffer")' = In("buffer") \ {r}
        /\ In("answer")' = In("answer")
        BY <2>1, <2>2, RowsMove
  <2>4. Cardinality(In("buffer")') = Cardinality(In("buffer")) - 1
        BY <2>1, <2>3, RowsFinite, FS_RemoveElement
  <2>5. \A q \in Processor : late'[q] => late[q]
        BY <1>10 DEF Claim, ForgetWait, IntakeTypes
  <2>6. UNCHANGED <<stopping, stop, fetcher, want>> /\ idle' = idle - 1
        BY <1>10 DEF Claim
  <2>7. In("buffer") = {} => In("buffer")' = {} BY <2>3
  <2>. QED BY <1>0, <2>3, <2>4, <2>5, <2>6, <2>7 DEF Fetch
<1>11. CASE Process(p)
  <2>1. {job[p]} \subseteq In("working") BY <1>11 DEF Hands, Process
  <2>2. Move({job[p]}, "done") BY <1>11 DEF Process
  <2>3. In("answer")' = In("answer") /\ In("buffer")' = In("buffer")
        BY <2>1, <2>2, RowsMove
  <2>. QED BY <1>0, <1>11, <2>3 DEF Fetch, Process
<1>. QED BY <1>2, <1>3, <1>4, <1>5, <1>6, <1>7, <1>8, <1>9, <1>10, <1>11
         DEF ProcessorStep

\* The fetcher's steps: it asks for the demand the buffer does not meet, takes
\* no more than it asked for, and hands over what it took.
LEMMA FetcherFetch ==
    ASSUME IntakeTypes, Fetch, UNCHANGED burst, FetcherStep
    PROVE  Fetch'
<1>. USE DEF environment, intake, slots, fetching, Nobody, Stay
<1>0. /\ Cardinality(In("answer")) \in Nat /\ Cardinality(In("buffer")) \in Nat
      /\ idle \in Nat /\ want \in Nat
      BY RowsFinite, ProcessorsFinite DEF IntakeTypes
<1>00. /\ UNCHANGED <<stopping, stop, late, idle>>
       /\ Cardinality({}) = 0
       BY FS_EmptySet DEF FetcherStep, DemandSnapshot, ClaimCommits,
          ProbeAnswers, FoundNothing, FoundUnclaimable, FoundClosed, Extend,
          Refilled, DequeueFails, Poll, FetcherStops, DrainOnShutdown
<1>1. ASSUME place' = place, want' = want,
             fetcher' \in {"top", "select", "draining"},
             In("answer") = {}
      PROVE  Fetch'
  <2>1. In("answer")' = In("answer") /\ In("buffer")' = In("buffer")
        BY <1>1, RowsStay
  <2>. QED BY <1>0, <1>00, <1>1, <2>1 DEF Fetch
<1>2. CASE DemandSnapshot
  <2>1. In("answer")' = In("answer") /\ In("buffer")' = In("buffer")
        BY <1>2, RowsStay DEF DemandSnapshot
  <2>2. In("answer") = {} BY <1>2 DEF DemandSnapshot, Fetch
  <2>3. UnmetDemand \in Nat /\ (UnmetDemand > 0 =>
            UnmetDemand + Cardinality(In("buffer")) <= idle)
        BY <1>0 DEF UnmetDemand
  <2>4. /\ want' = UnmetDemand
        /\ fetcher' = IF UnmetDemand = 0 THEN "select" ELSE "asked"
        BY <1>2 DEF DemandSnapshot
  <2>. QED BY <1>0, <1>00, <2>1, <2>2, <2>3, <2>4 DEF Fetch
<1>3. CASE ClaimCommits
  <2>0. In("answer") = {} /\ fetcher = "asked" /\ want > 0
        BY <1>3 DEF ClaimCommits, Fetch
  <2>1. PICK rows \in SUBSET In("ready") :
          /\ Move(rows, "answer")
          /\ LET most == IF leased THEN want ELSE 0
             IN \/ Cardinality(rows) = most
                \/ rows = In("ready") /\ Cardinality(rows) < most
        BY <1>3 DEF ClaimCommits
  <2>3. rows \subseteq In("ready") /\ Move(rows, "answer") BY <2>1
  <2>4. In("answer")' = In("answer") \cup rows /\ In("buffer")' = In("buffer")
        BY <2>3, RowsMove
  <2>5. In("answer")' = rows BY <2>0, <2>4
  <2>6. Cardinality(rows) \in Nat
        BY <2>3, RowsFinite, FS_Subset, FS_CardinalityType
  <2>8. Cardinality(rows) <= want
    <3>1. CASE leased BY <1>0, <2>1, <2>6, <3>1
    <3>2. CASE ~leased BY <1>0, <2>1, <2>6, <3>2
    <3>. QED BY <3>1, <3>2
  <2>7. fetcher' = "claimed" /\ want' = want BY <1>3 DEF ClaimCommits
  <2>. QED BY <1>0, <1>00, <2>0, <2>4, <2>5, <2>6, <2>7, <2>8 DEF Fetch
<1>4. CASE ProbeAnswers
  <2>1. In("answer")' = In("answer") /\ In("buffer")' = In("buffer")
        BY <1>4, RowsStay DEF ProbeAnswers
  <2>. QED BY <1>0, <1>00, <1>4, <2>1 DEF Fetch, ProbeAnswers
<1>5. CASE FoundNothing BY <1>1, <1>5 DEF FoundNothing
<1>6. CASE FoundUnclaimable BY <1>1, <1>6 DEF FoundUnclaimable
<1>7. CASE FoundClosed BY <1>1, <1>7 DEF FoundClosed
<1>8. CASE Extend
  <2>1. Move(In("answer"), "buffer") BY <1>8 DEF Extend
  <2>2. /\ In("answer")' = In("answer") \ In("answer")
        /\ In("buffer")' = In("buffer") \cup In("answer")
        BY <2>1, RowsMove
  <2>3. In("answer")' = {} BY <2>2
  <2>4. In("buffer") \cap In("answer") = {} BY DEF In
  <2>5. Cardinality(In("buffer")')
          = Cardinality(In("buffer")) + Cardinality(In("answer"))
    <3>1. Cardinality(In("buffer") \cup In("answer"))
            = Cardinality(In("buffer")) + Cardinality(In("answer"))
                - Cardinality(In("buffer") \cap In("answer"))
          BY RowsFinite, FS_Union
    <3>2. Cardinality(In("buffer") \cap In("answer")) = 0
          BY <1>00, <2>4
    <3>3. Cardinality(In("buffer") \cup In("answer"))
            = Cardinality(In("buffer")) + Cardinality(In("answer"))
          BY <1>0, <3>1, <3>2
    <3>. QED BY <2>2, <3>3
  <2>6. fetcher' = "extended" /\ want' = want - Cardinality(In("answer"))
        BY <1>8 DEF Extend
  <2>. QED BY <1>0, <1>00, <2>3, <2>5, <2>6 DEF Fetch
<1>9. CASE Refilled
  <2>1. In("answer") = {} BY <1>9 DEF Refilled, Fetch
  <2>. QED BY <1>1, <1>9, <2>1 DEF Refilled, RefilledUnlessStopped
<1>10. CASE DequeueFails
  <2>1. In("answer") = {} BY <1>10 DEF DequeueFails, Fetch
  <2>. QED BY <1>1, <1>10, <2>1 DEF DequeueFails
<1>11. CASE Poll
  <2>1. In("answer") = {} BY <1>11 DEF Poll, Fetch
  <2>. QED BY <1>1, <1>11, <2>1 DEF Poll
<1>12. CASE FetcherStops
  <2>1. In("answer") = {} BY <1>12 DEF FetcherStops, Fetch
  <2>. QED BY <1>1, <1>12, <2>1 DEF FetcherStops
<1>13. CASE DrainOnShutdown
  <2>1. CASE \E r \in In("buffer") :
               db /\ Move({r}, "returned") /\ UNCHANGED fetcher
    <3>1. PICK r \in In("buffer") : Move({r}, "returned") /\ fetcher' = fetcher
          BY <2>1
    <3>2. {r} \subseteq In("buffer") BY <3>1
    <3>3. /\ In("buffer")' = In("buffer") \ {r}
          /\ In("answer")' = In("answer")
          BY <3>1, <3>2, RowsMove
    <3>4. Cardinality(In("buffer")') = Cardinality(In("buffer")) - 1
          BY <3>1, <3>3, RowsFinite, FS_RemoveElement
    <3>5. want' = want /\ fetcher = "draining" BY <1>13 DEF DrainOnShutdown
    <3>. QED BY <1>0, <1>00, <3>1, <3>3, <3>4, <3>5 DEF Fetch
  <2>2. CASE In("buffer") = {} /\ fetcher' = "exited" /\ Stay
    <3>1. In("answer")' = In("answer") /\ In("buffer")' = In("buffer")
          BY <2>2, RowsStay
    <3>2. want' = want /\ fetcher = "draining" BY <1>13 DEF DrainOnShutdown
    <3>. QED BY <1>0, <1>00, <2>2, <3>1, <3>2 DEF Fetch
  <2>. QED BY <1>13, <2>1, <2>2 DEF DrainOnShutdown
<1>. QED BY <1>2, <1>3, <1>4, <1>5, <1>6, <1>7, <1>8, <1>9, <1>10, <1>11,
            <1>12, <1>13 DEF FetcherStep

\* The surroundings touch neither the answer nor the buffer.
LEMMA OutsideFetch ==
    ASSUME IntakeTypes, Fetch, UNCHANGED burst,
           Freeze \/ BudgetOver \/ Surroundings
    PROVE  /\ Fetch'
           /\ In("answer")' = In("answer") /\ In("buffer")' = In("buffer")
<1>. USE DEF environment, intake, slots, fetching, Stay
<1>1. In("answer")' = In("answer") /\ In("buffer")' = In("buffer")
  <2>1. ASSUME NEW from, NEW to, NEW r \in In(from), Move({r}, to),
               from # to, from \notin {"answer", "buffer"},
               to \notin {"answer", "buffer"}
        PROVE  In("answer")' = In("answer") /\ In("buffer")' = In("buffer")
    <3>1. {r} \subseteq In(from) BY <2>1
    <3>. QED BY <2>1, <3>1, RowsMove
  <2>2. CASE place' = place BY <2>2, RowsStay
  <2>3. CASE \E r \in In("future") : Move({r}, "ready") BY <2>1, <2>3
  <2>4. CASE \E r \in In("ready") : Move({r}, "held") BY <2>1, <2>4
  <2>5. CASE \E r \in In("held") : Move({r}, "ready") BY <2>1, <2>5
  <2>. QED BY <2>2, <2>3, <2>4, <2>5 DEF Freeze, BudgetOver, Surroundings
<1>2. /\ UNCHANGED <<late, idle, fetcher, want>>
      /\ \/ stopping' = stopping /\ stop' = stop
         \/ stopping' = TRUE /\ stop' = TRUE
      BY DEF Freeze, BudgetOver, Surroundings
<1>. QED BY <1>1, <1>2 DEF Fetch

-----------------------------------------------------------------------------
(***************************************************************************)
(* Wakeups                                                                 *)
(***************************************************************************)

\* A processor goes to sleep beside an empty buffer, and keeps what it was
\* told while it looked; whoever asks leaves a permit.
LEMMA ProcessorWakeups ==
    ASSUME IntakeTypes, Hands, Fetch, Wakeups, NEW p \in Processor,
           ProcessorStep(p) \/ DeadlinePasses(p)
    PROVE  Wakeups'
<1>. USE DEF environment, intake, slots, fetching
<1>1. ASSUME NEW to, Goto(p, to), In("buffer")' \subseteq In("buffer"),
             \A q \in Processor : q # p => notified'[q] = notified[q],
             to \in {"looked", "waiting"} /\ In("buffer") # {} /\ ~stopping
                 => notified'[p] \/ fetcher = "extended",
             UNCHANGED <<stopping, fetcher, fetchGeneration>>,
             \/ UNCHANGED <<demandGeneration, permit>>
             \/ permit' = TRUE
      PROVE  Wakeups'
  <2>1. /\ at'[p] = to
        /\ \A q \in Processor : q # p => at'[q] = at[q]
        BY <1>1 DEF Goto, IntakeTypes
  <2>2. In("buffer")' # {} => In("buffer") # {} BY <1>1
  <2>. QED BY <1>1, <2>1, <2>2 DEF Wakeups
<1>2. ASSUME place' = place PROVE In("buffer")' \subseteq In("buffer")
      BY <1>2 DEF In
<1>3. CASE StartLoop(p) BY <1>1, <1>2, <1>3 DEF StartLoop, Reserve
<1>4. CASE RegisterDemand(p)
  <2>1. permit' = TRUE BY <1>4 DEF RegisterDemand, NotifyFetcher
  <2>. QED BY <1>1, <1>2, <1>4, <2>1 DEF RegisterDemand
<1>5. ASSUME ForgetWait(p)
      PROVE  \A q \in Processor : q # p => notified'[q] = notified[q]
      BY <1>5 DEF ForgetWait, IntakeTypes
<1>6. CASE StopSeen(p) BY <1>1, <1>2, <1>5, <1>6 DEF StopSeen, Leave
<1>7. CASE Drained(p) BY <1>1, <1>2, <1>5, <1>7 DEF Drained, Leave
<1>8. CASE Look(p) BY <1>1, <1>2, <1>8 DEF Look, NothingToClaim
<1>9. CASE Sleep(p)
  <2>1. notified' = notified /\ at[p] = "looked"
        BY <1>9 DEF Sleep, NotifiedSinceEnabled
  <2>2. In("buffer") # {} /\ ~stopping => notified'[p] \/ fetcher = "extended"
        BY <2>1 DEF Wakeups
  <2>. QED BY <1>1, <1>2, <1>9, <2>1, <2>2 DEF Sleep
<1>10. CASE Wake(p)
  <2>1. \A q \in Processor : q # p => notified'[q] = notified[q]
        BY <1>10 DEF Wake, IntakeTypes
  <2>. QED BY <1>1, <1>2, <1>10, <2>1 DEF Wake
<1>11. CASE DeadlinePasses(p) BY <1>1, <1>2, <1>11 DEF DeadlinePasses
<1>12. CASE Claim(p)
  <2>1. PICK r \in In("buffer") : Move({r}, "working") BY <1>12 DEF Claim
  <2>2. {r} \subseteq In("buffer") BY <2>1
  <2>3. In("buffer")' = In("buffer") \ {r} BY <2>1, <2>2, RowsMove
  <2>4. In("buffer")' \subseteq In("buffer") BY <2>3
  <2>. QED BY <1>1, <1>5, <1>12, <2>4 DEF Claim
<1>13. CASE Process(p)
  <2>1. {job[p]} \subseteq In("working") BY <1>13 DEF Hands, Process
  <2>2. Move({job[p]}, "done") BY <1>13 DEF Process
  <2>3. In("buffer")' = In("buffer") BY <2>1, <2>2, RowsMove
  <2>. QED BY <1>1, <1>13, <2>3 DEF Process
<1>. QED BY <1>3, <1>4, <1>6, <1>7, <1>8, <1>9, <1>10, <1>11, <1>12, <1>13
         DEF ProcessorStep

\* A refill is followed by its notification, and the fetcher sleeps on demand
\* it has seen.
LEMMA FetcherWakeups ==
    ASSUME IntakeTypes, Fetch, Wakeups, FetcherStep
    PROVE  Wakeups'
<1>. USE DEF environment, intake, slots, fetching, Nobody, Stay
<1>0. UNCHANGED <<at, stopping, demandGeneration>>
      BY DEF FetcherStep, DemandSnapshot, ClaimCommits,
         ProbeAnswers, FoundNothing, FoundUnclaimable, FoundClosed, Extend,
         Refilled, DequeueFails, Poll, FetcherStops, DrainOnShutdown
<1>1. ASSUME NotifyWaiters
      PROVE  \A q \in Processor :
                 /\ notified[q] => notified'[q]
                 /\ at[q] \in {"looked", "waiting"} => notified'[q]
      BY <1>1 DEF NotifyWaiters, Waiters
<1>2. ASSUME fetcher # "extended", In("buffer")' \subseteq In("buffer"),
             \A q \in Processor : notified[q] => notified'[q],
             \/ /\ fetcher \in {"asked", "claimed", "answered", "select"}
                /\ UNCHANGED <<fetchGeneration, permit>>
             \/ fetchGeneration' = demandGeneration
             \/ fetcher' \in {"top", "draining", "exited"}
      PROVE  Wakeups'
  <2>1. In("buffer")' # {} => In("buffer") # {} BY <1>2
  <2>2. ASSUME NEW q \in Processor, at'[q] \in {"looked", "waiting"},
               In("buffer")' # {}, ~stopping'
        PROVE  notified'[q]
        BY <1>0, <1>2, <2>1, <2>2 DEF Wakeups
  <2>3. ASSUME demandGeneration' > fetchGeneration',
               fetcher' \in {"asked", "claimed", "answered", "extended",
                             "select"}
        PROVE  permit'
    <3>1. demandGeneration \in Nat BY DEF IntakeTypes
    <3>. QED BY <1>0, <1>2, <2>3, <3>1 DEF Wakeups
  <2>. QED BY <2>2, <2>3 DEF Wakeups
<1>3. ASSUME place' = place PROVE In("buffer")' \subseteq In("buffer")
      BY <1>3 DEF In
<1>4. CASE DemandSnapshot BY <1>2, <1>3, <1>4 DEF DemandSnapshot
<1>5. CASE ClaimCommits
  <2>1. PICK rows \in SUBSET In("ready") : Move(rows, "answer")
        BY <1>5 DEF ClaimCommits
  <2>2. rows \subseteq In("ready") BY <2>1
  <2>3. In("buffer")' = In("buffer") BY <2>1, <2>2, RowsMove
  <2>. QED BY <1>2, <1>5, <2>3 DEF ClaimCommits
<1>6. CASE ProbeAnswers BY <1>2, <1>3, <1>6 DEF ProbeAnswers
<1>7. CASE FoundNothing
      BY <1>1, <1>2, <1>3, <1>7 DEF FoundNothing, ProveDrain
<1>8. CASE FoundUnclaimable
      BY <1>1, <1>2, <1>3, <1>8 DEF FoundUnclaimable, ProveDrain
<1>9. CASE FoundClosed BY <1>2, <1>3, <1>9 DEF FoundClosed
<1>10. CASE Extend
      BY <1>0, <1>10 DEF Extend, Wakeups
<1>11. CASE Refilled
  <2>1. NotifyWaiters BY <1>11 DEF Refilled, ProveDrain
  <2>2. \A q \in Processor : at[q] \in {"looked", "waiting"} => notified'[q]
        BY <2>1, <1>1
  <2>. QED BY <1>0, <1>11, <2>2 DEF Refilled, Wakeups, RefilledUnlessStopped
<1>12. CASE DequeueFails BY <1>2, <1>3, <1>12 DEF DequeueFails
<1>13. CASE Poll BY <1>2, <1>3, <1>13 DEF Poll
<1>14. CASE FetcherStops BY <1>2, <1>3, <1>14 DEF FetcherStops
<1>15. CASE DrainOnShutdown
  <2>1. CASE \E r \in In("buffer") :
               db /\ Move({r}, "returned") /\ UNCHANGED fetcher
    <3>1. PICK r \in In("buffer") : Move({r}, "returned") /\ fetcher' = fetcher
          BY <2>1
    <3>2. {r} \subseteq In("buffer") BY <3>1
    <3>3. In("buffer")' = In("buffer") \ {r} BY <3>1, <3>2, RowsMove
    <3>4. In("buffer")' \subseteq In("buffer") BY <3>3
    <3>. QED BY <1>2, <1>15, <3>1, <3>4 DEF DrainOnShutdown
  <2>2. CASE In("buffer") = {} /\ fetcher' = "exited" /\ Stay
        BY <1>2, <1>3, <1>15, <2>2 DEF DrainOnShutdown
  <2>. QED BY <1>15, <2>1, <2>2 DEF DrainOnShutdown
<1>. QED BY <1>4, <1>5, <1>6, <1>7, <1>8, <1>9, <1>10, <1>11, <1>12, <1>13,
            <1>14, <1>15 DEF FetcherStep

\* A stop and the surroundings wake nobody and put nobody to sleep.
LEMMA OutsideWakeups ==
    ASSUME IntakeTypes, Fetch, Wakeups, UNCHANGED burst,
           Freeze \/ BudgetOver \/ Surroundings
    PROVE  Wakeups'
<1>. USE DEF environment, intake, slots, fetching, Stay
<1>1. In("buffer")' = In("buffer") BY OutsideFetch
<1>2. /\ UNCHANGED <<at, notified, fetcher, demandGeneration, fetchGeneration,
                     permit>>
      /\ ~stopping' => ~stopping
      BY DEF Freeze, BudgetOver, Surroundings
<1>. QED BY <1>1, <1>2 DEF Wakeups

-----------------------------------------------------------------------------
(***************************************************************************)
(* What a fetch that comes back short proves                               *)
(***************************************************************************)

\* A step that leaves the fetch alone keeps what is known of a processor that
\* it does not let ask anew.
LEMMA ProofKept ==
    ASSUME NEW q \in Processor, ProofFor(q),
           seen'[q] \subseteq seen[q], seen'[q] \subseteq In("ready")',
           UNCHANGED <<fetcher, want, fetchGeneration, drainedGeneration,
                       answer, leased>>,
           In("answer")' = In("answer"),
           at'[q] \in Asks => at[q] \in Asks /\ generation'[q] = generation[q]
    PROVE  ProofFor(q)'
<1>1. seen[q] = {} => seen'[q] = {} OBVIOUS
<1>2. Asks' = Asks BY DEF Asks
<1>. QED BY <1>1, <1>2 DEF ProofFor

\* Rows that move are no longer owed; the others are where they were.
LEMMA OwedAreReady ==
    ASSUME IntakeTypes, Proofs, NEW rows, NEW to, Move(rows, to),
           NEW q \in Processor
    PROVE  seen'[q] \subseteq seen[q] /\ seen'[q] \subseteq In("ready")'
<1>1. seen'[q] = seen[q] \ rows BY SeenShrinks
<1>2. seen[q] \subseteq In("ready") BY DEF Proofs, ProofFor
<1>3. \A r \in Row : r \notin rows => place'[r] = place[r] BY DEF Move
<1>. QED BY <1>1, <1>2, <1>3 DEF In

\* A processor asks anew under a generation that no fetch was begun for; the
\* others are left alone.
LEMMA ProcessorProofs ==
    ASSUME IntakeTypes, Hands, Proofs, NEW p \in Processor,
           ProcessorStep(p) \/ DeadlinePasses(p)
    PROVE  Proofs'
<1>. USE DEF environment, intake, slots, fetching
<1>0. SUFFICES ASSUME NEW q \in Processor PROVE ProofFor(q)'
      BY DEF Proofs
<1>1. ProofFor(q) BY DEF Proofs
<1>2. ASSUME UNCHANGED <<place, seen>>
      PROVE  /\ seen'[q] \subseteq seen[q] /\ seen'[q] \subseteq In("ready")'
             /\ In("answer")' = In("answer")
      BY <1>1, <1>2 DEF ProofFor, In
<1>3. ASSUME NEW to, Goto(p, to), at[p] \in Asks \/ to \notin Asks,
             UNCHANGED generation
      PROVE  at'[q] \in Asks => at[q] \in Asks /\ generation'[q] = generation[q]
      BY <1>3 DEF Goto, IntakeTypes
<1>4. ASSUME NEW to, Goto(p, to), to \notin Asks, ForgetWait(p)
      PROVE  at'[q] \in Asks => at[q] \in Asks /\ generation'[q] = generation[q]
      BY <1>4 DEF Goto, ForgetWait, IntakeTypes
<1>5. CASE StartLoop(p)
  <2>1. at'[q] \in Asks => at[q] \in Asks /\ generation'[q] = generation[q]
        BY <1>3, <1>5 DEF StartLoop, Reserve, Asks
  <2>. QED BY <1>1, <1>2, <1>5, <2>1, ProofKept DEF StartLoop
<1>6. CASE RegisterDemand(p)
  <2>1. CASE q = p
    <3>1. /\ seen'[q] = In("ready") /\ In("ready")' = In("ready")
          /\ generation'[q] = demandGeneration + 1
          /\ UNCHANGED <<drainedGeneration, fetchGeneration>>
          BY <1>6, <2>1 DEF RegisterDemand, IntakeTypes, In
    <3>2. /\ ~(generation'[q] <= drainedGeneration')
          /\ ~(generation'[q] <= fetchGeneration')
          BY <3>1 DEF IntakeTypes
    <3>. QED BY <3>1, <3>2 DEF ProofFor
  <2>2. CASE q # p
    <3>1. /\ seen'[q] = seen[q] /\ place' = place
          /\ at'[q] = at[q] /\ generation'[q] = generation[q]
          BY <1>6, <2>2 DEF RegisterDemand, Goto, IntakeTypes
    <3>2. /\ seen'[q] \subseteq seen[q] /\ seen'[q] \subseteq In("ready")'
          /\ In("answer")' = In("answer")
          BY <1>1, <3>1 DEF ProofFor, In
    <3>. QED BY <1>1, <1>6, <3>1, <3>2, ProofKept DEF RegisterDemand
  <2>. QED BY <2>1, <2>2
<1>7. ASSUME NEW as \in {"exited", "drained"}, Leave(p, as)
      PROVE  ProofFor(q)'
  <2>1. at'[q] \in Asks => at[q] \in Asks /\ generation'[q] = generation[q]
        BY <1>4, <1>7 DEF Leave, Asks
  <2>2. seen'[q] \subseteq seen[q] BY <1>7 DEF Leave, IntakeTypes
  <2>3. In("ready")' = In("ready") /\ In("answer")' = In("answer")
        BY <1>7 DEF Leave, In
  <2>4. seen'[q] \subseteq In("ready")' BY <1>1, <2>2, <2>3 DEF ProofFor
  <2>. QED BY <1>1, <1>7, <2>1, <2>2, <2>3, <2>4, ProofKept DEF Leave
<1>8. CASE StopSeen(p) BY <1>7, <1>8 DEF StopSeen
<1>9. CASE Drained(p) BY <1>7, <1>9 DEF Drained
<1>10. CASE Look(p)
  <2>1. at'[q] \in Asks => at[q] \in Asks /\ generation'[q] = generation[q]
        BY <1>3, <1>10 DEF Look, Asks
  <2>. QED BY <1>1, <1>2, <1>10, <2>1, ProofKept DEF Look
<1>11. CASE Sleep(p)
  <2>1. at'[q] \in Asks => at[q] \in Asks /\ generation'[q] = generation[q]
        BY <1>3, <1>11 DEF Sleep, Asks
  <2>. QED BY <1>1, <1>2, <1>11, <2>1, ProofKept DEF Sleep
<1>12. CASE Wake(p)
  <2>1. at'[q] \in Asks => at[q] \in Asks /\ generation'[q] = generation[q]
        BY <1>3, <1>12 DEF Wake, Asks
  <2>. QED BY <1>1, <1>2, <1>12, <2>1, ProofKept DEF Wake
<1>13. CASE DeadlinePasses(p)
  <2>1. at'[q] \in Asks => at[q] \in Asks /\ generation'[q] = generation[q]
        BY <1>3, <1>13 DEF DeadlinePasses, Asks
  <2>. QED BY <1>1, <1>2, <1>13, <2>1, ProofKept DEF DeadlinePasses
<1>14. CASE Claim(p)
  <2>1. at'[q] \in Asks => at[q] \in Asks /\ generation'[q] = generation[q]
        BY <1>4, <1>14 DEF Claim, Asks
  <2>2. PICK r \in In("buffer") : Move({r}, "working") BY <1>14 DEF Claim
  <2>3. seen'[q] \subseteq seen[q] /\ seen'[q] \subseteq In("ready")'
        BY <2>2, OwedAreReady
  <2>4. {r} \subseteq In("buffer") BY <2>2
  <2>5. In("answer")' = In("answer") BY <2>2, <2>4, RowsMove
  <2>. QED BY <1>1, <1>14, <2>1, <2>3, <2>5, ProofKept DEF Claim
<1>15. CASE Process(p)
  <2>1. at'[q] \in Asks => at[q] \in Asks /\ generation'[q] = generation[q]
        BY <1>3, <1>15 DEF Process, Asks
  <2>2. {job[p]} \subseteq In("working") /\ Move({job[p]}, "done")
        BY <1>15 DEF Hands, Process
  <2>3. seen'[q] \subseteq seen[q] /\ seen'[q] \subseteq In("ready")'
        BY <2>2, OwedAreReady
  <2>4. In("answer")' = In("answer") BY <2>2, RowsMove
  <2>. QED BY <1>1, <1>15, <2>1, <2>3, <2>4, ProofKept DEF Process
<1>. QED BY <1>5, <1>6, <1>8, <1>9, <1>10, <1>11, <1>12, <1>13, <1>14, <1>15
         DEF ProcessorStep

\* The fetcher: a claim under an open lease that takes less than it asked for
\* has taken all that was ready, and with it what everybody was owed who had
\* asked before; the probe tells such a claim from one under a closed lease.
LEMMA FetcherProofs ==
    ASSUME IntakeTypes, Fetch, Proofs, FetcherStep
    PROVE  Proofs'
<1>. USE DEF environment, intake, slots, fetching, Nobody, Stay
<1>0. SUFFICES ASSUME NEW q \in Processor PROVE ProofFor(q)'
      BY DEF Proofs
<1>1. ProofFor(q) BY DEF Proofs
<1>2. /\ UNCHANGED <<at, generation, leased>>
      /\ Cardinality({}) = 0 /\ Cardinality(In("answer")) \in Nat
      /\ want \in Nat /\ fetchGeneration \in Nat /\ drainedGeneration \in Nat
      /\ generation[q] \in Nat
  <2>1. /\ Cardinality({}) = 0 /\ Cardinality(In("answer")) \in Nat
        BY FS_EmptySet, RowsFinite
  <2>2. /\ want \in Nat /\ fetchGeneration \in Nat /\ drainedGeneration \in Nat
        /\ generation[q] \in Nat
        BY ProcessorsFinite DEF IntakeTypes
  <2>3. UNCHANGED <<at, generation, leased>>
        BY DEF FetcherStep, DemandSnapshot, ClaimCommits,
           ProbeAnswers, FoundNothing, FoundUnclaimable, FoundClosed, Extend,
           Refilled, DequeueFails, Poll, FetcherStops, DrainOnShutdown
  <2>. QED BY <2>1, <2>2, <2>3
<1>3. ASSUME UNCHANGED <<place, seen>>
      PROVE  /\ seen'[q] = seen[q] /\ seen'[q] \subseteq In("ready")'
             /\ In("answer")' = In("answer")
      BY <1>1, <1>3 DEF ProofFor, In
\* Where the fetch is over nothing is to be said of it.
<1>4. ASSUME seen'[q] \subseteq seen[q], seen'[q] \subseteq In("ready")',
             fetcher' \notin {"claimed", "answered", "extended"},
             \/ UNCHANGED drainedGeneration
             \/ ProveDrain /\ (at[q] \in Asks =>
                    (generation[q] <= fetchGeneration => seen[q] = {}))
      PROVE  ProofFor(q)'
  <2>1. seen[q] = {} => seen'[q] = {} BY <1>4
  <2>2. Asks' = Asks BY DEF Asks
  <2>3. at[q] \in Asks /\ generation[q] <= drainedGeneration' => seen[q] = {}
        BY <1>1, <1>2, <1>4 DEF ProveDrain, ProofFor
  <2>. QED BY <1>2, <1>4, <2>1, <2>2, <2>3 DEF ProofFor
\* An empty answer under an open lease proves the drain.
<1>5. ASSUME fetcher = "answered", In("answer") = {}, answer.open,
             at[q] \in Asks, generation[q] <= fetchGeneration
      PROVE  seen[q] = {}
  <2>1. want > 0 BY <1>5 DEF Fetch
  <2>2. Cardinality(In("answer")) < want BY <1>2, <1>5, <2>1
  <2>. QED BY <1>1, <1>5, <2>2 DEF ProofFor
<1>6. CASE DemandSnapshot BY <1>3, <1>4, <1>6 DEF DemandSnapshot
<1>7. CASE ClaimCommits
  <2>0. In("answer") = {} BY <1>7 DEF ClaimCommits, Fetch
  <2>1. PICK rows \in SUBSET In("ready") :
          /\ Move(rows, "answer")
          /\ \/ Cardinality(rows) = (IF leased THEN want ELSE 0)
             \/ /\ rows = In("ready")
                /\ Cardinality(rows) < (IF leased THEN want ELSE 0)
        BY <1>7 DEF ClaimCommits
  <2>2. rows \subseteq In("ready") BY <2>1
  <2>3. In("answer")' = In("answer") \cup rows BY <2>1, <2>2, RowsMove
  <2>4. In("answer")' = rows BY <2>0, <2>3
  <2>5. IsFiniteSet(rows) /\ Cardinality(rows) \in Nat
        BY <2>2, RowsFinite, FS_Subset, FS_CardinalityType
  <2>6. seen'[q] = seen[q] \ rows BY <2>1, SeenShrinks
  <2>7. seen'[q] \subseteq seen[q] /\ seen'[q] \subseteq In("ready")'
        BY <2>1, OwedAreReady
  <2>8. ASSUME Cardinality(rows) < want, leased PROVE seen'[q] = {}
    <3>1. rows = In("ready") BY <1>2, <2>1, <2>5, <2>8
    <3>. QED BY <1>1, <2>6, <3>1 DEF ProofFor
  <2>9. ASSUME ~leased PROVE In("answer")' = {}
    <3>1. Cardinality(rows) = 0 BY <2>1, <2>5, <2>9
    <3>2. rows = {} BY <3>1, <2>5, FS_EmptySet
    <3>. QED BY <2>4, <3>2
  <2>10. /\ fetcher' = "claimed"
         /\ UNCHANGED <<want, fetchGeneration, drainedGeneration>>
         BY <1>7 DEF ClaimCommits
  <2>11. seen[q] = {} => seen'[q] = {} BY <2>7
  <2>12. Asks' = Asks BY DEF Asks
  <2>. QED BY <1>1, <1>2, <2>4, <2>7, <2>8, <2>9, <2>10, <2>11, <2>12
           DEF ProofFor
<1>8. CASE ProbeAnswers
  <2>1. /\ fetcher = "claimed" /\ fetcher' = "answered"
        /\ UNCHANGED <<place, seen, want, fetchGeneration, drainedGeneration>>
        BY <1>8 DEF ProbeAnswers
  <2>2. ASSUME Cardinality(In("answer")) < want,
               ~leased /\ In("answer") = {}
        PROVE  ~answer'.open
    <3>1. Cardinality(In("answer")) = 0 BY <1>2, <2>2
    <3>2. answer' = [open |-> leased,
                     work |-> In("ready") \cup In("held") # {}]
          BY <1>2, <1>8, <2>2, <3>1 DEF ProbeAnswers
    <3>3. answer'.open = leased BY <3>2
    <3>. QED BY <2>2, <3>3
  <2>3. Asks' = Asks BY DEF Asks
  <2>. QED BY <1>1, <1>2, <1>3, <2>1, <2>2, <2>3 DEF ProofFor
<1>9. CASE FoundNothing BY <1>3, <1>4, <1>5, <1>9 DEF FoundNothing
<1>10. CASE FoundUnclaimable BY <1>3, <1>4, <1>5, <1>10 DEF FoundUnclaimable
<1>11. CASE FoundClosed BY <1>3, <1>4, <1>11 DEF FoundClosed
<1>12. CASE Extend
  <2>1. Move(In("answer"), "buffer") BY <1>12 DEF Extend
  <2>2. seen'[q] \subseteq seen[q] /\ seen'[q] \subseteq In("ready")'
        BY <2>1, OwedAreReady
  <2>3. /\ fetcher = "answered" /\ In("answer") # {} /\ fetcher' = "extended"
        /\ want' = want - Cardinality(In("answer"))
        /\ UNCHANGED <<fetchGeneration, drainedGeneration>>
        BY <1>12 DEF Extend
  <2>4. want' > 0 => Cardinality(In("answer")) < want BY <1>2, <2>3
  <2>5. seen[q] = {} => seen'[q] = {} BY <2>2
  <2>6. Asks' = Asks BY DEF Asks
  <2>. QED BY <1>1, <1>2, <2>2, <2>3, <2>4, <2>5, <2>6 DEF ProofFor
<1>13. CASE Refilled
  <2>1. fetcher' \notin {"claimed", "answered", "extended"}
        BY <1>13 DEF Refilled, RefilledUnlessStopped
  <2>2. want > 0 /\ at[q] \in Asks /\ generation[q] <= fetchGeneration
          => seen[q] = {}
        BY <1>1, <1>13 DEF Refilled, ProofFor
  <2>. QED BY <1>3, <1>4, <1>13, <2>1, <2>2 DEF Refilled
<1>14. CASE DequeueFails BY <1>3, <1>4, <1>14 DEF DequeueFails
<1>15. CASE Poll BY <1>3, <1>4, <1>15 DEF Poll
<1>16. CASE FetcherStops BY <1>3, <1>4, <1>16 DEF FetcherStops
<1>17. CASE DrainOnShutdown
  <2>1. CASE \E r \in In("buffer") :
               db /\ Move({r}, "returned") /\ UNCHANGED fetcher
    <3>1. PICK r \in In("buffer") : Move({r}, "returned") /\ fetcher' = fetcher
          BY <2>1
    <3>2. seen'[q] \subseteq seen[q] /\ seen'[q] \subseteq In("ready")'
          BY <3>1, OwedAreReady
    <3>. QED BY <1>4, <1>17, <3>1, <3>2 DEF DrainOnShutdown
  <2>2. CASE In("buffer") = {} /\ fetcher' = "exited" /\ Stay
        BY <1>3, <1>4, <1>17, <2>2 DEF DrainOnShutdown
  <2>. QED BY <1>17, <2>1, <2>2 DEF DrainOnShutdown
<1>. QED BY <1>6, <1>7, <1>8, <1>9, <1>10, <1>11, <1>12, <1>13, <1>14, <1>15,
            <1>16, <1>17 DEF FetcherStep

\* The surroundings take rows from what is owed and add none; when the lease
\* changes, nothing has been claimable ever since.
LEMMA OutsideProofs ==
    ASSUME IntakeTypes, Fetch, Proofs, UNCHANGED burst,
           Freeze \/ BudgetOver \/ Surroundings
    PROVE  Proofs'
<1>. USE DEF environment, intake, slots, fetching, Stay
<1>0. SUFFICES ASSUME NEW q \in Processor PROVE ProofFor(q)'
      BY DEF Proofs
<1>1. ProofFor(q) BY DEF Proofs
<1>2. In("answer")' = In("answer") BY OutsideFetch
<1>3. UNCHANGED <<fetcher, want, fetchGeneration, drainedGeneration, answer,
                  at, generation>>
      BY DEF Freeze, BudgetOver, Surroundings
<1>4. CASE leased' = leased
  <2>1. seen'[q] \subseteq seen[q] /\ seen'[q] \subseteq In("ready")'
    <3>1. CASE UNCHANGED <<place, seen>> BY <1>1, <3>1 DEF ProofFor, In
    <3>2. CASE \E r, to : Move({r}, to) BY <3>2, OwedAreReady
    <3>3. CASE seen' = [s \in Processor |-> {}] BY <3>3
    <3>. QED BY <3>1, <3>2, <3>3 DEF Freeze, BudgetOver, Surroundings
  <2>. QED BY <1>1, <1>2, <1>3, <1>4, <2>1, ProofKept
<1>5. CASE leased' # leased
  <2>1. seen' = [s \in Processor |-> {}]
        BY <1>5 DEF Freeze, BudgetOver, Surroundings
  <2>2. seen'[q] = {} BY <2>1
  <2>. QED BY <2>2 DEF ProofFor
<1>. QED BY <1>4, <1>5

-----------------------------------------------------------------------------
(***************************************************************************)
(* The theorems                                                            *)
(***************************************************************************)

\* It holds at the start.
LEMMA IntakeInvInit ==
    ASSUME IntakeInit
    PROVE  IntakeInv
<1>. USE DEF IntakeInit
<1>1. Cardinality({}) = 0 BY FS_EmptySet
<1>2. Cardinality(Processor) \in Nat BY ProcessorsFinite
<1>3. IntakeTypes
  <2>1. answer \in [open : BOOLEAN, work : BOOLEAN]
    <3>1. \E o, w \in BOOLEAN : answer = [open |-> o, work |-> w] BY Zenon
    <3>. QED BY <3>1
  <2>2. /\ beating \in BOOLEAN /\ leased \in BOOLEAN /\ burst \in BOOLEAN
        /\ db \in BOOLEAN /\ stopping \in BOOLEAN /\ permit \in BOOLEAN
        /\ stop \in BOOLEAN
        BY Zenon
  <2>3. place \in [Row -> Place] BY DEF Place
  <2>4. /\ late \in [Processor -> BOOLEAN]
        /\ notified \in [Processor -> BOOLEAN]
        /\ seen \in [Processor -> SUBSET Row]
        OBVIOUS
  <2>5. /\ unclaimable \in Budget /\ failing \in Budget /\ shutout \in Budget
        /\ fetcher \in {"top", "asked", "claimed", "answered", "extended",
                        "select", "draining", "exited"}
        BY DEF Budget
  <2>6. /\ at \in [Processor -> {"top", "asking", "enabled", "looked",
                                  "waiting", "working", "drained", "exited"}]
        /\ generation \in [Processor -> 0..demandGeneration]
        /\ job \in [Processor -> Row \cup {NoJob}]
        OBVIOUS
  <2>7. /\ changes \in 0..MaxChanges /\ idle \in Nat
        /\ demandGeneration \in Nat /\ budget \in Nat
        /\ drainedGeneration \in 0..demandGeneration
        /\ want \in 0..Cardinality(Processor)
        /\ fetchGeneration \in 0..demandGeneration
        BY <1>2, IntakeAssumption
  <2>. QED BY <2>1, <2>2, <2>3, <2>4, <2>5, <2>6, <2>7 DEF IntakeTypes
<1>4. \A x : x \notin {"future", "ready"} => In(x) = {} BY DEF In
<1>5. Taken = {} BY <1>4 DEF Taken
<1>6. /\ AtIn(Asks) = {} /\ AtIn(Asked) = {} /\ AtIn(Reserved) = {}
      BY DEF AtIn, Asks, Asked, Reserved
<1>7. Counts BY <1>1, <1>5, <1>6, IntakeAssumption DEF Counts
<1>8. Hands BY <1>4 DEF Hands
<1>9. In("answer") = {} /\ In("buffer") = {} BY <1>4
<1>10. Fetch
  <2>1. stopping = stop /\ \A p \in Processor : ~late[p] BY Zenon
  <2>2. idle = 0 /\ want = 0 /\ fetcher = "top" OBVIOUS
  <2>. HIDE DEF IntakeInit
  <2>. QED BY <1>1, <1>9, <2>1, <2>2 DEF Fetch
<1>11. Wakeups BY DEF Wakeups
<1>12. Proofs BY DEF Proofs, ProofFor, Asks
<1>. QED BY <1>3, <1>7, <1>8, <1>10, <1>11, <1>12 DEF IntakeInv

\* Every step keeps it.
LEMMA IntakeInvNext ==
    ASSUME IntakeInv, IntakeNext
    PROVE  IntakeInv'
<1>0. UNCHANGED burst BY DEF IntakeNext
<1>1. ASSUME NEW p \in Processor, ProcessorStep(p) \/ DeadlinePasses(p)
      PROVE  IntakeInv'
      BY <1>0, <1>1, ProcessorTypes, ProcessorCounts, ProcessorHands,
         ProcessorFetch, ProcessorWakeups, ProcessorProofs DEF IntakeInv
<1>2. CASE FetcherStep
      BY <1>0, <1>2, FetcherTypes, OutsideLeavesTaken, NobodyCounts,
         FetcherFetch, FetcherWakeups, FetcherProofs DEF IntakeInv
<1>3. CASE Freeze \/ BudgetOver \/ Surroundings
      BY <1>0, <1>3, OutsideTypes, OutsideLeavesTaken, NobodyCounts,
         OutsideFetch, OutsideWakeups, OutsideProofs DEF IntakeInv
<1>. QED BY <1>1, <1>2, <1>3 DEF IntakeNext, StopAsked, StopIntake

\* A step that changes nothing changes none of it.
LEMMA IntakeInvStutter ==
    ASSUME IntakeInv, UNCHANGED <<burst, intakeVars>>
    PROVE  IntakeInv'
<1>. USE DEF intakeVars, environment, intake, slots, fetching
<1>1. \A x : In(x)' = In(x) BY RowsStay
<1>2. Taken' = Taken BY <1>1 DEF Taken
<1>3. IntakeTypes' BY DEF IntakeInv, IntakeTypes
<1>4. Counts' /\ Hands' BY <1>1, NobodyCounts DEF IntakeInv
<1>5. Fetch' BY <1>1 DEF IntakeInv, Fetch
<1>6. Wakeups' BY <1>1 DEF IntakeInv, Wakeups
<1>7. Proofs' BY <1>1 DEF IntakeInv, Proofs, ProofFor, Asks
<1>. QED BY <1>3, <1>4, <1>5, <1>6, <1>7 DEF IntakeInv

\* So it holds throughout.
LEMMA IntakeInvariant == IntakeSpec => []IntakeInv
<1>1. IntakeInit => IntakeInv BY IntakeInvInit
<1>2. IntakeInv /\ [IntakeNext]_<<burst, intakeVars>> => IntakeInv'
      BY IntakeInvNext, IntakeInvStutter
<1>. QED BY <1>1, <1>2, PTL DEF IntakeSpec

\* The bounds of the type invariant are what the counts say.
LEMMA IntakeBounds ==
    ASSUME IntakeInv
    PROVE  IntakeTypeOK
<1>1. /\ Cardinality(Taken) \in Nat /\ Cardinality(Taken) <= Cardinality(Row)
      /\ Cardinality(Row) \in Nat
      BY TakenFinite, IntakeAssumption, FS_CardinalityType
<1>2. \A A : /\ Cardinality(AtIn(A)) \in Nat
             /\ Cardinality(AtIn(A)) <= Cardinality(Processor)
             /\ Cardinality(Processor) \in Nat
      BY ProcessorsFinite
<1>3. idle \in 0..Cardinality(Processor)
      BY <1>2 DEF IntakeInv, IntakeTypes, Counts
<1>4. demandGeneration \in 0..MaxGeneration
      BY <1>1, <1>2 DEF IntakeInv, IntakeTypes, Counts, MaxGeneration
<1>5. budget \in 0..MaxBurstJobs
  <2>1. budget \in Nat /\ MaxBurstJobs \in Nat
        BY IntakeAssumption DEF IntakeInv, IntakeTypes
  <2>2. CASE burst
        BY <1>1, <1>2, <2>1, <2>2 DEF IntakeInv, Counts
  <2>3. CASE ~burst BY <2>1, <2>3 DEF IntakeInv, Counts
  <2>. QED BY <2>2, <2>3
<1>6. {db, leased, beating, stopping, permit, stop} \subseteq BOOLEAN
      BY Zenon DEF IntakeInv, IntakeTypes
<1>7. {unclaimable, failing, shutout} \subseteq Budget
      BY DEF IntakeInv, IntakeTypes
<1>. QED BY <1>3, <1>4, <1>5, <1>6, <1>7
         DEF IntakeInv, IntakeTypes, IntakeTypeOK

(***************************************************************************)
(* In every state of the intake, for any number of rows and processors and *)
(* any cap on a burst: no processor sleeps beside a buffered row that      *)
(* nobody will tell it of, the fetcher does not sleep beside demand it has *)
(* not seen, a continuous worker has no more rows committed than it has    *)
(* processors waiting, and a burst takes no more than its cap.             *)
(***************************************************************************)
THEOREM IntakeKeepsPromises == IntakeSpec => []IntakeSafety
<1>1. IntakeInv => IntakeSafety
  <2>. SUFFICES ASSUME IntakeInv PROVE IntakeSafety
       OBVIOUS
  <2>1. IntakeTypeOK BY IntakeBounds
  <2>2. NoLostWakeup BY DEF NoLostWakeup, IntakeInv, Wakeups
  <2>3. DemandIsHeard BY DEF DemandIsHeard, IntakeInv, Wakeups
  <2>4. ClaimedForAWaiter BY DEF ClaimedForAWaiter, IntakeInv, Fetch
  <2>5. BurstBudgetKept
    <3>1. In("working") \cap In("done") = {} BY DEF In
    <3>2. Cardinality(In("working") \cap In("done")) = 0
          BY <3>1, FS_EmptySet
    <3>3. Cardinality(Taken) = Cardinality(In("working"))
              + Cardinality(In("done"))
              - Cardinality(In("working") \cap In("done"))
          BY RowsFinite, FS_Union DEF Taken
    <3>4. /\ Cardinality(In("working")) \in Nat
          /\ Cardinality(In("done")) \in Nat
          /\ Cardinality(AtIn(Reserved)) \in Nat
          /\ budget \in Nat /\ MaxBurstJobs \in Nat
          BY RowsFinite, ProcessorsFinite, IntakeAssumption
          DEF IntakeInv, IntakeTypes
    <3>5. burst => budget + Cardinality(AtIn(Reserved)) + Cardinality(Taken)
                     = MaxBurstJobs
          BY DEF IntakeInv, Counts
    <3>. QED BY <3>2, <3>3, <3>4, <3>5 DEF BurstBudgetKept
  <2>. QED BY <2>1, <2>2, <2>3, <2>4, <2>5 DEF IntakeSafety
<1>. QED BY <1>1, IntakeInvariant, PTL

(***************************************************************************)
(* When the fetcher and every processor of a worker are gone, no row that  *)
(* was committed to the worker is left in an answer, in the buffer or with *)
(* a processor: drain_on_shutdown ran after the last dequeue, and whoever  *)
(* had a row finished it.                                                  *)
(***************************************************************************)
THEOREM NoRowStranded == IntakeSpec => []NothingStranded
<1>1. IntakeInv => NothingStranded
  <2>. SUFFICES ASSUME IntakeInv, fetcher = "exited", Gone = Processor
                PROVE  In("answer") \cup In("buffer") \cup In("working") = {}
       BY DEF NothingStranded
  <2>1. In("answer") = {} /\ In("buffer") = {} BY DEF IntakeInv, Fetch
  <2>2. \A p \in Processor : at[p] # "working" BY DEF Gone
  <2>3. In("working") = {} BY <2>2 DEF IntakeInv, Hands
  <2>. QED BY <2>1, <2>3
<1>. QED BY <1>1, IntakeInvariant, PTL

\* A burst's processor that reports the queue drained is owed nothing.
LEMMA DrainedOwesNothing ==
    ASSUME IntakeInv, IntakeNext, NEW p \in Processor,
           at[p] # "drained", at'[p] = "drained"
    PROVE  seen[p] = {}
<1>. USE DEF environment, intake, slots, fetching, Nobody, Stay
<1>1. ASSUME NEW q \in Processor, ProcessorStep(q) \/ DeadlinePasses(q)
      PROVE  Drained(q) /\ q = p
  <2>1. ASSUME NEW to, Goto(q, to) PROVE q = p /\ to = "drained"
        BY <2>1 DEF Goto, IntakeInv, IntakeTypes
  <2>2. CASE StartLoop(q) BY <2>1, <2>2 DEF StartLoop, Reserve
  <2>3. CASE RegisterDemand(q) BY <2>1, <2>3 DEF RegisterDemand
  <2>4. CASE StopSeen(q) BY <2>1, <2>4 DEF StopSeen, Leave
  <2>5. CASE Claim(q) BY <2>1, <2>5 DEF Claim
  <2>6. CASE Drained(q) BY <2>1, <2>6 DEF Drained, Leave
  <2>7. CASE Look(q) BY <2>1, <2>7 DEF Look
  <2>8. CASE Sleep(q) BY <2>1, <2>8 DEF Sleep
  <2>9. CASE Wake(q) BY <2>1, <2>9 DEF Wake
  <2>10. CASE Process(q) BY <2>1, <2>10 DEF Process
  <2>11. CASE DeadlinePasses(q) BY <2>1, <2>11 DEF DeadlinePasses
  <2>. QED BY <1>1, <2>2, <2>3, <2>4, <2>5, <2>6, <2>7, <2>8, <2>9, <2>10,
              <2>11 DEF ProcessorStep
<1>2. ASSUME FetcherStep \/ Freeze \/ BudgetOver \/ Surroundings
      PROVE  FALSE
  <2>1. at' = at BY <1>2, OutsideLeavesTaken DEF IntakeInv
  <2>. QED BY <2>1
<1>3. Drained(p)
  <2>1. CASE \E q \in Processor : ProcessorStep(q) \/ DeadlinePasses(q)
    <3>1. PICK q \in Processor : ProcessorStep(q) \/ DeadlinePasses(q) BY <2>1
    <3>2. Drained(q) /\ q = p BY <1>1, <3>1
    <3>. QED BY <3>2, Zenon
  <2>2. CASE FetcherStep \/ Freeze \/ BudgetOver \/ Surroundings
        BY <1>2, <2>2
  <2>. QED BY <2>1, <2>2 DEF IntakeNext, StopAsked, StopIntake
<1>4. generation[p] <= drainedGeneration /\ at[p] \in Asks
      BY <1>3 DEF Drained, DemandIsDrained, Asks, IntakeInv, IntakeTypes
<1>. QED BY <1>4 DEF IntakeInv, Proofs, ProofFor

(***************************************************************************)
(* next_job reports Drained only when no row that was ready as the         *)
(* processor asked, and could be claimed ever since, is still there: the   *)
(* proof covers exactly the demand its fetch was begun for, however many   *)
(* processors asked while it was under way.                                *)
(***************************************************************************)
THEOREM DrainsAreProved == IntakeSpec => DrainIsProved
<1>1. IntakeInv /\ [IntakeNext]_<<burst, intakeVars>> =>
        [\A p \in Processor :
            at[p] # "drained" /\ at'[p] = "drained" => seen[p] = {}]_intakeVars
      BY DrainedOwesNothing DEF intakeVars, slots
<1>. QED BY <1>1, IntakeInvariant, PTL DEF IntakeSpec, DrainIsProved
=============================================================================
