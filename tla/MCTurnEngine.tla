---------------------------- MODULE MCTurnEngine ----------------------------
(***************************************************************************)
(* Instances of TurnEngine for TLC.  A call stands for its class: plain is *)
(* allowed, idem is allowed and idempotent, human needs a confirmation and *)
(* refused is denied by the policy.                                        *)
(***************************************************************************)
EXTENDS TurnEngine

CONSTANTS plain, idem, human, refused

IdemAndHuman    == {idem, human}
PlainIdemHuman  == {plain, idem, human}
PlainIdemRefused == {plain, idem, refused}
Nobody      == {}
OnlyPlain   == {plain}
OnlyIdem    == {idem}
OnlyHuman   == {human}
OnlyRefused == {refused}

(* A provider that numbers the calls of each answer anew: their ids are    *)
(* unique in an answer only.                                               *)
ReusesIds == \E batch \in BoundedSeq(Calls, MaxBatch) : ModelAnswers(batch)
ReusingSpec == Init /\ [][Next \/ ReusesIds]_vars

(* FR-DU-004: each time the engine sent a call to its tool, the stored     *)
(* history tells the model of a result, or the write-ahead still stands    *)
(* for one to come.                                                        *)
EveryEffectIsTold ==
  \A c \in Calls \ Idempotent :
    invoked[c] <= Len(SelectSeq(store.msgs, LAMBDA m : m.call = c)) + (IF store.wa = c THEN 1 ELSE 0)
=============================================================================
