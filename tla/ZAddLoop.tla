-------------------------------- MODULE ZAddLoop --------------------------------
(***************************************************************************)
(* The loop of ZADD over its score/member pairs, one iteration per step.   *)
(* SlotCommands states its result in closed form (ApplyScorePairs and      *)
(* ScoresChange); here the loop as coded is compared with it after every   *)
(* iteration, together with the counts ZADD replies with.                  *)
(***************************************************************************)
EXTENDS SlotCommands

CONSTANTS
    OptionSets,   \* the option sets of the instance
    InputLists    \* the lists of score/member pairs of the instance

ASSUME InputAssumption ==
    /\ OptionSets \subseteq SUBSET Options
    /\ InputLists \subseteq Seq(ScorePair)

VARIABLES
    opts, inputs, base,   \* the options, the pairs and the stored sorted set
    pairIndex,            \* the pairs applied so far
    zset,                 \* the local copy
    changed,              \* has any pair changed it?
    addedCount,           \* members that were added
    changedCount          \* scores of present members that were changed

loopVars == <<opts, inputs, base, pairIndex, zset, changed, addedCount, changedCount>>

LoopInit ==
    /\ opts \in {o \in OptionSets :
                   ~ZAddOptionError([Cmd("ZADD", CHOOSE k \in Keys : TRUE, {}) EXCEPT !.opts = o])}
    /\ inputs \in InputLists
    /\ base \in [Members -> Scores \cup {None}]
    /\ pairIndex = 0
    /\ zset = base
    /\ changed = FALSE
    /\ addedCount = 0
    /\ changedCount = 0

Input == inputs[pairIndex + 1]
Found == zset[Input.member]

Advance ==
    /\ pairIndex < Len(inputs)
    /\ pairIndex' = pairIndex + 1
    /\ UNCHANGED <<opts, inputs, base>>

Store ==
    /\ zset' = [zset EXCEPT ![Input.member] = Input.score]
    /\ changed' = TRUE

(* The member is missing and XX is not given.                              *)
AddMember ==
    /\ Advance
    /\ Found = None /\ "XX" \notin opts
    /\ Store
    /\ addedCount' = addedCount + 1
    /\ UNCHANGED changedCount

(* Mutants: NX is only looked at for missing members; a changed score is   *)
(* counted as an added member.                                             *)
SetScoreDespiteNX ==
    /\ Advance
    /\ Found # None
    /\ "GT" \in opts => Input.score > Found
    /\ "LT" \in opts => Input.score < Found
    /\ Input.score # Found
    /\ Store
    /\ changedCount' = changedCount + 1
    /\ UNCHANGED addedCount

(* The member is present and the options let the pair change its score.    *)
SetScore ==
    /\ Advance
    /\ Found # None
    /\ "NX" \notin opts
    /\ "GT" \in opts => Input.score > Found
    /\ "LT" \in opts => Input.score < Found
    /\ Input.score # Found
    /\ Store
    /\ changedCount' = changedCount + 1
    /\ UNCHANGED addedCount

(* Every other pair is skipped.                                            *)
SkipPair ==
    /\ Advance
    /\ IF Found = None THEN "XX" \in opts
       ELSE \/ "NX" \in opts
            \/ "GT" \in opts /\ ~(Input.score > Found)
            \/ "LT" \in opts /\ ~(Input.score < Found)
            \/ Input.score = Found
    /\ UNCHANGED <<zset, changed, addedCount, changedCount>>

LoopNext == AddMember \/ SetScore \/ SkipPair

LoopSpec == LoopInit /\ [][LoopNext]_loopVars

-----------------------------------------------------------------------------
(* The loop invariant: after any number of pairs the local copy and the    *)
(* flag are what the closed forms say of those pairs, so ZADD stores and   *)
(* logs exactly what SlotCommands!ZAdd says.                               *)
LoopMatchesClosedForm ==
    LET applied == SubSeq(inputs, 1, pairIndex)
    IN  /\ zset = ApplyScorePairs(opts, applied, base)
        /\ changed = ScoresChange(opts, applied, base)

(* The reply counts each new member once, however often it is named; a     *)
(* member that was present is never lost; and the flag that decides        *)
(* whether the slot is written agrees with the counts.                     *)
CountsMatch ==
    /\ addedCount = Cardinality({m \in Members : base[m] = None /\ zset[m] # None})
    /\ \A m \in Members : base[m] # None => zset[m] # None
    /\ changed <=> addedCount + changedCount > 0

(* ZADD's loop ends in the closed form that SlotCommands uses, with the    *)
(* counts it replies with.                                                 *)
ZAddIsClosedForm == LoopMatchesClosedForm /\ CountsMatch
=============================================================================
