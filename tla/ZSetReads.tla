------------------------------- MODULE ZSetReads -------------------------------
(***************************************************************************)
(* The commands that read a sorted set by rank, score or member: ZRANK,    *)
(* ZREVRANK, ZCOUNT and ZRANGE with its modes and options, and a client    *)
(* that pages through a range with LIMIT.                                  *)
(*                                                                         *)
(* A member is the number of its place in the binary order of the members, *)
(* so CompareBinaryLex is <; scores are integers, and the infinities are   *)
(* the two integers next to the finite ones.                               *)
(***************************************************************************)
EXTENDS Integers, SequencesExt

CONSTANTS
    ZMembers,    \* the members, as numbers
    ScoreLimit,   \* the largest finite score
    MaxIndex,   \* bound: the largest rank given to ZRANGE
    PageSizes   \* the counts given to LIMIT; a negative one means "all"

(* A page of no entries would never bring a client further.                *)
ASSUME ReadAssumption ==
    /\ ZMembers \subseteq Int /\ IsFiniteSet(ZMembers)
    /\ ScoreLimit \in Nat
    /\ MaxIndex \in Nat
    /\ PageSizes \subseteq Int \ {0}

ZScores == -ScoreLimit .. ScoreLimit
PosInf == ScoreLimit + 1
NegInf == -PosInf

(* ScoreBound, and LexBound with "-" and "+" as values beyond every member. *)
LowestMember == -1
HighestMember == Cardinality(ZMembers) + 1
Bound(values) == [val : values, inclusive : BOOLEAN]
ScoreBounds == Bound(ZScores \cup {NegInf, PosInf})
LexBounds ==
    Bound(ZMembers) \cup [val : {LowestMember, HighestMember}, inclusive : {TRUE}]

AboveLower(x, lower) == IF lower.inclusive THEN x >= lower.val ELSE x > lower.val
BelowUpper(x, upper) == IF upper.inclusive THEN x <= upper.val ELSE x < upper.val

ScoreInRange(score, lower, upper) == AboveLower(score, lower) /\ BelowUpper(score, upper)
LexInRange(member, lower, upper) == AboveLower(member, lower) /\ BelowUpper(member, upper)

-----------------------------------------------------------------------------
(* A sorted set is a function from its members to their scores.            *)
ZSets == UNION {[S -> ZScores] : S \in SUBSET ZMembers}

(* std::sort of the members in S: all of them, in the order `before`.      *)
Sorted(S, before) ==
    CHOOSE s \in [1 .. Cardinality(S) -> S] :
        /\ \A i \in DOMAIN s : \A j \in i + 1 .. Cardinality(S) : <<s[i], s[j]>> \in before
        /\ \A m \in S : \E i \in DOMAIN s : s[i] = m

(* The comparisons the two sorts are given, as sets of ordered pairs.      *)
LexOrder(zset) == {p \in (DOMAIN zset) \X (DOMAIN zset) : p[1] < p[2]}

ScoreOrder(zset) ==
    {p \in (DOMAIN zset) \X (DOMAIN zset) :
        IF zset[p[1]] # zset[p[2]] THEN zset[p[1]] < zset[p[2]] ELSE p[1] < p[2]}

EntriesByLex(zset) == Sorted(DOMAIN zset, LexOrder(zset))

(* Mutant: equal scores keep the order in which the members were visited.  *)
EntriesByScoreOnly(zset) ==
    Sorted(DOMAIN zset, {p \in (DOMAIN zset) \X (DOMAIN zset) :
                            zset[p[1]] < zset[p[2]] \/ (zset[p[1]] = zset[p[2]] /\ p[1] > p[2])})

EntriesByScore(zset) == Sorted(DOMAIN zset, ScoreOrder(zset))

EntriesByScoreReverse(zset) == Reverse(EntriesByScore(zset))

(* The entries that belong to wanted, in their order.                      *)
Filtered(entries, wanted) ==
    LET kept[i \in 0 .. Len(entries)] ==
            IF i = 0 THEN <<>>
            ELSE IF entries[i] \in wanted THEN Append(kept[i - 1], entries[i])
            ELSE kept[i - 1]
    IN  kept[Len(entries)]

FilterByScore(zset, entries, lower, upper) ==
    Filtered(entries, {m \in DOMAIN zset : ScoreInRange(zset[m], lower, upper)})

FilterByLex(entries, lower, upper) ==
    Filtered(entries, {m \in ToSet(entries) : LexInRange(m, lower, upper)})

(* Ranks count from 0, negative ones from the end.                         *)
ApplyRankRange(entries, start, stop) ==
    LET size == Len(entries)
        fromStart == IF start < 0 THEN start + size ELSE start
        fromStop == IF stop < 0 THEN stop + size ELSE stop
        first == IF fromStart < 0 THEN 0 ELSE fromStart
        last == IF fromStop >= size THEN size - 1 ELSE fromStop
    IN  IF size = 0 \/ fromStop < 0 \/ first >= size \/ first > last
        THEN <<>>
        ELSE SubSeq(entries, first + 1, last + 1)

(* A negative count means no limit.                                        *)
ApplyLimit(entries, offset, count) ==
    IF offset < 0 \/ count = 0 \/ offset >= Len(entries) THEN <<>>
    ELSE SubSeq(entries, offset + 1,
                IF count > 0 /\ count < Len(entries) - offset THEN offset + count
                ELSE Len(entries))

(* The rank of a member, or -1 for the null reply.                         *)
RankResponse(zset, member, reverse) ==
    LET entries == IF reverse THEN EntriesByScoreReverse(zset) ELSE EntriesByScore(zset)
    IN  IF member \in DOMAIN zset
        THEN (CHOOSE i \in DOMAIN entries : entries[i] = member) - 1
        ELSE -1

ZCount(zset, lower, upper) ==
    Cardinality({m \in DOMAIN zset : ScoreInRange(zset[m], lower, upper)})

(* ZRANGE.  With REV the arguments come in the order maximum, minimum.     *)
NoLimit == [set |-> FALSE, offset |-> 0, count |-> 0]
Limit(offset, count) == [set |-> TRUE, offset |-> offset, count |-> count]

ZRangeByRank(zset, start, stop, rev) ==
    ApplyRankRange(IF rev THEN EntriesByScoreReverse(zset) ELSE EntriesByScore(zset),
                   start, stop)

(* Mutant: REV does not exchange the bounds.                               *)
ZRangeUnswapped(zset, mode, first, second, rev, limit) ==
    LET found == IF mode = "BYSCORE"
                 THEN FilterByScore(zset, EntriesByScore(zset), first, second)
                 ELSE FilterByLex(EntriesByLex(zset), first, second)
        entries == IF rev THEN Reverse(found) ELSE found
    IN  IF limit.set THEN ApplyLimit(entries, limit.offset, limit.count) ELSE entries

ZRangeByBounds(zset, mode, first, second, rev, limit) ==
    LET lower == IF rev THEN second ELSE first
        upper == IF rev THEN first ELSE second
        found == IF mode = "BYSCORE"
                 THEN FilterByScore(zset, EntriesByScore(zset), lower, upper)
                 ELSE FilterByLex(EntriesByLex(zset), lower, upper)
        entries == IF rev THEN Reverse(found) ELSE found
    IN  IF limit.set THEN ApplyLimit(entries, limit.offset, limit.count) ELSE entries

-----------------------------------------------------------------------------
(* A client reads a range of a sorted set that does not change: by rank at *)
(* once, by score or member in pages.                                      *)

VARIABLES stored, mode, first, second, rev, count, pages, done

readVars == <<stored, mode, first, second, rev, count, pages, done>>

Arguments(m) ==
    CASE m = "RANK" -> -MaxIndex .. MaxIndex
      [] m = "BYSCORE" -> ScoreBounds
      [] m = "BYLEX" -> LexBounds

ReadInit ==
    /\ stored \in ZSets
    /\ mode \in {"RANK", "BYSCORE", "BYLEX"}
    /\ first \in Arguments(mode)
    /\ second \in Arguments(mode)
    /\ rev \in BOOLEAN
    /\ count \in IF mode = "RANK" THEN {0} ELSE PageSizes
    /\ pages = <<>>
    /\ done = FALSE

(* LIMIT is refused without BYSCORE or BYLEX.                              *)
ReadRanks ==
    /\ ~done /\ mode = "RANK"
    /\ pages' = ZRangeByRank(stored, first, second, rev)
    /\ done' = TRUE
    /\ UNCHANGED <<stored, mode, first, second, rev, count>>

(* The next page starts after the entries the client has got; the client   *)
(* stops at an empty page, or after the only page of an unlimited request. *)
Page ==
    /\ ~done /\ mode # "RANK"
    /\ LET page == ZRangeByBounds(stored, mode, first, second, rev, Limit(Len(pages), count))
       IN  /\ pages' = pages \o page
           /\ done' = (page = <<>> \/ count < 0)
    /\ UNCHANGED <<stored, mode, first, second, rev, count>>

ReadNext == ReadRanks \/ Page

ReadSpec == ReadInit /\ [][ReadNext]_readVars

-----------------------------------------------------------------------------
(* Reading page by page with LIMIT gives exactly the range that ZRANGE     *)
(* gives at once: no entry is skipped or repeated at a page boundary.      *)
PagesCoverRange ==
    done /\ mode # "RANK" =>
        pages = ZRangeByBounds(stored, mode, first, second, rev, NoLimit)

(* ZRANGE with REV is the same range backwards, in every mode: by score    *)
(* and member with the bounds in the order maximum, minimum, by rank with  *)
(* position i from the end named -1 - i.                                   *)
RevReadsBackwards ==
    done /\ rev =>
        pages = Reverse(IF mode = "RANK" THEN ZRangeByRank(stored, -1 - second, -1 - first, FALSE)
                        ELSE ZRangeByBounds(stored, mode, second, first, FALSE, NoLimit))

(* ZRANGE by rank returns exactly the members whose rank (ZRANK, or        *)
(* ZREVRANK with REV) lies in the window, a negative index counting from   *)
(* the end, in the order of their ranks.                                   *)
RankWindow ==
    done /\ mode = "RANK" =>
        LET Rank == [m \in DOMAIN stored |-> RankResponse(stored, m, rev)]
            Index(i) == IF i < 0 THEN i + Cardinality(DOMAIN stored) ELSE i
            window == {m \in DOMAIN stored : Rank[m] \in Index(first) .. Index(second)}
        IN  /\ ToSet(pages) = window
            /\ Len(pages) = Cardinality(window)
            /\ \A i \in 1 .. Len(pages) - 1 : Rank[pages[i + 1]] = Rank[pages[i]] + 1

(* ZMembers with equal scores rank in member order, so that ranks do not    *)
(* depend on how the map was built: a member's rank is the number of       *)
(* members before it, and its reverse rank the number after it.            *)
RanksCountPredecessors ==
    \A m \in DOMAIN stored :
        LET before == {o \in DOMAIN stored : stored[o] < stored[m] \/ (stored[o] = stored[m] /\ o < m)}
        IN  /\ RankResponse(stored, m, FALSE) = Cardinality(before)
            /\ RankResponse(stored, m, TRUE) = Cardinality(DOMAIN stored) - 1 - Cardinality(before)

(* ZCOUNT counts what ZRANGE BYSCORE returns, and the scores below, within *)
(* and above a range, each with the complementary bound, add up to all.    *)
CountMatchesRange ==
    mode = "BYSCORE" =>
        /\ done => ZCount(stored, IF rev THEN second ELSE first, IF rev THEN first ELSE second)
                     = Len(pages)
        /\ first.val < second.val =>
             ZCount(stored, [val |-> NegInf, inclusive |-> TRUE], [first EXCEPT !.inclusive = ~@])
               + ZCount(stored, first, second)
               + ZCount(stored, [second EXCEPT !.inclusive = ~@], [val |-> PosInf, inclusive |-> TRUE])
             = Cardinality(DOMAIN stored)

(* ZRANGE in pages is ZRANGE at once, and with REV the range backwards.    *)
RangesAgree == PagesCoverRange /\ RevReadsBackwards

(* ZRANGE by rank, ZRANK, ZREVRANK and ZCOUNT agree with the order of the  *)
(* sorted set and with each other.                                         *)
RanksAndCountsAgree == RankWindow /\ RanksCountPredecessors /\ CountMatchesRange
=============================================================================
