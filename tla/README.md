# TLA+ models of cache_server

cache_server is an in-memory Redis-like cache with primary/replica
replication.  This directory holds TLA+ modules for it, the TLC runs that check
them on small instances, and TLAPS proofs, for every instance, of every safety
property the passing runs check: about slots and commands, replication, scans,
connections, the hand-over of sockets, the codecs, glob matching and the reads
of sorted sets.  `PROJECT.json` maps every definition to the lines it models.

## Inventory

| Part | State | Operations | Interacts with |
|---|---|---|---|
| Hash slot (`cache/hash_slot.cpp`) | immutable map, `published_seq_`, `slot_seq_`, binlog, two mutexes | Mutate, Del, Expire, DeleteExpired, Snapshot, log access, replica installs | commands, sweeper, replicators call it from different threads |
| Binlog (`cache/binlog.cpp`) | queue of records with sizes | Append, CopyAfter, AckThrough | inside a slot, under `write_mutex_` |
| Objects (`cache/redis_object.*`) | type, value, absolute deadline | IsExpired, WithDeadline | stored in slots |
| Engine (`cache/cache_engine.cpp`) | the slots | routing, operations over all slots | commands, sweeper, replicators |
| Commands (`command/*`) | none | one function per command; writes run inside Mutate | server, replica replay |
| SCAN, glob (`command/scan_cmd.cpp`, `common/glob_match.cpp`) | a cursor, kept by the client | one call visits some slots | clients |
| Sweeper (`expire/*`) | next slot | SweepOnce | a background thread of the primary |
| Primary replicator (`repl/master_replicator.*`) | session per replica id: positions sent and acknowledged, need for a snapshot, slot to resume at | Poll (answers a HELLO with a batch), Maintain (garbage collection, budget) | reads slots while clients write |
| Replica replicator (`repl/slave_replicator.*`) | session, state and position of every slot, a log-less engine | EnqueueFrame, Positions, ExecuteRead | link thread and client reads |
| Link (`repl/replication_link.cpp`, threads of `main.cpp`) | one connection | PollReplicaOnce, repeated every second | replica and primary |
| Frames, snapshot codec (`repl/repl_frame.*`, `repl/snapshot_codec.*`) | none | encode, decode | link, replicators |
| RESP codec (`protocol/resp_codec.cpp`) | buffered stream | AppendBytes, NextCommand | one per connection |
| Server (`net/server.cpp`) | queue, flag and idle tasks per worker; a coroutine per connection | accept, hand over, read, dispatch, write, close | accept thread and workers share the queues |

What is hard: writers, sweeper, snapshot readers and the replicator interleave
on a slot whose map and log change in different steps; commands are time-stamped
before they wait for a lock; a replica must reproduce expiry, random choices and
saturated deadlines from the log; batches are interrupted anywhere, HELLOs are
served after their sender gave up, either side restarts empty, logs are dropped
between two polls; a scan lasts over many calls while keys come, go and expire;
commands arrive in arbitrary pieces and clients leave at any point; sockets pass
between threads through a queue and a flag that is read without the lock.  The
hazards, line by line, are listed in `PROJECT.json`.

## Modules

Slot and commands:

- `SlotCommands`: objects of the four types, every write command on one key with
  its options and errors, and replay of a record, as pure operators.
  `Outcomes(map, c, now)` is what a command may do to the map of a slot; it is
  empty when nothing changes.  `ApplyRecord` is the replica.  int64 has the bounds
  `MinI64` and `MaxI64`, and texts convert to integers by `IntegerOf` and
  `TextOf`, so that overflow and texts that are no integer are cases.
- `Binlog`: the log buffer as a sequence of records.
- `AtomicSlot`: the abstract slot, whose writes change map, number and log at
  once.  What a command does is a parameter of it.
- `HashSlot`: the slot as coded.  A command is stamped (`Call`), takes
  `write_mutex_` and computes its outcome (`LockAndCompute`, or `ReturnUnchanged`
  if nothing changes), appends its record (`AppendLog`) and publishes (`Publish`).
  The sweeper stamps itself (`SweepOnce`), collects keys without the write lock
  (`SweepSnapshot`) and deletes them one by one through the same steps.
  `history` is a ghost: the maps published so far.
- `ZAddLoop`: ZADD's loop over its pairs, one pair per step, against the closed
  form that `SlotCommands` uses and that the proofs reason about.
- `ZSetReads`: ZRANGE in its three modes, ZRANK, ZREVRANK, ZCOUNT, as operators.
- `ScoreFormat`: how a sorted-set score is printed into a snapshot.

Keyspace:

- `CacheEngine`: all slots, the commands that visit several of them (SCAN,
  EXISTS, MGET, DEL) one slot per step, the sweeper's round robin, and other
  clients that write in between.  `held` is a ghost: what each key has held since
  the observed call or scan began.
- `GlobMatch`: the backtracking matcher, one iteration per step, and `Means`,
  what a pattern means.  `ScanClass` is MatchClass's loop: the ends of a range are
  put in order before the test that may close the class, as in the code.

Replication:

- `ReplFrame`, `SlaveReplicator`: frames, and `EnqueueFrame` as a function from
  replica state and frame to replica state and verdict.
- `MasterReplicator`: Poll, with one step for every read of a slot (published
  number, first and last number of the log, records, image) because clients write
  in between, and Maintain, whose budget loop takes one step per slot.
- `Replication`: composes them with connections, abandoned HELLOs and crashes.
- `DecimalText`: numbers as texts: `Text` is what `std::to_string` writes,
  `Spellings` what `std::from_chars` reads as the number (zeros may precede it).
- `FrameCodec`, `SnapshotCodec`: frames and slot images as sequences of texts;
  what arrives is what was sent, a part of it, more than it, or damaged in one
  place.  The snapshot decoder is a state machine that takes a step per element.

Server:

- `RespCodec`: NextCommand as an operator on the buffered bytes.
- `Connection`: the coroutine of one connection (read, ProcessInput, WriteAll,
  close), a client that sends a script and may leave or reset, and a kernel that
  cuts input and output anywhere.
- `FdHandover`: accept thread, workers' queues, `ReapFds` step by step, tasks.

The theorems about `SlotCommands`, `HashSlot` and `ZAddLoop` are in
`HashSlotProofs`; those about `Replication`, `CacheEngine`, `Connection` and
`FdHandover` in the modules with their names and `Proofs`; those about
`GlobMatch` and `ZSetReads` in `AlgorithmProofs`; those about `SnapshotCodec` and
`FrameCodec` in `CodecProofs`.  `InductionProofs` has the lemmas on numbers that
they share.  The `MC*` modules give TLC its constants.  `MCAlgorithms` puts
modules that do not interact into one run, a behaviour of which is one of
their behaviours; that is why these modules have specifications of different
names (`Spec`, `LoopSpec`, `ReadSpec`, `DecoderSpec`, `FrameSpec`).

A definition marked as a mutant, or introduced as a variant nobody uses, is a plausible mistake in the definition after it: putting
it in place must break a property (`PROJECT.json`, `mutants`).

Levels of detail meet in three places.  `HashSlot` is shown to implement
`AtomicSlot` (log readers need `write_mutex_`, so they never see the middle of a
write); therefore `Replication` and `CacheEngine` treat a visit of a slot as one
step.  `HashSlot` also shows that a record replayed on the right map gives the
right map; in `Replication` the content of a slot is therefore just the sequence
of writes that produced it, and a replica is correct when its content is a prefix
of the primary's.  `SnapshotCodec` shows that an image arrives as it was sent or is refused
when a part is missing, and `FrameCodec` that an accepted frame is the encoding of
what it is taken for, so `Replication` passes frames as records.

## Runs

| Run | Question |
|---|---|
| `slot_commands` | does every logged record of every command, replayed, give the published map; are deadlines within 64 bits; does an expired object influence nothing; does a container that loses its last member go away with its key |
| `slot_threads` | are snapshots consistent, updates never lost, live objects never swept; does the slot implement the atomic one; does `SlotInv` hold (the log has no gap, whoever writes holds the mutex); is an expired object eventually removed |
| `algorithms` | does ZADD's loop with NX, XX, GT, LT and repeated members end in the closed form, with the right counts; do the pages of a ZRANGE join up, does REV reverse, are ranks clamped, do ranks and counts agree with the order; does the glob matcher answer what the pattern means, read classes consistently and ranges either way round, and end; does an image that arrives whole decode to itself, is a part refused, does the decoder stay inside the payload; does a frame decode to itself, and is whatever is accepted the encoding of what it is taken for, up to zeros in front of its numbers |
| `engine` | does a scan return no key twice, every key that was there throughout and none that never was, and end, COUNT 0 included; do EXISTS, MGET and DEL of several keys report each key as it was at some moment of the call; does the sweeper reach every slot |
| `connection` | with bytes cut anywhere, frames, oversized arrays, malformed and truncated input, are exactly the acceptable commands before the first refusal or HELLO run, and answered once, in order; is nothing acceptable refused; is a connection closed when its client has gone |
| `fd_handover` | is every socket in exactly one place and closed at most once; do put-back sockets respect the limit of the queue; does the unlocked flag hide nothing; is the idle stack exact; does no socket wait for ever beside an idle task |
| `repl_faults` | with timeouts, crashes, late HELLOs and eviction, is a replica a prefix of its primary, readable only when it has all that was published when it sent its HELLO |
| `repl_batch` | with tight frame and byte limits, an oversized record and an undecodable snapshot, is a changing slot hidden, and is the remaining budget never negative |
| `repl_shared_id` | with two replicas under one id, does garbage collection keep every record that a slot with data in the current session needs |
| `repl_live` | does a replica converge when writes and faults have stopped, although every log is evicted |
| `score_round_trip` | expected violation, see Findings |
| `glob_ranges` | expected violation, see Findings |

Bounds.

- Slot.  Two clients are enough for every pairwise interleaving of writers, and
  the sweeper is a third; three calls cover write, expiry and rewrite of a key
  while it is swept.  `MaxU64 = 7` makes saturation and overflow reachable with
  amounts of 9; int64 is -1..1, so one increment overflows.
- `algorithms`.  A behaviour runs one algorithm on one input.  ZADD takes all
  option sets and all lists of up to three pairs over two members, so the third
  pair may repeat an added and changed member; the reads take every sorted set of
  up to three members and ranks beyond both ends.  Patterns of up to five
  characters have two stars with something between and after them, the shortest
  case where restarting from the last star only could be wrong; class bodies of
  four hold an escaped range and a range with a closing bracket behind it, and their
  characters lie on both sides of `]`, so a range may start or end there either way
  round.
- `engine` has a slot with two keys, one with one key and an empty one; one
  foreign write, one tick of the clock and the sweeper allow a key to vanish and
  come back, or expire, between two visits.
- `connection`: scripts of two or three commands are longer than one read and
  some are longer than the stream buffer; limits of 3 elements and 2 bytes are
  exceeded by scripts and tails.  No array and no element is longer than
  `MaxLength = 9`, so the lengths in a command have one digit.
- `fd_handover`: two workers, queues of two and seven sockets, so that a queue
  overflows both when a socket arrives and when sockets are put back.  Sockets are
  numbered in the order of their acceptance; nothing else tells them apart.
- Codecs (in `algorithms`): two objects of every type with zero to two
  elements, and an element limit that the largest images exceed; every kind of
  frame with lists of zero to two positions; cuts and damage at every position.
  Every number of the samples is at most `MaxNumber = 20`, and every one also has
  the spelling with a zero in front.
- Replication.  A slot has up to three writes, which is one more than a batch of
  two frames takes, so partial batches, full batches and batches that start after
  a trimmed log all occur; two slots suffice for rotation, skipped slots and
  eviction in slot order.  Two faults allow a fault during the recovery from the
  first.  `MaxSessions` is as large as the faults of the run can use, except in
  `repl_shared_id`, where the two replicas reset each other for ever.

Deadlock is checked in the replication runs except `repl_shared_id`.  In the
others the behaviours end: clients stop after a bound, a connection closes, a
decoder finishes.

Fairness.  `HashSlot`: every thread that can take its next step takes it
(preemptive threads, short critical sections), the background thread of
`main.cpp` sweeps for ever and the clock advances.  `Replication`: a replica
polls again (loop in `main.cpp`), a Poll that began ends, frames in the socket
are read, a dead connection is noticed (5 s timeouts).  `Connection`: the
coroutine is resumed when its socket is ready, and a peer that is still there
takes output; nothing is assumed of the client's leaving.  `FdHandover`: each
worker's reaper runs again (a coroutine that polls for ever); nothing is assumed
of clients or of tasks ending.  `CacheEngine`: the client goes on calling SCAN,
and the sweeper's thread runs.  `GlobMatch`: the loop goes on.  Nothing is assumed
of writes, faults, Maintain or late HELLOs.

## Theorems

`HashSlotProofs` proves of the commands, for every map, command and time, that outcomes are
well typed (deadlines cannot leave 64 bits), that no outcome holds an empty
container (`OutcomeHasContent`), that replaying the record of a write reproduces
it exactly (`ReplayReproducesWrite`), and that a write changes one key.  All
rest on one lemma that says of an outcome which object its key gets.  The
argument for replay is by command: a record carries the time the command ran at,
so expiry is decided as on the primary; SPOP is logged as the SREM of what it
picked, the other commands as they came; DEL runs at time 0, where nothing is
expired; the absolute deadline is set afterwards.

Of the slot it proves, for any sets of keys, members, texts, clients and
commands and any bounds:

- type correctness, the absence of gaps in the log, consistency of snapshots,
  `ReplayMatches`, the two action properties, and that the slot implements
  `AtomicSlot`.  The inductive invariant is `SlotInv`.  Snapshot consistency alone
  is not inductive: one needs that whoever is between lock and publication holds
  the mutex (`MutexHeld`), hence that the outcome it computed is still an outcome
  on the current map (`PendingIsCurrent`), and that its record, if already
  logged, is the last one (`PendingIsLogged`).  For the sweeper, `SweeperInv` adds
  that its time stamp is not in the future;
- `ContainersAreNonEmpty`: by induction over the published maps, from
  `OutcomeHasContent` and `PendingIsCurrent`;
- `ExpiredNeverInfluences`: a client's pending outcome is that of a map without
  the objects expired at its stamp, from the fact that a client never holds the
  sweeper's internal deletion.

Of ZADD it proves that the loop over the pairs ends in the closed form that
`SlotCommands` uses (`ZAddLoopIsClosedForm`), for all options and lists, members
repeated or not.  `LoopInv` says of every member that its score is the stored
one, if no pair seen so far is admitted, or that of an admitted pair which no
other admitted one overrides, and that the counters count the members that are
new and are positive exactly when a pair changed something.

`ReplicationProofs` proves, for any number of slots, replicas, replica ids,
writes, sessions and faults and any limits of a batch:

- `TypesAreKept` and `BudgetNeverUnderflows`.  The inductive invariant is
  `TypeInv /\ RoomInv`.  `TypeInv` types the frames under way truthfully: an image
  is what the writes up to its base produced in the process that opened the
  session, a record belongs to that process.  It also needs that the HELLO loop
  accepts a position only after comparing it with the slot, and that a batch ends
  with DONE, where the reader stops (so a replica never reads past the end).
  `RoomInv` says that a batch that is not full has bytes left;
- `ReplicasHoldPrefixes`: from truthful frames, by a lemma per frame type that
  `EnqueueFrame` keeps the content of a slot a prefix (a record is applied only if
  it is the next one of the same process, an image replaces the content);
- `PartialStaysHidden`: from the same cases, step by step;
- `OnlineSlotsAreFresh`: with `FloorInv`, which follows the numbers published when
  the HELLO was sent through the connection, the reads of Poll and the targets in
  DONE.

It also proves that garbage collection keeps what a replica needs, as long as the budget forces no eviction (`RecordsAreRetained`), in particular when
the logs never outgrow the budget (`BudgetRetainsRecords`).  `BacklogRetained` is
far from inductive, because the acknowledged position can move back: a late
HELLO of the same session sets it to an older position.  The inductive invariant
`BacklogInv` therefore bounds, for every replica whose session is the current one
of its id, the replica's position from below by the acknowledged position, by the
positions of every HELLO of its session that may still be read and, if it has
data, by the start of the log; and it requires the same of the position every
image and record under way will take it to (`GoodSlot`).  A replica is looked at
through `View`, its state once a BEGIN with a reset has been applied, because the
primary counts it as new from that moment.  Three more parts make this hold with
shared ids and restarts: a session was never issued before and belongs to one
replica (`IssuedInv`, `TokenInv`), a HELLO on its way is what its replica would
still send (`LinkInv`), and logs have no gap (`LogInv`).  The invariant was also
checked with TLC on instances with a shared id, with two slots, and with restarts
and undecodable snapshots.

`FdHandoverProofs`, for any number of sockets, workers and tasks and any limit of
the queues: the queues respect their limit and the flag hides nothing
(`QueuesAreBounded`), the idle stack is exact (`IdleStackIsExact`), and every
socket is in one place or closed once (`EverySocketHasOnePlace`).  The first two
are inductive together with types (`BasicInv`).  For the third, `PlaceInv` says
where a socket is by queue, position and task, and that it is nowhere else; each
step moves a socket from one such place to another.

`CacheEngineProofs`, for any keys, slots, placement of keys and bounds: a scan
returns every key that was there throughout, once, and none that never matched
(`ScansFindStableKeys`, `ScansReturnHeldKeysOnce`), and the commands on several
keys report what was held during the call (`ReadsWereHeld`).  `SeenInv`: whatever
a read could have shown since the command started is in the history, at any time
stamp from then on.  `ScanInv`: what was returned is a complete list without
repetition for the slots before the cursor, and what the current call found is
one for the slots from the cursor on; such lists (`Block`) concatenate.

`AlgorithmProofs`, for every pattern and every text: the matcher answers what the
pattern means, given what its single tokens match (`MatcherIsCorrect`; `Means` and
the matcher share `MatchOne`, so this is about restarts, and how classes are read
is the next theorem's subject).  A pattern means that some way of taking it
apart fits the text (`Fits`, defined by recursion on the pattern from its end).
The matcher keeps only the last star, so the invariant has to say why earlier
stars need not be tried again: while it runs, the text matches exactly if the
rest after the last star fits where that star stands or later (`SearchInv`), and
the attempt in progress decides the place where the star stands now, a failed
one excluding that place and no other (`AttemptInv`).  A second star may forget
the first because what fits after more characters of the first also fits after
more of the second.  `ClassesReadConsistently`: a negated class is the complement
of the class (`NegationIsComplement`: the scan of a class does not change when a
character is inserted before it), a `]` right after the bracket is a member, and a
range at the start of a class can be written either way round, whatever its ends
(`RangesReadBothWays`: the scan behind the range is that of the same suffix).  It
does not say that a range may end at the closing bracket, which is false, see
Findings.

For every finite sorted set, all ranks and bounds and every page size: the pages
of a ZRANGE join up to the range, REV reverses it, ranks are clamped
(`RangesRead`), and ranks and counts agree with the order (`RanksAndCountsRead`).
The model takes the sorted list by `CHOOSE`, so the first step is that a strict
total order lists every finite set in exactly one way (`SortedLists`, by
induction on the set's size).  The rest is arithmetic on places: filtering keeps
the order, the window of ranks of the reversed list is the mirror of the window,
and what lies below, within and above a range adds up to the set.  The invariant
`ReadInv` says that the pages so far are a beginning of the whole answer.

`CodecProofs`, for every set of images, every cut, extension or replacement of one
element and every limit on the elements: the decoder reads inside the payload (`DecoderStaysInside`), refuses
a part of an image or one with something behind it (`PartsAreRejected`), and
decodes what arrives whole, within the limit, to the map that was encoded
(`SnapshotsSurvive`).  `InsideInv` bounds the position by what the header of the
current object announced, which was compared with what is left.  `TrackInv` says,
of a payload that agrees with the encoding as far as it goes, that the decoder
stands where the encoder stood when it had written the same objects, and holds
those; it needs that encodings of images have as many elements as the counts in
them say.  Of frames: every one decodes to itself, and whatever is
accepted is the encoding of the frame it is taken for, up to zeros in front of
its numbers (`FramesDecodeExactly`), kind by kind, from one lemma on the list of
positions.

`ConnectionProofs`: replies are written in order, each once, however input and
output are cut and whatever the decoder accepts (`RepliesAreInOrder`).
`ReplyInv`: what the socket has taken, followed by what waits, is the list of
replies to what was run; nothing waits while the coroutine reads.
What is run is what the client sent, up to the first command that is refused or
that ends the session (`CommandsRunAreTheClients`).  `ScriptInv`: until the last
write begins, the bytes in the stream followed by the unread ones are the text
from the start of some command of the script, and the commands before it are the
ones that were run.  It rests on what NextCommand makes of a beginning of the
text of a command and more: it waits, refuses, or gives this command and leaves
exactly the bytes behind it (`CommandDecoded`), which goes argument by argument
with the decimal lengths.

`InductionProofs` derives from the axioms of numbers that sets of numbers have a
least member, induction for a set of numbers, and the existence of functions
defined by recursion on 0..n, upwards and downwards.  With it the theorems that
need a sum of record sizes (`SumTo`), the replies to a list of commands
(`RepliesTo`), the value of a decimal text, the encoding of an image or the
meaning of a pattern hold for lists of every length.

Assumptions are the named ASSUMEs on constants: keys exist, `None` is no object,
threads are distinct, the clock fits in 64 bits, integers and their texts match;
there is at least one slot, limits and sizes are natural numbers, `MaxBatchBytes`
is not 0, `NoReplica` is no session; there is at least one worker and one task,
and they are finitely many; keys are finitely many and each has its slot.
For the codecs, different numbers share no spelling, images are finite maps with
texts as keys, sizes and times fit in `MaxNumber` (2^64 - 1 in the code), and the
same holds of the numbers in frames (`FrameAssumption`).  For connections, a client
writes lengths as `std::to_string` does, and what it sends after its script is at
no point a complete command; commands with lengths in another spelling are outside
the theorem.  Pattern and text of the matcher are sequences of characters as
integers; options and pairs of ZADD are well typed (`InputAssumption`); members of
a sorted set are ordered like integers and finitely many, and a page has a size
other than 0 (`ReadAssumption`; ZRANGE with LIMIT 0 returns nothing and never joins
up).  `RecordsAreRetained` and `BudgetRetainsRecords` also assume the behaviour to
have no eviction, or to stay within the budget.

Only model-checked:

- all liveness (`Converges`, that scans and matching end, that expired
  objects go, that every slot is swept, that commands are answered, that no
  socket waits for ever, that connections close): the prover has no support for
  fairness;
- the expected violations `score_round_trip` and `glob_ranges`.

`SlotCommands` states the loops of HSET and ZADD in closed form.  For ZADD the
loop is proved to compute it; for HSET the closed form is "the last value given
for a field".

## Findings

`FormatScore` (`repl/snapshot_codec.cpp:36`, the same code in
`command/zset_cmd.cpp:82`) drops all zeros at the end of a text that has a
point, including those of an exponent: 1.5e+20 becomes 1.5e+2.  After a snapshot
the replica holds another score than the primary, while the test
`SnapshotCodecRoundTripsAllObjectTypes` states that scores survive.

`MatchClass` (`common/glob_match.cpp:63`) exchanges the ends of a range written
backwards and then takes the larger one for the character behind the hyphen when
it decides whether that was the closing bracket (line 70).  So `[a-]`, where `a` is
above `]`, is not closed and matches nothing, not even its ends, and `[]-A]` ends
in front of its last bracket and matches `Z]` as two tokens.  The tests state that
a range may end at the closing bracket (`glob_match_test.cpp:38`, tried with `0`,
which is below it) and that a reversed range is the normalized one (`:36`);
`RangeMayEndAtBracket` puts the two together and `glob_ranges` refutes it.

Behaviours the models have and no property forbids: a slot that needs a
snapshot while the batch is full stays readable with its old content until a
later poll; a slot whose snapshot exceeds the decoder's limit (one million
elements) makes every batch fail before its DONE, so later slots of the
rotation never become readable; HasBacklog reads the two ends of a log one after
the other, so a HELLO for a slot without data, whose log was trimmed to nothing
and written to in between, is told to use the log although its first records
are gone (BuildFrames then finds that the first record it copied is not the next
one and marks the slot for a snapshot, which a later poll sends; `BacklogRetained`
is therefore about slots with data); sockets that a worker puts back go behind
newer ones and can be overtaken while the load lasts.

## Abstractions and what is not modelled

- The clock does not go backwards (the code uses the system clock).
- Texts are members of small sets; a score is an integer (rounding is the
  subject of `ScoreFormat` only); error texts and the layout of replies are left
  out, the packing of replies with them.
- CollectGarbage is one step: the acknowledged positions are fixed while the
  replicator's mutex is held and writes only append, so trimming slots one by
  one commutes with them.  The bytes counted at the start of EnforceBudget are
  also read in one step.
- In `Replication` and `CacheEngine` writes are abstract; in `CacheEngine` MATCH
  and TYPE are an arbitrary filter on keys and contents.
- Reads that return what is stored (GET, HGET, HGETALL, ZSCORE, TTL, SMEMBERS,
  SRANDMEMBER...) change nothing and are the snapshot reads of `HashSlot`.
- The replica's answers to clients (`ExecuteRead`: READONLY for writes, TRYAGAIN
  for a slot that is not online, the check repeated by SCAN on a replica):
  `OnlineIsFresh` and `PartialIsHidden` are about the slot states it tests.
- `redis::UnpackOne` is not in the repository; `RespCodec` models what
  `resp_codec.cpp` relies on.  libco is vendored.
- Start-up: argument parsing and the threads `main.cpp` creates, which are the
  actors of the modules.

## Plan

1. Done: slot, commands on strings and sets, sweeper, replication, first proofs.
2. Done: the remaining write commands and their proofs, sorted-set reads, glob
   matching, SCAN and multi-key commands, RESP, connections, hand-over of sockets,
   frame and snapshot codecs.
3. Done: proofs for `Replication` (types, budget, prefixes, visibility,
   retention of records), `FdHandover`, `CacheEngine` and `Connection`.
4. Done: proofs for ZADD's loop, glob matching, sorted-set reads, the codecs and
   what a connection runs; with them every invariant and action property of a
   passing run is a theorem.
5. Left: that the pieces of `BacklogInv` which do not need the absence of
   evictions (one session per replica, truthful HELLOs) hold in every behaviour,
   as theorems of their own; properties for the three hazards that have none.
