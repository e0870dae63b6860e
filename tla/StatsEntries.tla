---------------------------- MODULE StatsEntries -----------------------------
(***************************************************************************)
(* What a Stats holds (stats/stats.go, entry.go, errors.go, round.go), on  *)
(* its way from the aggregators to the report for the master (worker.go):  *)
(* Stats counts the requests that take this way, here is what becomes of   *)
(* their times, sizes and errors.                                          *)
(*                                                                         *)
(* Times are small numbers, response times are in microseconds.  Methods,  *)
(* names and errors are sequences of what lies between the dots in them.   *)
(***************************************************************************)
EXTENDS Integers, Sequences, FiniteSets, FiniteSetsExt, Bags

CONSTANTS
  Aggs,      \* the aggregators
  Requests,  \* what users report, without the time: key, rt (-1 for none), size, error
  Second,    \* clock units of a second
  MaxClock,  \* bound: the time
  MaxAdds    \* bound: requests reported

NoError == <<>>
ErrorKey(r) == <<r.key[1], r.key[2], r.error>>

\* What the payload calls an error: the key joined with dots, which tells the
\* keys apart only as long as no name takes over where another ends.
Encode(k) == k[1] \o k[2] \o k[3]

ASSUME EntriesAssumption ==
  /\ Second \in Nat \ {0} /\ MaxClock \in Nat \ {0} /\ MaxAdds \in Nat /\ "worker" \notin Aggs
  /\ \A q \in Requests : q.rt \in Int /\ q.size \in Int
  /\ \A r, q \in Requests :
       Encode(ErrorKey(r)) = Encode(ErrorKey(q)) => ErrorKey(r) = ErrorKey(q)

VARIABLES
  clock,   \* time.Now
  stats,   \* the Stats of each aggregator, and Worker.stats
  got,     \* history: the bag of requests each of them stands for
  report,  \* the last payload sent
  told     \* history: the requests the report stands for

vars == <<clock, stats, got, report, told>>
Owners == Aggs \cup {"worker"}

\* A request, and the time at which it was reported.
Stamped(q, t) == [key |-> q.key, rt |-> q.rt, size |-> q.size, error |-> q.error, at |-> t]
Reported == {Stamped(q, t) : q \in Requests, t \in 1 .. MaxClock}

(***************************************************************************)
(* Entries.  The maps that count per second and per response time are bags.*)
(***************************************************************************)
NewEntry ==
  [start |-> 0, n |-> 0, none |-> 0, perSec |-> EmptyBag, fails |-> 0, failsPerSec |-> EmptyBag,
   last |-> 0, total |-> 0, min |-> -1, max |-> 0, size |-> 0, times |-> EmptyBag]

\* Mutant: rounded down.
RoundDown(us, unit) == (us \div (unit * 1000)) * unit
RoundTo(us, unit) == ((us + unit * 500) \div (unit * 1000)) * unit
RoundResponseTime(us) ==
  RoundTo(us, IF us < 100000 THEN 1 ELSE IF us < 1000000 THEN 10
              ELSE IF us < 10000000 THEN 100 ELSE 1000)

\* The smaller of two values of which the sentinel stands for none.
\* Mutant: it is a value of the second like any other.
SmallerOf(sentinel, a, b) == IF a = sentinel \/ a > b THEN b ELSE a
Smaller(sentinel, a, b) == IF a = sentinel \/ (b # sentinel /\ a > b) THEN b ELSE a
Larger(a, b) == IF a < b THEN b ELSE a

\* A request without a response time changes only what does not depend on it.
AddTo(e, r) ==
  LET second == SetToBag({r.at \div Second})
      failed == r.error # NoError
      none == r.rt < 0
  IN  [start |-> Smaller(0, e.start, r.at), last |-> Larger(e.last, r.at), n |-> e.n + 1,
       size |-> e.size + r.size, perSec |-> e.perSec (+) second,
       fails |-> e.fails + (IF failed THEN 1 ELSE 0),
       failsPerSec |-> IF failed THEN e.failsPerSec (+) second ELSE e.failsPerSec,
       none |-> IF none THEN e.none + 1 ELSE e.none,
       total |-> IF none THEN e.total ELSE e.total + r.rt,
       min |-> IF none THEN e.min ELSE Smaller(-1, e.min, r.rt),
       max |-> IF none THEN e.max ELSE Larger(e.max, r.rt),
       times |-> IF none THEN e.times ELSE e.times (+) SetToBag({RoundResponseTime(r.rt)})]

\* StartTime takes that of the other as it is: no entry merged is without requests.
MergeEntry(e, f) ==
  [start |-> SmallerOf(0, e.start, f.start), last |-> Larger(e.last, f.last),
   n |-> e.n + f.n, none |-> e.none + f.none, perSec |-> e.perSec (+) f.perSec,
   fails |-> e.fails + f.fails, failsPerSec |-> e.failsPerSec (+) f.failsPerSec,
   total |-> e.total + f.total, min |-> Smaller(-1, e.min, f.min), max |-> Larger(e.max, f.max),
   size |-> e.size + f.size, times |-> e.times (+) f.times]

Aggregate(entries) ==
  FoldFunction(LAMBDA e, total : MergeEntry(total, e), NewEntry, entries)

(***************************************************************************)
(* Errors, and the maps of both.                                           *)
(***************************************************************************)
NewError == [count |-> 0, first |-> 0, last |-> 0]
MergeError(o, p) ==
  [count |-> o.count + p.count, first |-> Smaller(0, o.first, p.first),
   last |-> Larger(o.last, p.last)]

At(map, k, zero) == IF k \in DOMAIN map THEN map[k] ELSE zero
Put(map, k, v) == [x \in DOMAIN map \cup {k} |-> IF x = k THEN v ELSE map[x]]
\* Mutant: what only the other has is not copied.
OwnKeys(m, n) == DOMAIN m
AllKeys(m, n) == DOMAIN m \cup DOMAIN n
MergeEntries(m, n) ==
  [k \in AllKeys(m, n) |-> IF k \in DOMAIN n THEN MergeEntry(At(m, k, NewEntry), n[k]) ELSE m[k]]
MergeErrors(m, n) ==
  [k \in AllKeys(m, n) |-> IF k \in DOMAIN n THEN MergeError(At(m, k, NewError), n[k]) ELSE m[k]]

(***************************************************************************)
(* Stats.                                                                  *)
(***************************************************************************)
NoKeys == [k \in {} |-> NewEntry]

Cleared(s, now) == [start |-> now, entries |-> NoKeys, errors |-> NoKeys]

Added(s, r) ==
  [s EXCEPT !.entries = Put(@, r.key, AddTo(At(@, r.key, NewEntry), r)),
            !.errors = IF r.error = NoError THEN @
                       ELSE Put(@, ErrorKey(r),
                                MergeError(At(@, ErrorKey(r), NewError),
                                           [count |-> 1, first |-> r.at, last |-> r.at]))]

Merged(s, t) ==
  [s EXCEPT !.entries = MergeEntries(@, t.entries),
            !.errors = MergeErrors(@, t.errors)]

\* Flush and convertStatisticsPayload: a pointer to the minimum, or nil (mutant: never nil).
ConvertedAsIs(key, e) == [key |-> key, entry |-> [e EXCEPT !.min = {@}]]
Converted(key, e) == [key |-> key, entry |-> [e EXCEPT !.min = IF @ < 0 THEN {} ELSE {@}]]
\* The total starts with the interval.
Total(s) == [Aggregate(s.entries) EXCEPT !.start = s.start]
Payload(s) ==
  [stats |-> {Converted(k, s.entries[k]) : k \in DOMAIN s.entries},
   total |-> Converted("Aggregated", Total(s)),
   errors |-> [c \in {Encode(k) : k \in DOMAIN s.errors} |->
                 s.errors[CHOOSE k \in DOMAIN s.errors : Encode(k) = c]]]

(***************************************************************************)
(* The steps of the aggregators and of the worker's stats process.         *)
(***************************************************************************)
Fresh == [start |-> 1, entries |-> NoKeys, errors |-> NoKeys]
Init ==
  /\ clock = 1 /\ stats = [o \in Owners |-> Fresh] /\ got = [o \in Owners |-> EmptyBag]
  /\ report = Payload(Fresh) /\ told = EmptyBag

Tick == clock < MaxClock /\ clock' = clock + 1 /\ UNCHANGED <<stats, got, report, told>>

Made == BagCardinality(told) + MapThenSumSet(LAMBDA o : BagCardinality(got[o]), Owners)

\* A request that was reported at t, and has come through the channel only now.
Add(a, q, t) ==
  LET r == Stamped(q, t)
  IN  /\ Made < MaxAdds
      /\ stats' = [stats EXCEPT ![a] = Added(@, r)]
      /\ got' = [got EXCEPT ![a] = @ (+) SetToBag({r})]
      /\ UNCHANGED <<clock, report, told>>

\* The ticker of an aggregator: the stats process merges what it hands over.
HandOver(a) ==
  /\ stats' = [stats EXCEPT !["worker"] = Merged(@, stats[a]), ![a] = Cleared(@, clock)]
  /\ got' = [got EXCEPT !["worker"] = @ (+) got[a], ![a] = EmptyBag]
  /\ UNCHANGED <<clock, report, told>>

SendStats ==
  /\ report' = Payload(stats["worker"]) /\ told' = got["worker"]
  /\ stats' = [stats EXCEPT !["worker"] = Cleared(@, clock)]
  /\ got' = [got EXCEPT !["worker"] = EmptyBag] /\ UNCHANGED clock

ResetStats ==
  /\ stats' = [stats EXCEPT !["worker"] = Cleared(@, clock)]
  /\ got' = [got EXCEPT !["worker"] = EmptyBag] /\ UNCHANGED <<clock, report, told>>

Next ==
  \/ Tick \/ SendStats \/ ResetStats
  \/ \E a \in Aggs : HandOver(a) \/ \E q \in Requests, t \in 1 .. clock : Add(a, q, t)

Spec == Init /\ [][Next]_vars
=============================================================================
