-------------------------- MODULE StatsEntriesProps --------------------------
(***************************************************************************)
(* Whatever way requests are grouped, ordered and merged, a Stats says of  *)
(* them what a calculation over all of them at once says.                  *)
(***************************************************************************)
EXTENDS StatsEntries

(***************************************************************************)
(* The reference.                                                          *)
(***************************************************************************)
Sum(f, B) == SumFunction([r \in BagToSet(B) |-> B[r] * f[r]])
Only(T, B) == [r \in BagToSet(B) \cap T |-> B[r]]
Values(f, B) == {f[r] : r \in BagToSet(B)}
\* The requests of which f is v.
Where(f, v) == {r \in Reported : f[r] = v}

One == [r \in Reported |-> 1]
Count(B) == Sum(One, B)
CountBy(f, B) == [v \in Values(f, B) |-> Count(Only(Where(f, v), B))]
Least(S, none) == IF S = {} THEN none ELSE Min(S)
Most(S) == Max(S \cup {0})

\* The unit below 100 ms is one, and ten times that for every power of ten above.
Units(us) ==
  CHOOSE u \in {1, 10, 100, 1000} : (u = 1 \/ us >= 10000 * u) /\ (u = 1000 \/ us < 100000 * u)
\* The multiple of the unit that is nearest, the larger of two.
Rounded(us) ==
  CHOOSE ms \in {Units(us) * ((us \div (1000 * Units(us))) + d) : d \in {0, 1}} :
    2 * (us - 1000 * ms) \in (-1000 * Units(us)) .. (1000 * Units(us) - 1)

KeyOf == [r \in Reported |-> r.key]
Time == [r \in Reported |-> r.at]
SecondOf == [r \in Reported |-> r.at \div Second]
SizeOf == [r \in Reported |-> r.size]
Duration == [r \in Reported |-> r.rt]
Bucket == [r \in Reported |-> Rounded(r.rt)]
Timed(B) == Only({r \in Reported : r.rt >= 0}, B)
Failed(B) == Only({r \in Reported : r.error # NoError}, B)

EntryOf(B) ==
  [start |-> Least(Values(Time, B), 0), last |-> Most(Values(Time, B)),
   n |-> Count(B), none |-> Count(B) - Count(Timed(B)), perSec |-> CountBy(SecondOf, B),
   fails |-> Count(Failed(B)), failsPerSec |-> CountBy(SecondOf, Failed(B)),
   total |-> Sum(Duration, Timed(B)), min |-> Least(Values(Duration, Timed(B)), -1),
   max |-> Most(Values(Duration, Timed(B))), size |-> Sum(SizeOf, B),
   times |-> CountBy(Bucket, Timed(B))]
EntriesOf(B) == [k \in Values(KeyOf, B) |-> EntryOf(Only(Where(KeyOf, k), B))]

ErrorOf(B) ==
  [count |-> Count(B), first |-> Least(Values(Time, B), 0), last |-> Most(Values(Time, B))]
\* Errors by their key, or by what the payload calls them.
KeyOfError == [r \in Reported |-> ErrorKey(r)]
NameOfError == [r \in Reported |-> Encode(ErrorKey(r))]
ErrorsOf(B, f) == [c \in Values(f, Failed(B)) |-> ErrorOf(Only(Where(f, c), Failed(B)))]

(***************************************************************************)
(* The entries of an aggregator and of the worker are those of the         *)
(* requests, with response times or without, in whatever order they came   *)
(* and were merged (entry.go:28-33, 72-155, round.go:24).                  *)
(***************************************************************************)
EntriesExact == \A o \in Owners : stats[o].entries = EntriesOf(got[o])

(***************************************************************************)
(* So are the errors: their number, the first and the last time            *)
(* (errors.go:36-68).                                                      *)
(***************************************************************************)
ErrorsExact == \A o \in Owners : stats[o].errors = ErrorsOf(got[o], KeyOfError)

\* A report says of the requests what it should, and of no minimum where there is none.
NilMin(e) == [e EXCEPT !.min = IF @ = -1 THEN {} ELSE {@}]
Tells(p, B) ==
  /\ p.stats = {[key |-> k, entry |-> NilMin(EntriesOf(B)[k])] : k \in Values(KeyOf, B)}
  /\ [p.total.entry EXCEPT !.start = 0] = NilMin([EntryOf(B) EXCEPT !.start = 0])
  /\ p.errors = ErrorsOf(B, NameOfError)

(***************************************************************************)
(* The master is told of the requests since the last report, by key, in    *)
(* total and by error; the total of an interval without requests is empty  *)
(* (stats.go:40-48, worker.go:747-757, 787-841).                           *)
(***************************************************************************)
ReportExact == Tells(report, told)
=============================================================================
