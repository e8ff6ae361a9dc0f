---------------------------- MODULE ArchiveAudit ----------------------------
(***************************************************************************)
(* The audit of the public archive (archive_audit                          *)
(* .run_archive_observed_audit): the root listing page by page, then one   *)
(* listing and one boundary validation per symbol, each in a pool of       *)
(* workers whose results the main thread collects as they complete.  The   *)
(* bucket changes meanwhile: an archive and its checksum are two objects,  *)
(* published one after the other.                                          *)
(***************************************************************************)
EXTENDS Integers, Sequences, FiniteSets

CONSTANTS SymbolCount,     \* symbol directories, in the order of their names
          LastMonth,       \* months 1 .. LastMonth are in the sample
          PoolSize,        \* max_workers
          RootPage,        \* prefixes on a page of the root listing
          MinimumSymbols,  \* minimum_symbols
          MaxPublished     \* objects published during the audit

ASSUME ArchiveAssumption ==
    /\ {SymbolCount, LastMonth, PoolSize, RootPage} \subseteq Nat \ {0}
    /\ MinimumSymbols \in Nat /\ MaxPublished \in Nat

VARIABLES bucket,     \* symbol, month -> versions of zip and checksum; 0 is absent
          published,  \* objects published so far
          step,       \* "root", "listing", "boundary", "manifest" or "raised"
          marker,     \* marker of the next root page
          found,      \* symbols of the root pages so far
          jobs,       \* symbol -> its future: where it is, objects read, failed
          listings,   \* symbol -> snapshot of its listing
          records     \* records in the order in which they were collected

archiveVars == <<bucket, published, step, marker, found, jobs, listings, records>>

Symbols == 1 .. SymbolCount
Months == 1 .. LastMonth
Kinds == {"zip", "checksum"}
NothingListed == [m \in Months |-> [zip |-> 0, checksum |-> 0]]
Future(where) == [at |-> where, got |-> <<>>, failed |-> FALSE]

MinOf(S) == CHOOSE x \in S : \A y \in S : x <= y
MaxOf(S) == CHOOSE x \in S : \A y \in S : y <= x

(* The prefixes the bucket has: a directory exists when it has an object.   *)
Listed == {s \in Symbols : bucket[s] # NothingListed}

Publish ==
    /\ published < MaxPublished /\ step \notin {"manifest", "raised"}
    /\ \E s \in Symbols, m \in Months, k \in Kinds :
         bucket' = [bucket EXCEPT ![s][m][k] = @ + 1]
    /\ published' = published + 1
    /\ UNCHANGED <<step, marker, found, jobs, listings, records>>

(* The months a listing shows with both objects: select_monthly_archives.   *)
CompleteMonths(s) == {m \in Months : \A k \in Kinds : listings[s][m][k] # 0}
IncompleteMonths(s) == {m \in Months \ CompleteMonths(s) : \E k \in Kinds : listings[s][m][k] # 0}
MissingMonths(s) == (MinOf(CompleteMonths(s)) .. MaxOf(CompleteMonths(s))) \ CompleteMonths(s)

(* The objects build_symbol_record reads: the pair of the first complete    *)
(* month, then that of the last.                                            *)
Boundary(s) ==
    LET first == MinOf(CompleteMonths(s))
        last == MaxOf(CompleteMonths(s))
        pair(m) == <<[month |-> m, kind |-> "zip"], [month |-> m, kind |-> "checksum"]>>
    IN  IF CompleteMonths(s) = {} THEN <<>>
        ELSE IF first = last THEN pair(first) ELSE pair(first) \o pair(last)

(* One page of the root listing, or any of the ways in which it is refused. *)
ListRoot ==
    LET rest == {s \in Listed : s > marker}
        page == {s \in rest : Cardinality({t \in rest : t < s}) < RootPage}
    IN  /\ step = "root"
        /\ \/ step' = "raised" /\ UNCHANGED <<marker, found, jobs>>
           \/ /\ found' = found \union page
              /\ IF page # rest
                 THEN marker' = MaxOf(page) /\ UNCHANGED <<step, jobs>>
                 ELSE /\ step' = IF Cardinality(found') < MinimumSymbols
                                 THEN "raised" ELSE "listing"
                      /\ jobs' = [s \in found' |-> Future("queued")]
                      /\ UNCHANGED marker
        /\ UNCHANGED <<bucket, published, listings, records>>

(* The pool takes the futures in the order in which they were submitted.    *)
StartJob ==
    LET queued == {s \in found : jobs[s].at = "queued"}
    IN  /\ step \in {"listing", "boundary"} /\ queued # {}
        /\ Cardinality({s \in found : jobs[s].at = "running"}) < PoolSize
        /\ jobs' = [jobs EXCEPT ![MinOf(queued)].at = "running"]
        /\ UNCHANGED <<bucket, published, step, marker, found, listings, records>>

EndJob(s, bad) == jobs' = [jobs EXCEPT ![s].at = "ended", ![s].failed = bad]

ListSymbol(s) ==
    /\ step = "listing" /\ jobs[s].at = "running"
    /\ \/ EndJob(s, FALSE) /\ listings' = [listings EXCEPT ![s] = bucket[s]]
       \/ EndJob(s, TRUE) /\ UNCHANGED listings
    /\ UNCHANGED <<bucket, published, step, marker, found, records>>

(* A pair that has the versions at i - 1 and i of what was read matches.    *)
PairMatches(got, i) == i % 2 = 0 => got[i - 1] = got[i]

(* One object is read, or its request fails; a checksum is verified against *)
(* the archive read just before.                                            *)
FetchObject(s) ==
    LET i == Len(jobs[s].got) + 1
        object == Boundary(s)[i]
        got == Append(jobs[s].got, bucket[s][object.month][object.kind])
    IN  /\ step = "boundary" /\ jobs[s].at = "running" /\ i <= Len(Boundary(s))
        /\ \/ EndJob(s, TRUE)
           \/ ~PairMatches(got, i) /\ EndJob(s, TRUE)
           \/ PairMatches(got, i) /\ jobs' = [jobs EXCEPT ![s].got = got]
        /\ UNCHANGED <<bucket, published, step, marker, found, listings, records>>

FinishSymbol(s) ==
    /\ step = "boundary" /\ jobs[s].at = "running" /\ Len(jobs[s].got) = Len(Boundary(s))
    /\ EndJob(s, FALSE)
    /\ UNCHANGED <<bucket, published, step, marker, found, listings, records>>

RecordOf(s) ==
    [symbol |-> s, read |-> jobs[s].got,
     status |-> IF jobs[s].failed THEN "boundary_failure"
                ELSE IF CompleteMonths(s) = {} THEN "no_complete_archive"
                ELSE IF MissingMonths(s) \union IncompleteMonths(s) # {} THEN "catalog_gaps"
                ELSE "boundaries_valid"]

(* A collection in which a failure leaves no record. *)
CollectSucceeded(s) ==
    /\ step \in {"listing", "boundary"} /\ jobs[s].at = "ended"
    /\ jobs' = [jobs EXCEPT ![s].at = "collected"]
    /\ records' = IF step = "boundary" /\ ~jobs[s].failed THEN Append(records, RecordOf(s))
                                                         ELSE records
    /\ UNCHANGED <<bucket, published, step, marker, found, listings>>

(* The main thread collects the futures of a pool as they complete; only    *)
(* the second pool makes records.  A failure that leaves no record.         *)
Collect(s) ==
    /\ step \in {"listing", "boundary"} /\ jobs[s].at = "ended"
    /\ jobs' = [jobs EXCEPT ![s].at = "collected"]
    /\ records' = IF step = "boundary" THEN Append(records, RecordOf(s)) ELSE records
    /\ UNCHANGED <<bucket, published, step, marker, found, listings>>

Collected == \A s \in found : jobs[s].at = "collected"

(* A single failed listing ends the audit; otherwise the second pool opens. *)
EndListings ==
    /\ step = "listing" /\ Collected
    /\ IF \E s \in found : jobs[s].failed
       THEN step' = "raised" /\ UNCHANGED jobs
       ELSE step' = "boundary" /\ jobs' = [s \in found |-> Future("queued")]
    /\ UNCHANGED <<bucket, published, marker, found, listings, records>>

(* Records with a first valid bar. *)
InSample == {i \in DOMAIN records : records[i].status \in {"boundaries_valid", "catalog_gaps"}}

(* The records are sorted by symbol; too few with a bar end the audit.      *)
EndAudit ==
    /\ step = "boundary" /\ Collected
    /\ IF Cardinality(InSample) < MinimumSymbols
       THEN step' = "raised" /\ UNCHANGED records
       ELSE /\ step' = "manifest"
            /\ records' = [i \in DOMAIN records |->
                 CHOOSE r \in {records[j] : j \in DOMAIN records} :
                    Cardinality({j \in DOMAIN records : records[j].symbol < r.symbol}) = i - 1]
    /\ UNCHANGED <<bucket, published, marker, found, jobs, listings>>

ArchiveInit(buckets) ==
    /\ bucket \in buckets
    /\ published = 0 /\ step = "root" /\ marker = 0 /\ found = {} /\ jobs = <<>>
    /\ listings = [s \in Symbols |-> NothingListed] /\ records = <<>>

ArchiveNext ==
    \/ Publish \/ ListRoot \/ StartJob \/ EndListings \/ EndAudit
    \/ \E s \in found : ListSymbol(s) \/ FetchObject(s) \/ FinishSymbol(s) \/ Collect(s)

(* Every bucket whose objects have some version or are absent.              *)
ArchiveSpec ==
    ArchiveInit([Symbols -> [Months -> [Kinds -> Nat]]]) /\ [][ArchiveNext]_archiveVars

-----------------------------------------------------------------------------
(* Whatever order the pools finish in and whatever is published meanwhile:  *)
(* a manifest has one record for each directory of the root listing, in     *)
(* order, failures included; a record counted as valid rests on pairs of    *)
(* archive and checksum of one publication, of the first and the last month *)
(* its listing showed complete; and there are enough of them.               *)
ArchiveManifestSound ==
    step = "manifest" =>
        /\ Len(records) = Cardinality(found) /\ {records[i].symbol : i \in DOMAIN records} = found
        /\ \A i, j \in DOMAIN records : i < j => records[i].symbol < records[j].symbol
        /\ Cardinality(InSample) >= MinimumSymbols
        /\ \A i \in InSample :
             LET r == records[i]
                 months == CompleteMonths(r.symbol)
             IN  /\ months # {} /\ Len(r.read) = IF Cardinality(months) = 1 THEN 2 ELSE 4
                 /\ \A n \in {x \in DOMAIN r.read : x % 2 = 0} :
                      r.read[n - 1] = r.read[n] /\ r.read[n] > 0
=============================================================================
