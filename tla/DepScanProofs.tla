---------------------------- MODULE DepScanProofs ----------------------------
(* Theorems about the header scan and its caches, for any files, include     *)
(* paths, rules and generated headers, and any edits between and during runs. *)
EXTENDS DepScanInvariant, TLAPS, SequenceTheorems

-----------------------------------------------------------------------------
(* Sequences *)

\* The elements of a sequence are its head and those of its tail.
LEMMA HeadTail ==
  ASSUME NEW S, NEW s \in Seq(S), s # <<>>
  PROVE  /\ Head(s) \in S /\ Tail(s) \in Seq(S)
         /\ 1 \in DOMAIN s /\ Head(s) = s[1]
         /\ Range(s) = {Head(s)} \union Range(Tail(s))
  <1>1. Len(s) \in Nat \ {0} /\ DOMAIN s = 1 .. Len(s)
    BY EmptySeq, LenProperties
  <1>2. Tail(s) \in Seq(S) /\ DOMAIN Tail(s) = 1 .. Len(s) - 1
        /\ \A i \in 1 .. Len(s) - 1 : Tail(s)[i] = s[i + 1]
    BY <1>1, HeadTailProperties, LenProperties
  <1>3. ASSUME NEW i \in DOMAIN s PROVE s[i] \in {s[1]} \union Range(Tail(s))
    <2>1. CASE i = 1
      BY <2>1
    <2>2. CASE i # 1
      <3>1. i - 1 \in DOMAIN Tail(s) /\ s[i] = Tail(s)[i - 1]
        BY <1>1, <1>2, <2>2
      <3> QED
        BY <3>1 DEF Range
    <2> QED
      BY <2>1, <2>2
  <1>4. Range(Tail(s)) \subseteq Range(s)
    BY <1>1, <1>2 DEF Range
  <1>5. Head(s) = s[1] /\ 1 \in DOMAIN s /\ s[1] \in S
    BY <1>1
  <1> QED
    BY <1>2, <1>3, <1>4, <1>5 DEF Range

\* Appending adds one element.
LEMMA AppendRange ==
  ASSUME NEW S, NEW s \in Seq(S), NEW e \in S
  PROVE  Append(s, e) \in Seq(S) /\ Range(Append(s, e)) = Range(s) \union {e}
  <1>1. /\ Append(s, e) \in Seq(S) /\ Len(s) \in Nat
        /\ DOMAIN s = 1 .. Len(s) /\ DOMAIN Append(s, e) = 1 .. Len(s) + 1
    BY LenProperties
  <1>2. \A i \in 1 .. Len(s) + 1 : Append(s, e)[i] = IF i = Len(s) + 1 THEN e ELSE s[i]
    OBVIOUS
  <1>3. Range(Append(s, e)) \subseteq Range(s) \union {e}
    BY <1>1, <1>2 DEF Range
  <1>4. Range(s) \subseteq Range(Append(s, e))
    BY <1>1, <1>2 DEF Range
  <1>5. Len(s) + 1 \in DOMAIN Append(s, e) /\ Append(s, e)[Len(s) + 1] = e
    BY <1>1, <1>2
  <1> QED
    BY <1>1, <1>3, <1>4, <1>5 DEF Range

\* Concatenation adds the elements of both.
LEMMA ConcatRange ==
  ASSUME NEW S, NEW s \in Seq(S), NEW t \in Seq(S)
  PROVE  s \o t \in Seq(S) /\ Range(s \o t) = Range(s) \union Range(t)
  <1>1. /\ s \o t \in Seq(S) /\ Len(s) \in Nat /\ Len(t) \in Nat
        /\ DOMAIN s = 1 .. Len(s) /\ DOMAIN t = 1 .. Len(t)
        /\ DOMAIN (s \o t) = 1 .. Len(s) + Len(t)
        /\ \A i \in 1 .. Len(s) + Len(t) :
             (s \o t)[i] = IF i <= Len(s) THEN s[i] ELSE t[i - Len(s)]
    BY ConcatProperties, LenProperties
  <1>2. ASSUME NEW i \in DOMAIN t PROVE t[i] \in Range(s \o t)
    <2>1. i + Len(s) \in DOMAIN (s \o t) /\ (s \o t)[i + Len(s)] = t[i]
      BY <1>1
    <2> QED
      BY <2>1 DEF Range
  <1>3. ASSUME NEW i \in DOMAIN s PROVE s[i] \in Range(s \o t)
    BY <1>1 DEF Range
  <1>4. ASSUME NEW i \in DOMAIN (s \o t) PROVE (s \o t)[i] \in Range(s) \union Range(t)
    BY <1>1 DEF Range
  <1> QED
    BY <1>1, <1>2, <1>3, <1>4 DEF Range

\* So does prepending one.
LEMMA PrependRange ==
  ASSUME NEW S, NEW e \in S, NEW t \in Seq(S)
  PROVE  <<e>> \o t \in Seq(S) /\ Range(t) \subseteq Range(<<e>> \o t)
  <1> DEFINE s == <<e>>
  <1>1. s \in Seq(S)
    OBVIOUS
  <1> HIDE DEF s
  <1>2. s \o t \in Seq(S) /\ Range(t) \subseteq Range(s \o t)
    BY <1>1, ConcatRange
  <1> QED
    BY <1>2 DEF s

\* The elements of a sequence over S are in S.
LEMMA RangeIn == ASSUME NEW S, NEW s \in Seq(S) PROVE Range(s) \subseteq S
  BY DEF Range

\* There is nothing in an empty sequence.
LEMMA RangeEmpty == Range(<<>>) = {} /\ DOMAIN <<>> = {}
  BY DEF Range

\* An empty list has any type.
LEMMA EmptyTypes == /\ DOMAIN <<>> = {} /\ <<>> \in Seq(Dirs) /\ <<>> \in Seq(Names)
                    /\ <<>> \in Seq(Matches) /\ <<>> \in Seq(Results)
  BY RangeEmpty

\* lappend-uniq adds one directory.
LEMMA UniqRange ==
  ASSUME NEW s \in Seq(Dirs), NEW d \in Dirs
  PROVE  LappendUniq(s, d) \in Seq(Dirs) /\ Range(LappendUniq(s, d)) = Range(s) \union {d}
  BY AppendRange DEF LappendUniq

\* The include paths of a stamp, and those for verification.
LEMMA PathTypes ==
  ASSUME NEW paths \in Seq(Dirs), NEW p \in Paths
  PROVE  /\ LappendUniq(paths, DirOf[p]) \in Seq(Dirs)
         /\ Range(paths) \subseteq Range(LappendUniq(paths, DirOf[p]))
         /\ DirOf[p] \in Range(LappendUniq(paths, DirOf[p]))
         /\ VerifyPaths(paths, p) \in Seq(Dirs)
         /\ Range(LappendUniq(paths, DirOf[p])) \subseteq Range(VerifyPaths(paths, p))
  <1>1. DirOf[p] \in Dirs /\ Top \in Dirs
    BY DepScanAssumption DEF DepScanAssumption
  <1>2. /\ LappendUniq(paths, DirOf[p]) \in Seq(Dirs)
        /\ Range(LappendUniq(paths, DirOf[p])) = Range(paths) \union {DirOf[p]}
    BY <1>1, UniqRange
  <1>3. /\ VerifyPaths(paths, p) \in Seq(Dirs)
        /\ Range(VerifyPaths(paths, p)) = Range(LappendUniq(paths, DirOf[p])) \union {Top}
    BY <1>1, <1>2, UniqRange DEF VerifyPaths
  <1> QED
    BY <1>2, <1>3

\* What a file includes is a sequence of names.
LEMMA ScanTypes ==
  ASSUME TypeOK, NEW p \in Paths
  PROVE  HeaderScanRegexp(p) \in Seq(Names) /\ IncludedBy(p) = Range(HeaderScanRegexp(p))
  <1>1. files[p] \in Contents \union {None}
    BY DEF TypeOK
  <1>2. CASE files[p] = None
    BY <1>2 DEF HeaderScanRegexp, IncludedBy, Range
  <1>3. CASE files[p] # None
    BY <1>1, <1>3, DepScanAssumption DEF DepScanAssumption, HeaderScanRegexp, IncludedBy, Range
  <1> QED
    BY <1>2, <1>3

\* The parts of matches and results.
LEMMA MatchTypes ==
  ASSUME NEW ms \in Seq(Matches), NEW j \in DOMAIN ms
  PROVE  ms[j] \in Matches /\ ms[j].path \in Paths /\ ms[j].hash \in Nat
  <1>1. ms[j] \in Matches
    BY LenProperties
  <1> QED
    BY <1>1 DEF Matches

LEMMA ResultTypes ==
  ASSUME NEW rs \in Seq(Results), NEW i \in DOMAIN rs
  PROVE  rs[i] \in Results /\ rs[i].name \in Names /\ rs[i].matches \in Seq(Matches)
  <1>1. rs[i] \in Results
    BY LenProperties
  <1> QED
    BY <1>1 DEF Results

\* The names of results are a sequence of names.
LEMMA NamesTypes ==
  ASSUME NEW rs \in Seq(Results)
  PROVE  /\ NamesOf(rs) \in Seq(Names)
         /\ Range(NamesOf(rs)) = {rs[i].name : i \in DOMAIN rs}
  <1>1. /\ Len(rs) \in Nat /\ DOMAIN rs = 1 .. Len(rs)
        /\ \A i \in DOMAIN rs : rs[i] \in Results
    BY LenProperties
  <1>2. NamesOf(rs) = [i \in 1 .. Len(rs) |-> rs[i].name]
    BY <1>1 DEF NamesOf
  <1>3. \A i \in 1 .. Len(rs) : rs[i].name \in Names
    BY <1>1 DEF Results
  <1>4. NamesOf(rs) \in Seq(Names)
    BY <1>1, <1>2, <1>3
  <1>5. Range(NamesOf(rs)) = {rs[i].name : i \in DOMAIN rs}
    BY <1>1, <1>2 DEF Range
  <1> QED
    BY <1>4, <1>5

\* Inputs of rules are not made by rules.
LEMMA InputTypes == Inputs \subseteq Paths /\ Inputs \intersect Targets = {}
  BY DepScanAssumption DEF DepScanAssumption, Inputs

\* A stamp is not None.
LEMMA StampNotNone == None \notin Stamps
  BY DepScanAssumption DEF DepScanAssumption, Stamps

-----------------------------------------------------------------------------
(* What was found stays what would be found *)

\* A step that leaves files and statuses alone.
LEMMA QuietStep ==
  ASSUME UNCHANGED <<files, mtime, status, touched>>
  PROVE  /\ \A n, D, M : Looked(n, D, M)' <=> Looked(n, D, M)
         /\ \A f, s, hs, rs, Q, P : Consistent(f, s, hs, rs, Q, P)' <=> Consistent(f, s, hs, rs, Q, P)
         /\ FindCacheOK /\ UNCHANGED findcache => FindCacheOK'
         /\ EntryOK /\ UNCHANGED headerscan => EntryOK'
  <1>1. \A n, D, M : Looked(n, D, M)' <=> Looked(n, D, M)
    BY DEF Looked, Good, Here
  <1>2. \A p : IncludedBy(p)' = IncludedBy(p)
    BY DEF IncludedBy, HeaderScanRegexp
  <1>3. \A p, rs : Fresh(p, rs)' <=> Fresh(p, rs)
    BY DEF Fresh
  <1>4. \A f, s, hs, rs, Q, P : Consistent(f, s, hs, rs, Q, P)' <=> Consistent(f, s, hs, rs, Q, P)
    BY <1>2, <1>3 DEF Consistent
  <1>5. FindCacheOK /\ UNCHANGED findcache => FindCacheOK'
    BY <1>1 DEF FindCacheOK
  <1>6. EntryOK /\ UNCHANGED headerscan => EntryOK'
    BY <1>4 DEF EntryOK
  <1> QED
    BY <1>1, <1>4, <1>5, <1>6

\* The user edits files: nothing is said of them until the next run.
LEMMA EditStep ==
  ASSUME touched', UNCHANGED status
  PROVE  \A n, D, M : Looked(n, D, M) => Looked(n, D, M)'
  BY DEF Looked, Good

\* Joining a directory and a name gives a path.
LEMMA JoinTypes == \A d \in Dirs, n \in Names : Join[<<d, n>>] \in Paths
  BY DepScanAssumption DEF DepScanAssumption

\* A target is built or fails: it has not been looked up before.
LEMMA BuildStep ==
  ASSUME TypeOK, BuildTarget,
         NEW n \in Names, NEW D \in SUBSET Dirs, NEW M \in SUBSET Matches, Looked(n, D, M)
  PROVE  Looked(n, D, M)'
  <1> DEFINE c == Candidate
  <1>0. c \in Targets /\ status[c] = "unknown" /\ UNCHANGED touched
    BY DEF BuildTarget
  <1>1. /\ \A t \in Targets : t # c => status'[t] = status[t]
        /\ status'[c] \in {"built", "uptodate", "failed"}
    BY <1>0 DEF BuildTarget, TypeOK
  <1>2. \A p \in Paths : p # c => files'[p] = files[p] /\ mtime'[p] = mtime[p]
    BY DEF BuildTarget, Write, TypeOK, disk
  <1> HIDE DEF c
  <1>3. \A m \in M : m.path # c /\ m.path \in Paths
    BY <1>0 DEF Looked, Good, Matches
  <1>4. \A d \in D : Join[<<d, n>>] \in Paths /\ Join[<<d, n>>] # c
    BY <1>0, JoinTypes DEF Looked
  <1>5. \A m \in M : Good(m)'
    BY <1>0, <1>1, <1>2, <1>3 DEF Looked, Good
  <1>6. \A p \in Paths \ {c} : Here(p)' <=> Here(p)
    BY <1>1, <1>2 DEF Here
  <1>7. ASSUME NEW d \in D
        PROVE  /\ Join[<<d, n>>] \in Targets => status'[Join[<<d, n>>]] # "unknown"
               /\ ~touched' /\ Here(Join[<<d, n>>])' => \E m \in M : m.path = Join[<<d, n>>]
    BY <1>0, <1>1, <1>4, <1>6 DEF Looked
  <1> QED
    BY <1>5, <1>7 DEF Looked

\* A file that is written gets a time stamp that no match has, so that nothing
\* more is said of what it includes.
LEMMA WriteStep ==
  ASSUME TypeOK, NEW p \in Paths, NEW c, Write(p, c),
         NEW f \in Paths, NEW s \in Stamps, s.hash <= changes,
         NEW hs \in SUBSET Paths, NEW rs \in Seq(Results), OldResults(rs),
         NEW Q, NEW P, Consistent(f, s, hs, rs, Q, P)
  PROVE  Consistent(f, s, hs, rs, Q, P)'
  <1>1. /\ \A q \in Paths : q # p => files'[q] = files[q] /\ mtime'[q] = mtime[q]
        /\ files'[p] = c /\ changes \in Nat /\ changes' = changes + 1
        /\ c # None => mtime'[p] = changes + 1
    BY DEF Write, Change, TypeOK
  <1>2. \A q \in Paths : q # p => (IncludedBy(q)' = IncludedBy(q))
    BY <1>1 DEF IncludedBy, HeaderScanRegexp
  <1>3. c = None => IncludedBy(p)' = {}
    BY <1>1 DEF IncludedBy, HeaderScanRegexp
  <1>4. \A q \in Paths : q # p => (Fresh(q, rs)' <=> Fresh(q, rs))
    BY <1>1 DEF Fresh
  <1>5. \A i \in DOMAIN rs : \A j \in DOMAIN rs[i].matches :
            rs[i].matches[j].hash \in Nat /\ rs[i].matches[j].hash <= changes
    BY ResultTypes, MatchTypes DEF OldResults, OldMatches
  <1>6. MatchOf(p, rs) /\ c # None => ~Fresh(p, rs)'
    BY <1>1, <1>5 DEF MatchOf, Fresh
  <1>7. \A q \in hs : Fresh(q, rs)' => IncludedBy(q)' \subseteq Range(NamesOf(rs)) \union Q \union {NameOf[f]}
    BY <1>2, <1>3, <1>4, <1>6 DEF Consistent
  <1>8. s.hash = mtime'[f] => IncludedBy(f)' \subseteq Range(NamesOf(rs)) \union Q \union {NameOf[f]}
    <2>1. s.hash \in Nat
      BY DEF Stamps
    <2> QED
      BY <1>1, <1>2, <1>3, <2>1 DEF Consistent
  <1> QED
    BY <1>7, <1>8 DEF Consistent

\* What a step may do to the files.
Disk == UNCHANGED disk \/ \E p \in Paths : \E c : Write(p, c)

\* Cached entries survive what happens to files.
LEMMA DiskStep ==
  ASSUME TypeOK, TimeOK, EntryOK, Disk, UNCHANGED headerscan
  PROVE  EntryOK'
  <1> SUFFICES ASSUME NEW f \in Inputs, NEW e, e = headerscan[f], e.stamp # None
               PROVE  Consistent(f, e.stamp, e.headers, e.results, {}, {})'
    BY DEF EntryOK
  <1>1. /\ e.stamp \in Stamps /\ e.headers \in SUBSET Paths /\ e.results \in Seq(Results)
        /\ f \in Paths
    BY InputTypes DEF TypeOK, Entries
  <1>2. /\ e.stamp.hash <= changes /\ OldResults(e.results)
        /\ Consistent(f, e.stamp, e.headers, e.results, {}, {})
    BY DEF TimeOK, EntryOK
  <1>3. CASE UNCHANGED disk
    <2>1. files' = files /\ mtime' = mtime
      BY <1>3 DEF disk
    <2>2. \A p : IncludedBy(p)' = IncludedBy(p)
      BY <2>1 DEF IncludedBy, HeaderScanRegexp
    <2>3. \A p, rs : Fresh(p, rs)' <=> Fresh(p, rs)
      BY <2>1 DEF Fresh
    <2> QED
      BY <1>2, <2>1, <2>2, <2>3 DEF Consistent
  <1>4. CASE \E p \in Paths : \E c : Write(p, c)
    BY <1>1, <1>2, <1>4, WriteStep
  <1> QED
    BY <1>3, <1>4 DEF Disk

\* What is remembered is not from the future either when time has gone on.
LEMMA TimeStep ==
  ASSUME TypeOK, changes' \in Nat, changes <= changes'
  PROVE  /\ \A ms \in Seq(Matches) : OldMatches(ms) => OldMatches(ms)'
         /\ \A rs \in Seq(Results) : OldResults(rs) => OldResults(rs)'
  <1>1. \A ms \in Seq(Matches) : OldMatches(ms) => OldMatches(ms)'
    BY MatchTypes DEF OldMatches, TypeOK
  <1>2. \A rs \in Seq(Results) : \A i \in DOMAIN rs : rs[i].matches \in Seq(Matches)
    BY ResultTypes
  <1> QED
    BY <1>1, <1>2 DEF OldResults

\* Fewer names to be looked up, when the others have been.
LEMMA Progress ==
  ASSUME NEW f, NEW s, NEW hs, NEW rs, NEW Q, NEW P, NEW R, NEW U, Consistent(f, s, hs, rs, Q, P),
         Q \subseteq Range(NamesOf(rs)) \union R \union {NameOf[f]}, P \subseteq hs \union U
  PROVE  Consistent(f, s, hs, rs, R, U)
  BY DEF Consistent

\* While there is no answer nothing is said of it.
LEMMA NoAnswer ==
  ASSUME answer' = None
  PROVE  Closed' /\ CachedComplete' /\ GeneratedFirst'
  BY DEF Closed, CachedComplete, GeneratedFirst, Steady

-----------------------------------------------------------------------------
(* Looking up names *)

LEMMA SkipNameInvariant == ASSUME Inv, SkipName PROVE Inv'
  <1>0. /\ TypeOK /\ TimeOK /\ LocalOK /\ FindCacheOK /\ EntryOK /\ IncOK /\ ScanOK
        /\ pc = "scan" /\ queue # <<>> /\ answer = None
    BY DEF Inv, SkipName, LocalOK
  <1>1. /\ Tail(queue) \in Seq(Names) /\ Range(queue) = {Head(queue)} \union Range(Tail(queue))
    BY <1>0, HeadTail DEF TypeOK
  <1>2. Head(queue) \in Range(NamesOf(results)) \union {NameOf[file]}
    BY <1>0, NamesTypes DEF SkipName, Scanned, TypeOK
  <1>3. TypeOK' /\ TimeOK' /\ LocalOK' /\ FindOK' /\ IncOK' /\ GatherOK' /\ VerifyOK'
    BY <1>0, <1>1 DEF SkipName, TypeOK, TimeOK, LocalOK, FindOK, IncOK, GatherOK, VerifyOK,
        OldResults, OldMatches, disk, caches, world
  <1>4. FindCacheOK' /\ EntryOK'
    BY <1>0, QuietStep DEF SkipName, disk, caches, world
  <1>5. ScanOK'
    <2>1. Consistent(file, stamp, deps, results, Range(Tail(queue)), {rest[i].path : i \in DOMAIN rest})
      BY <1>0, <1>1, <1>2, Progress DEF ScanOK
    <2> QED
      BY <1>0, <2>1, QuietStep DEF SkipName, ScanOK, disk, world
  <1>6. Closed' /\ CachedComplete' /\ GeneratedFirst'
    BY <1>0, NoAnswer DEF SkipName
  <1> QED
    BY <1>3, <1>4, <1>5, <1>6 DEF Inv

LEMMA FindFileInvariant == ASSUME Inv, FindFile PROVE Inv'
  <1>0. /\ TypeOK /\ TimeOK /\ LocalOK /\ FindCacheOK /\ EntryOK /\ IncOK /\ ScanOK /\ GatherOK /\ VerifyOK
        /\ pc \in {"scan", "verify"} /\ queue # <<>> /\ answer = None
    BY DEF Inv, FindFile, LocalOK
  <1>1. Head(queue) \in Names
    BY <1>0, HeadTail DEF TypeOK
  <1>2. /\ find'.left \in Seq(Dirs) /\ find'.found \in Seq(Matches) /\ find' \in Finds
        /\ OldMatches(find'.found)
        /\ Looked(Head(queue), Range(incpaths) \ Range(find'.left), Range(find'.found))
    <2>1. CASE Key \in DOMAIN findcache
      <3>1. find'.left = <<>> /\ find'.found = findcache[Key] /\ find' = [left |-> <<>>, found |-> findcache[Key]]
        BY <2>1 DEF FindFile
      <3>2. findcache[Key] \in Seq(Matches) /\ OldMatches(findcache[Key])
        BY <1>0, <2>1 DEF TypeOK, TimeOK
      <3>3. Looked(Head(queue), Range(incpaths), Range(findcache[Key]))
        BY <1>0, <2>1 DEF FindCacheOK, Key
      <3> QED
        <4>1. find' \in Finds
          BY <3>1, <3>2 DEF Finds
        <4>2. Range(incpaths) \ Range(find'.left) = Range(incpaths)
          BY <3>1, RangeEmpty
        <4>3. Looked(Head(queue), Range(incpaths) \ Range(find'.left), Range(find'.found))
          BY <3>1, <3>3, <4>2
        <4>4. <<>> \in Seq(Dirs)
          OBVIOUS
        <4> QED
          BY <3>1, <3>2, <4>1, <4>3, <4>4
    <2>2. CASE Key \notin DOMAIN findcache
      <3>1. find'.left = incpaths /\ find'.found = <<>> /\ find' = [left |-> incpaths, found |-> <<>>]
        BY <2>2 DEF FindFile
      <3> QED
        BY <1>0, <3>1, RangeEmpty DEF Finds, TypeOK, Looked, OldMatches
    <2> QED
      BY <2>1, <2>2
  <1>3. TypeOK' /\ LocalOK' /\ IncOK' /\ GatherOK'
    BY <1>0, <1>2 DEF FindFile, TypeOK, LocalOK, IncOK, GatherOK, disk, caches, world, local
  <1>4. TimeOK'
    BY <1>0, <1>2 DEF FindFile, TimeOK, OldResults, OldMatches, disk, caches, world, local
  <1>5. FindOK'
    BY <1>0, <1>2, QuietStep DEF FindFile, FindOK, Scanned, disk, world, local
  <1>6. FindCacheOK' /\ EntryOK'
    BY <1>0, QuietStep DEF FindFile, disk, caches, world
  <1>7. ScanOK' /\ VerifyOK'
    BY <1>0, QuietStep DEF FindFile, ScanOK, VerifyOK, disk, world, local, caches
  <1>8. Closed' /\ CachedComplete' /\ GeneratedFirst'
    BY <1>0, NoAnswer DEF FindFile
  <1> QED
    BY <1>3, <1>4, <1>5, <1>6, <1>7, <1>8 DEF Inv

\* One more directory has been looked in.
LEMMA LookedMore ==
  ASSUME NEW n, NEW D, NEW M, NEW d, NEW N, NEW E, Looked(n, D, M), E \subseteq D \union {d},
         \A m \in N : Good(m),
         Join[<<d, n>>] \in Targets => status[Join[<<d, n>>]] # "unknown",
         ~touched /\ Here(Join[<<d, n>>]) => \E m \in N : m.path = Join[<<d, n>>]
  PROVE  Looked(n, E, M \union N)
  BY DEF Looked

\* What a call of find-file has before and after one directory.
LEMMA NextDirectory ==
  ASSUME TypeOK, FindOK, Looking, NEW new \in Seq(Matches), FindNext(new)
  PROVE  /\ find' \in Finds /\ find'.left \in Seq(Dirs) /\ find'.found \in Seq(Matches)
         /\ Head(find.left) \in Dirs /\ Head(queue) \in Names /\ Candidate \in Paths
         /\ Range(find'.found) = Range(find.found) \union Range(new)
         /\ find'.found = find.found \o new
         /\ Range(incpaths) \ Range(find'.left)
              \subseteq (Range(incpaths) \ Range(find.left)) \union {Head(find.left)}
  <1>1. find.left \in Seq(Dirs) /\ find.left # <<>> /\ find.found \in Seq(Matches)
    BY DEF TypeOK, Looking, Finds
  <1>2. /\ Head(find.left) \in Dirs /\ Tail(find.left) \in Seq(Dirs)
        /\ Range(find.left) = {Head(find.left)} \union Range(Tail(find.left))
    BY <1>1, HeadTail
  <1>3. find.found \o new \in Seq(Matches) /\ Range(find.found \o new) = Range(find.found) \union Range(new)
    BY <1>1, ConcatRange
  <1>4. /\ find' = [left |-> Tail(find.left), found |-> find.found \o new]
        /\ find'.left = Tail(find.left) /\ find'.found = find.found \o new
    BY DEF FindNext
  <1>5. find' \in Finds
    BY <1>2, <1>3, <1>4 DEF Finds
  <1>6. Head(queue) \in Names
    BY HeadTail DEF FindOK, Looking, TypeOK
  <1>7. Candidate \in Paths
    BY <1>2, <1>6, JoinTypes DEF Candidate
  <1> QED
    BY <1>2, <1>3, <1>4, <1>5, <1>6, <1>7

\* One match, as a sequence.
LEMMA MatchRange ==
  ASSUME NEW p \in Paths, NEW h \in Nat
  PROVE  /\ Match(p, h) \in Seq(Matches) /\ Range(Match(p, h)) = {[path |-> p, hash |-> h]}
         /\ [path |-> p, hash |-> h] \in Matches
         /\ <<>> \in Seq(Matches) /\ Range(<<>>) = {}
  <1>1. [path |-> p, hash |-> h] \in Matches
    BY DEF Matches
  <1>2. Match(p, h) \in Seq(Matches) /\ DOMAIN Match(p, h) = 1 .. 1
        /\ Match(p, h)[1] = [path |-> p, hash |-> h]
    BY <1>1 DEF Match
  <1>3. Range(Match(p, h)) = {[path |-> p, hash |-> h]}
    BY <1>2 DEF Range
  <1> QED
    BY <1>1, <1>2, <1>3, RangeEmpty

\* Concatenation of what is not from the future.
LEMMA OldConcat ==
  ASSUME NEW s \in Seq(Matches), NEW t \in Seq(Matches), OldMatches(s), OldMatches(t)
  PROVE  OldMatches(s \o t)
  <1>1. \A u : OldMatches(u) <=> \A m \in Range(u) : m.hash <= changes
    BY DEF OldMatches, Range
  <1> QED
    BY <1>1, ConcatRange

LEMMA FindOnPathInvariant == ASSUME Inv, FindOnPath PROVE Inv'
  <1>0. /\ TypeOK /\ TimeOK /\ LocalOK /\ FindCacheOK /\ FindOK /\ EntryOK /\ IncOK /\ ScanOK /\ GatherOK
        /\ VerifyOK /\ Looking /\ find # None /\ answer = None
    BY DEF Inv, FindOnPath, LocalOK, Looking
  <1> DEFINE none == files[Candidate] = None \/ (Candidate \in Targets /\ status[Candidate] = "failed")
             new == IF none THEN <<>> ELSE Match(Candidate, mtime[Candidate])
  <1>1. /\ FindNext(new)
        /\ Candidate \in Targets => status[Candidate] # "unknown"
        /\ UNCHANGED <<disk, status, caches, pc, local, answer, world>>
    BY DEF FindOnPath
  <1>2. Candidate \in Paths /\ mtime[Candidate] \in Nat /\ mtime[Candidate] <= changes
    <2>1. Head(find.left) \in Dirs /\ Head(queue) \in Names
      BY <1>0, HeadTail DEF FindOK, Looking, TypeOK, Finds
    <2> QED
      BY <1>0, <2>1, JoinTypes DEF Candidate, TypeOK, TimeOK
  <1>3. /\ new \in Seq(Matches)
        /\ Range(new) = IF none THEN {} ELSE {[path |-> Candidate, hash |-> mtime[Candidate]]}
    BY <1>2, MatchRange
  <1>4. OldMatches(new)
    BY <1>2 DEF OldMatches, Match
  <1> HIDE DEF new
  <1>5. /\ find' \in Finds /\ find'.left \in Seq(Dirs) /\ find'.found \in Seq(Matches)
        /\ Range(find'.found) = Range(find.found) \union Range(new)
        /\ find'.found = find.found \o new
        /\ Range(incpaths) \ Range(find'.left)
              \subseteq (Range(incpaths) \ Range(find.left)) \union {Head(find.left)}
    BY <1>0, <1>1, <1>3, NextDirectory
  <1>6. Looked(Head(queue), Range(incpaths) \ Range(find'.left), Range(find'.found))
    <2>1. Looked(Head(queue), Range(incpaths) \ Range(find.left), Range(find.found))
      BY <1>0 DEF FindOK
    <2>2. \A m \in Range(new) : Good(m)
      BY <1>0, <1>1, <1>2, <1>3 DEF Good, TypeOK
    <2>3. Candidate \in Targets => status[Candidate] # "unknown"
      BY <1>1
    <2>4. Here(Candidate) => \E m \in Range(new) : m.path = Candidate
      <3> DEFINE m == [path |-> Candidate, hash |-> mtime[Candidate]]
      <3>1. Here(Candidate) => m \in Range(new)
        BY <1>3 DEF Here
      <3>2. m.path = Candidate
        OBVIOUS
      <3> HIDE DEF m
      <3> QED
        BY <3>1, <3>2
    <2>5. Candidate = Join[<<Head(find.left), Head(queue)>>]
      BY DEF Candidate
    <2>6. Looked(Head(queue), Range(incpaths) \ Range(find'.left), Range(find.found) \union Range(new))
      BY <1>5, <2>1, <2>2, <2>3, <2>4, <2>5, LookedMore
    <2> QED
      BY <1>5, <2>6
  <1>7. TypeOK' /\ LocalOK' /\ IncOK' /\ GatherOK'
    BY <1>0, <1>1, <1>5 DEF TypeOK, LocalOK, IncOK, GatherOK, disk, caches, world, local
  <1>8. TimeOK'
    <2>1. OldMatches(find'.found)
      <3>1. find.found \in Seq(Matches) /\ OldMatches(find.found)
        BY <1>0 DEF TypeOK, TimeOK, Finds
      <3> QED
        BY <1>3, <1>4, <1>5, <3>1, OldConcat
    <2> QED
      BY <1>0, <1>1, <2>1 DEF TimeOK, OldResults, OldMatches, disk, caches, world, local
  <1>9. FindOK'
    BY <1>0, <1>1, <1>6, QuietStep DEF FindOK, Scanned, disk, world, local
  <1>10. FindCacheOK' /\ EntryOK' /\ ScanOK' /\ VerifyOK'
    BY <1>0, <1>1, QuietStep DEF ScanOK, VerifyOK, disk, world, local, caches
  <1>11. Closed' /\ CachedComplete' /\ GeneratedFirst'
    BY <1>0, <1>1, NoAnswer
  <1> QED
    BY <1>7, <1>8, <1>9, <1>10, <1>11 DEF Inv

\* Files or statuses change, and nothing that was looked up is affected.
LEMMA WorldStep ==
  ASSUME Inv, Disk, UNCHANGED <<pc, local, caches>>, changes' \in Nat, changes <= changes',
         \A p \in Paths : mtime'[p] <= changes',
         \A n \in Names, D \in SUBSET Dirs, M \in SUBSET Matches : Looked(n, D, M) => Looked(n, D, M)'
  PROVE  /\ FindCacheOK' /\ EntryOK' /\ ScanOK' /\ GatherOK' /\ VerifyOK'
         /\ (find # None => OldMatches(find.found))' => TimeOK'
  <1>0. TypeOK /\ TimeOK /\ FindCacheOK /\ EntryOK /\ ScanOK /\ GatherOK /\ VerifyOK
    BY DEF Inv
  <1>1. \A rs \in Seq(Results) : \A i \in DOMAIN rs :
            rs[i].name \in Names /\ Range(rs[i].matches) \in SUBSET Matches
    BY ResultTypes, RangeIn
  <1>2. FindCacheOK'
    <2>1. \A k \in DOMAIN findcache : /\ k[1] \in Names /\ Range(k[2]) \in SUBSET Dirs
                                      /\ Range(findcache[k]) \in SUBSET Matches
      BY <1>0, RangeIn DEF TypeOK
    <2> QED
      BY <1>0, <2>1 DEF FindCacheOK, caches
  <1>3. EntryOK'
    BY <1>0, DiskStep DEF caches
  <1>4. GatherOK'
    BY <1>0 DEF GatherOK, caches, local
  <1>5. VerifyOK'
    <2>1. CASE pc = "verify"
      <3>1. file \in Inputs /\ headerscan[file].results \in Seq(Results) /\ Range(incpaths) \in SUBSET Dirs
        BY <1>0, <2>1, RangeIn DEF TypeOK, Entries
      <3> QED
        BY <1>0, <1>1, <2>1, <3>1 DEF VerifyOK, caches, local
    <2> QED
      BY <2>1 DEF VerifyOK
  <1>6. ScanOK'
    <2>1. CASE pc = "scan"
      <3>1. /\ file \in Paths /\ stamp \in Stamps /\ stamp.hash <= changes /\ deps \in SUBSET Paths
            /\ results \in Seq(Results) /\ OldResults(results) /\ Range(stamp.paths) \in SUBSET Dirs
        BY <1>0, <2>1, InputTypes, RangeIn DEF TypeOK, TimeOK, Stamps
      <3>2. \A i \in DOMAIN results : Looked(results[i].name, Range(stamp.paths), Range(results[i].matches))'
        BY <1>0, <1>1, <2>1, <3>1 DEF ScanOK, local
      <3>3. ASSUME NEW f, NEW s, NEW hs, NEW rs, NEW Q, NEW P, f = file, s = stamp, hs = deps,
                   rs = results, Q = Range(queue), P = {rest[i].path : i \in DOMAIN rest}
            PROVE  Consistent(f, s, hs, rs, Q, P)'
        <4>1. Consistent(f, s, hs, rs, Q, P)
          BY <1>0, <2>1, <3>3 DEF ScanOK
        <4>2. CASE UNCHANGED disk
          BY <4>1, <4>2 DEF Consistent, Fresh, IncludedBy, HeaderScanRegexp, disk
        <4>3. CASE \E p \in Paths : \E c : Write(p, c)
          BY <1>0, <3>1, <3>3, <4>1, <4>3, WriteStep
        <4> QED
          BY <4>2, <4>3 DEF Disk
      <3>4. Consistent(file, stamp, deps, results, Range(queue), {rest[i].path : i \in DOMAIN rest})'
        BY <3>3 DEF local
      <3>5. \A i \in DOMAIN rest' : MatchOf(rest'[i].path, results')
        BY <1>0, <2>1 DEF ScanOK, local
      <3> QED
        BY <3>2, <3>4, <3>5 DEF ScanOK, local
    <2> QED
      BY <2>1 DEF ScanOK
  <1>7. (find # None => OldMatches(find.found))' => TimeOK'
    <2>1. \A k \in DOMAIN findcache : OldMatches(findcache[k])'
      BY <1>0, TimeStep DEF TypeOK, TimeOK, caches
    <2>2. \A f \in Inputs : /\ headerscan[f].results \in Seq(Results)
                            /\ headerscan[f].stamp # None => headerscan[f].stamp.hash \in Nat
      BY <1>0 DEF TypeOK, Entries, Stamps
    <2>3. /\ \A f \in Inputs : OldResults(headerscan[f].results)'
          /\ \A f \in Inputs : headerscan[f].stamp # None => headerscan[f].stamp.hash <= changes'
      BY <1>0, <2>2, TimeStep DEF TypeOK, TimeOK, caches
    <2>4. OldResults(results)'
      BY <1>0, TimeStep DEF TypeOK, TimeOK, local
    <2>5. pc # "idle" => stamp.hash <= changes'
      BY <1>0 DEF TypeOK, TimeOK, Stamps
    <2> QED
      BY <2>1, <2>3, <2>4, <2>5 DEF TimeOK, caches, local
  <1> QED
    BY <1>2, <1>3, <1>4, <1>5, <1>6, <1>7

\* A target is built, or fails.
LEMMA BuildTargetInvariant == ASSUME Inv, BuildTarget PROVE Inv'
  <1>0. /\ TypeOK /\ TimeOK /\ LocalOK /\ FindCacheOK /\ FindOK /\ EntryOK /\ IncOK /\ ScanOK /\ GatherOK
        /\ VerifyOK /\ Looking /\ find # None /\ answer = None
    BY DEF Inv, BuildTarget, LocalOK, Looking
  <1>1. /\ Candidate \in Targets /\ Candidate \in Paths /\ status[Candidate] = "unknown"
        /\ UNCHANGED <<caches, pc, local, answer, incpath, todo, touched>>
    BY DepScanAssumption DEF BuildTarget, DepScanAssumption
  \* The outcomes come to the same.
  <1>2. PICK new \in Seq(Matches) :
          /\ FindNext(new)
          /\ Disk /\ dirty' \in BOOLEAN
          /\ files' \in [Paths -> Contents \union {None}] /\ mtime' \in [Paths -> Nat]
          /\ \A p \in Paths : p # Candidate => mtime'[p] = mtime[p]
          /\ changes' \in Nat /\ changes <= changes'
          /\ \A p \in Paths : mtime'[p] <= changes'
          /\ status' \in [Targets -> {"unknown", "built", "uptodate", "failed"}]
          /\ status'[Candidate] # "unknown"
          /\ \A m \in Range(new) : m = [path |-> Candidate, hash |-> mtime'[Candidate]]
          /\ new # <<>> => status'[Candidate] \in {"built", "uptodate"}
          /\ status'[Candidate] # "failed" => [path |-> Candidate, hash |-> mtime'[Candidate]] \in Range(new)
    <2>0. /\ files \in [Paths -> Contents \union {None}] /\ mtime \in [Paths -> Nat] /\ changes \in Nat
          /\ \A p \in Paths : mtime[p] <= changes
          /\ status \in [Targets -> {"unknown", "built", "uptodate", "failed"}] /\ dirty \in BOOLEAN
      BY <1>0 DEF TypeOK, TimeOK
    <2>1. CASE \E c \in May[Candidate] \ {None} :
                  /\ Write(Candidate, c)
                  /\ status' = [status EXCEPT ![Candidate] = "built"] /\ dirty' = TRUE
                  /\ FindNext(Match(Candidate, mtime'[Candidate]))
      <3>1. PICK c \in May[Candidate] \ {None} :
                  /\ Write(Candidate, c)
                  /\ status' = [status EXCEPT ![Candidate] = "built"] /\ dirty' = TRUE
                  /\ FindNext(Match(Candidate, mtime'[Candidate]))
        BY <2>1
      <3>2. c \in Contents
        BY <1>1, DepScanAssumption DEF DepScanAssumption
      <3>3. /\ files' \in [Paths -> Contents \union {None}] /\ mtime' \in [Paths -> Nat]
            /\ changes' \in Nat /\ changes' = changes + 1
            /\ \A p \in Paths : mtime'[p] <= changes' /\ (p # Candidate => mtime'[p] = mtime[p])
        BY <1>1, <2>0, <3>1, <3>2 DEF Write, Change
      <3>4. Disk
        BY <1>1, <3>1 DEF Disk
      <3>5. /\ Match(Candidate, mtime'[Candidate]) \in Seq(Matches)
            /\ Range(Match(Candidate, mtime'[Candidate])) = {[path |-> Candidate, hash |-> mtime'[Candidate]]}
        BY <1>1, <3>3, MatchRange
      <3>6. /\ status' \in [Targets -> {"unknown", "built", "uptodate", "failed"}]
            /\ status'[Candidate] = "built"
        BY <1>1, <2>0, <3>1
      <3> DEFINE w == Match(Candidate, mtime'[Candidate])
      <3>7. \A m \in Range(w) : m = [path |-> Candidate, hash |-> mtime'[Candidate]]
        BY <3>5
      <3>8. w \in Seq(Matches) /\ FindNext(w) /\ [path |-> Candidate, hash |-> mtime'[Candidate]] \in Range(w)
        BY <3>1, <3>5
      <3> HIDE DEF w
      <3>9. changes <= changes' /\ status'[Candidate] \in {"built", "uptodate"}
            /\ status'[Candidate] # "unknown"
        BY <2>0, <3>3, <3>6
      <3>10. dirty' \in BOOLEAN
        BY <3>1
      <3> QED
        BY <3>3, <3>4, <3>6, <3>7, <3>8, <3>9, <3>10
    <2>2. CASE /\ files[Candidate] # None
               /\ UNCHANGED <<disk, changes, dirty>>
               /\ status' = [status EXCEPT ![Candidate] = "uptodate"]
               /\ FindNext(Match(Candidate, mtime[Candidate]))
      <3>1. UNCHANGED <<files, mtime, changes>>
        BY <2>2 DEF disk
      <3>2. Disk
        BY <2>2 DEF Disk
      <3>3. /\ Match(Candidate, mtime'[Candidate]) \in Seq(Matches)
            /\ Range(Match(Candidate, mtime'[Candidate])) = {[path |-> Candidate, hash |-> mtime'[Candidate]]}
        BY <1>1, <2>0, <3>1, MatchRange
      <3>4. /\ status' \in [Targets -> {"unknown", "built", "uptodate", "failed"}]
            /\ status'[Candidate] = "uptodate"
        BY <1>1, <2>0, <2>2
      <3> QED
        BY <2>0, <2>2, <3>1, <3>2, <3>3, <3>4
    <2>3. CASE /\ status' = [status EXCEPT ![Candidate] = "failed"]
               /\ FindNext(<<>>)
               /\ IF files[Candidate] = None THEN UNCHANGED changes ELSE Change
               /\ UNCHANGED <<disk, dirty>>
      <3>1. /\ UNCHANGED <<files, mtime>> /\ changes' \in Nat /\ changes <= changes'
            /\ \A p \in Paths : mtime'[p] <= changes'
        BY <2>0, <2>3 DEF disk, Change
      <3>2. Disk
        BY <2>3 DEF Disk
      <3>3. <<>> \in Seq(Matches) /\ Range(<<>>) = {}
        BY RangeEmpty
      <3>4. /\ status' \in [Targets -> {"unknown", "built", "uptodate", "failed"}]
            /\ status'[Candidate] = "failed"
        BY <1>1, <2>0, <2>3
      <3> QED
        BY <2>0, <2>3, <3>1, <3>2, <3>3, <3>4
    <2>4. CASE /\ status' = [status EXCEPT ![Candidate] = "failed"]
               /\ FindNext(<<>>)
               /\ Write(Candidate, None)
               /\ dirty' = TRUE
      <3>1. /\ files' \in [Paths -> Contents \union {None}] /\ mtime' \in [Paths -> Nat]
            /\ changes' \in Nat /\ changes <= changes'
            /\ \A p \in Paths : mtime'[p] <= changes' /\ (p # Candidate => mtime'[p] = mtime[p])
        BY <1>1, <2>0, <2>4 DEF Write, Change
      <3>2. Disk
        BY <1>1, <2>4 DEF Disk
      <3>3. <<>> \in Seq(Matches) /\ Range(<<>>) = {}
        BY RangeEmpty
      <3>4. /\ status' \in [Targets -> {"unknown", "built", "uptodate", "failed"}]
            /\ status'[Candidate] = "failed"
        BY <1>1, <2>0, <2>4
      <3> QED
        BY <2>4, <3>1, <3>2, <3>3, <3>4
    <2> QED
      BY <2>1, <2>2, <2>3, <2>4 DEF BuildTarget
  <1>3. /\ find' \in Finds /\ find'.left \in Seq(Dirs) /\ find'.found \in Seq(Matches)
        /\ Range(find'.found) = Range(find.found) \union Range(new)
        /\ find'.found = find.found \o new
        /\ Head(find.left) \in Dirs /\ Head(queue) \in Names
        /\ Range(incpaths) \ Range(find'.left)
              \subseteq (Range(incpaths) \ Range(find.left)) \union {Head(find.left)}
    BY <1>0, <1>2, NextDirectory
  <1>4. \A n \in Names, D \in SUBSET Dirs, M \in SUBSET Matches : Looked(n, D, M) => Looked(n, D, M)'
    BY <1>0, BuildStep
  <1>5. OldMatches(find.found)'
    <2>1. find.found \in Seq(Matches) /\ OldMatches(find.found)
      BY <1>0 DEF TypeOK, TimeOK, Finds
    <2>2. \A m \in Range(find.found) : m.hash <= changes'
      BY <1>0, <1>2, <2>1, MatchTypes DEF OldMatches, Range, TypeOK
    <2>3. \A m \in Range(new) : m.hash <= changes'
      BY <1>1, <1>2
    <2>4. \A m \in Range(find'.found) : m.hash <= changes'
      BY <1>3, <2>2, <2>3
    <2> QED
      BY <2>4 DEF OldMatches, Range
  <1>6. FindCacheOK' /\ EntryOK' /\ ScanOK' /\ GatherOK' /\ VerifyOK' /\ TimeOK'
    BY <1>1, <1>2, <1>4, <1>5, WorldStep
  <1>7. TypeOK' /\ LocalOK'
    BY <1>0, <1>1, <1>2, <1>3 DEF TypeOK, LocalOK, caches, local
  <1>8. IncOK'
    <2>1. pc # "idle" => mtime'[file] = mtime[file]
      <3>1. pc # "idle" => file \in Paths /\ file # Candidate
        BY <1>0, <1>1, InputTypes DEF TypeOK
      <3> QED
        BY <1>2, <3>1
    <2> QED
      BY <1>0, <1>1, <2>1 DEF IncOK, local
  <1>9. FindOK'
    <2>1. PICK n, D, F : /\ n = Head(queue) /\ D = Range(incpaths) \ Range(find.left)
                         /\ F = Range(find.found)
      OBVIOUS
    <2>2. Looked(n, D, F)'
      <3>1. Looked(n, D, F) /\ D \in SUBSET Dirs /\ F \in SUBSET Matches /\ n \in Names
        BY <1>0, <1>3, <2>1, RangeIn DEF FindOK, TypeOK, Finds
      <3> QED
        BY <1>4, <3>1
    <2>3. PICK c, d, N, E : /\ c = Candidate /\ d = Head(find.left) /\ N = Range(new)
                            /\ E = Range(incpaths) \ Range(find'.left)
      OBVIOUS
    <2>4. Join[<<d, n>>] = c /\ E \subseteq D \union {d}
      BY <1>3, <2>1, <2>3 DEF Candidate
    <2>5. \A m \in N : Good(m)'
      <3>1. N # {} => new # <<>>
        BY <2>3, RangeEmpty
      <3> QED
        BY <1>2, <2>3, <3>1 DEF Good
    <2>6. Here(c)' => \E m \in N : m.path = c
      <3> DEFINE m == [path |-> c, hash |-> mtime'[c]]
      <3>1. m.path = c
        OBVIOUS
      <3>2. Here(c)' => m \in N
        BY <1>1, <1>2, <2>3 DEF Here
      <3> HIDE DEF m
      <3> QED
        BY <3>1, <3>2
    <2>7. Looked(n, E, F \union N)'
      BY <1>1, <1>2, <2>2, <2>3, <2>4, <2>5, <2>6 DEF Looked
    <2>8. n = Head(queue') /\ E = Range(incpaths') \ Range(find'.left) /\ F \union N = Range(find'.found)
      BY <1>1, <1>3, <2>1, <2>3 DEF local
    <2> QED
      BY <1>0, <1>1, <2>7, <2>8 DEF FindOK, Scanned, local
  <1>10. Closed' /\ CachedComplete' /\ GeneratedFirst'
    BY <1>0, <1>1, NoAnswer
  <1> QED
    BY <1>6, <1>7, <1>8, <1>9, <1>10 DEF Inv

-----------------------------------------------------------------------------
(* Cached results *)

\* Scanning starts.
LEMMA RescanStep ==
  ASSUME Inv, NEW f \in Inputs, Rescan(f)
  PROVE  /\ queue' \in Seq(Names) /\ Range(queue') = IncludedBy(f) /\ pc' = "scan"
         /\ \A s : Consistent(f, s, {}, <<>>, IncludedBy(f), {})
  <1>1. f \in Paths /\ TypeOK
    BY InputTypes DEF Inv
  <1>2. queue' \in Seq(Names) /\ Range(queue') = IncludedBy(f) /\ pc' = "scan"
    BY <1>1, ScanTypes DEF Rescan
  <1>3. \A s : Consistent(f, s, {}, <<>>, IncludedBy(f), {})
    BY RangeEmpty DEF Consistent, Distinct
  <1> QED
    BY <1>2, <1>3

\* What find-file has found is remembered.
LEMMA FoundStep ==
  ASSUME Inv, Found, Remember, UNCHANGED <<disk, status, touched, changes>>
  PROVE  /\ queue # <<>> /\ Head(queue) \in Names /\ Tail(queue) \in Seq(Names)
         /\ Range(queue) = {Head(queue)} \union Range(Tail(queue))
         /\ find.found \in Seq(Matches) /\ OldMatches(find.found)
         /\ Looked(Head(queue), Range(incpaths), Range(find.found))
         /\ DOMAIN findcache' \subseteq Names \X Seq(Dirs)
         /\ \A k \in DOMAIN findcache' : findcache'[k] \in Seq(Matches) /\ OldMatches(findcache'[k])
         /\ FindCacheOK'
  <1>0. TypeOK /\ TimeOK /\ FindCacheOK /\ FindOK /\ find # None /\ find.left = <<>>
    BY DEF Inv, Found
  <1>1. /\ queue # <<>> /\ Head(queue) \in Names /\ Tail(queue) \in Seq(Names)
        /\ Range(queue) = {Head(queue)} \union Range(Tail(queue)) /\ incpaths \in Seq(Dirs)
    BY <1>0, HeadTail DEF FindOK, TypeOK
  <1>2. find.found \in Seq(Matches) /\ OldMatches(find.found)
    BY <1>0 DEF TypeOK, TimeOK, Finds
  <1>3. Looked(Head(queue), Range(incpaths), Range(find.found))
    <2>1. Range(incpaths) \ Range(find.left) = Range(incpaths)
      BY <1>0, RangeEmpty
    <2> QED
      BY <1>0, <2>1 DEF FindOK
  <1>4. /\ Key \in Names \X Seq(Dirs) /\ Key[1] = Head(queue) /\ Key[2] = incpaths
    BY <1>1 DEF Key
  <1>5. /\ DOMAIN findcache' = DOMAIN findcache \union {Key}
        /\ \A k \in DOMAIN findcache' : findcache'[k] = IF k = Key THEN find.found ELSE findcache[k]
    BY DEF Remember
  <1>6. FindCacheOK'
    BY <1>0, <1>3, <1>4, <1>5, QuietStep DEF FindCacheOK, disk
  <1> QED
    BY <1>0, <1>1, <1>2, <1>3, <1>4, <1>5, <1>6 DEF TypeOK, TimeOK

LEMMA GatherPathsInvariant == ASSUME Inv, GatherPaths PROVE Inv'
  <1>0. /\ TypeOK /\ TimeOK /\ LocalOK /\ FindCacheOK /\ EntryOK /\ IncOK /\ GatherOK
        /\ pc = "gather" /\ answer = None /\ find = None /\ file \in Inputs
        /\ headerscan[file].results \in Seq(Results) /\ rest \in Seq(Results) /\ incpaths \in Seq(Dirs)
    BY DEF Inv, GatherPaths, LocalOK, TypeOK, Entries
  <1>1. FindCacheOK' /\ EntryOK'
    BY <1>0, QuietStep DEF GatherPaths, disk, caches, world
  <1>2. Closed' /\ CachedComplete' /\ GeneratedFirst'
    BY <1>0, NoAnswer DEF GatherPaths
  <1>3. TimeOK'
    BY <1>0 DEF GatherPaths, TimeOK, OldResults, OldMatches, disk, caches, world
  <1>4. CASE rest = <<>>
    <2>1. /\ pc' = "verify" /\ queue' = NamesOf(headerscan[file].results) /\ UNCHANGED <<incpaths, rest>>
      BY <1>4 DEF GatherPaths
    <2>2. /\ queue' \in Seq(Names)
          /\ \A i \in DOMAIN headerscan[file].results : headerscan[file].results[i].name \in Range(queue')
      BY <1>0, <2>1, NamesTypes
    <2>3. <<>> \in Seq(Matches)
      OBVIOUS
    <2>4. TypeOK' /\ LocalOK' /\ IncOK' /\ FindOK' /\ ScanOK'
      BY <1>0, <1>4, <2>1, <2>2, <2>3 DEF GatherPaths, TypeOK, LocalOK, IncOK, FindOK, ScanOK, disk, caches, world
    <2>5. GatherOK' /\ VerifyOK'
      BY <1>0, <1>4, <2>1, <2>2, RangeEmpty DEF GatherPaths, GatherOK, VerifyOK, caches
    <2> QED
      BY <1>1, <1>2, <1>3, <2>4, <2>5 DEF Inv
  <1>5. CASE rest # <<>>
    <2> DEFINE matches == Head(rest).matches
    <2>1. /\ Head(rest) \in Results /\ Tail(rest) \in Seq(Results) /\ matches \in Seq(Matches)
          /\ Range(rest) = {Head(rest)} \union Range(Tail(rest))
      <3>1. /\ Head(rest) \in Results /\ Tail(rest) \in Seq(Results)
            /\ Range(rest) = {Head(rest)} \union Range(Tail(rest))
        BY <1>0, <1>5, HeadTail
      <3> QED
        BY <3>1 DEF Results
    <2>2. /\ incpaths' \in Seq(Dirs) /\ Range(incpaths) \subseteq Range(incpaths')
          /\ rest' \in Seq(Results) /\ Range(Tail(rest)) \subseteq Range(rest')
          /\ matches = <<>> \/ DirOf[matches[1].path] \in Range(incpaths')
      <3>1. CASE matches = <<>>
        BY <1>0, <1>5, <2>1, <3>1 DEF GatherPaths
      <3>2. CASE matches # <<>>
        <4> DEFINE r == [name |-> Head(rest).name, matches |-> SubSeq(matches, 4, Len(matches))]
        <4>1. incpaths' = VerifyPaths(incpaths, matches[1].path) /\ rest' = <<r>> \o Tail(rest)
          BY <1>5, <3>2 DEF GatherPaths
        <4>2. matches[1].path \in Paths
          BY <2>1, <3>2, HeadTail, MatchTypes
        <4>3. /\ incpaths' \in Seq(Dirs) /\ Range(incpaths) \subseteq Range(incpaths')
              /\ DirOf[matches[1].path] \in Range(incpaths')
          BY <1>0, <4>1, <4>2, PathTypes
        <4>4. SubSeq(matches, 4, Len(matches)) \in Seq(Matches)
          BY <2>1
        <4>5. r \in Results
          BY <2>1, <4>4 DEF Results
        <4> HIDE DEF r
        <4>6. rest' \in Seq(Results) /\ Range(Tail(rest)) \subseteq Range(rest')
          BY <2>1, <4>1, <4>5, PrependRange
        <4> QED
          BY <4>3, <4>6
      <3> QED
        BY <3>1, <3>2
    <2>3. UNCHANGED <<pc, queue, disk, status, caches, file, stamp, deps, results, find, answer, world>>
      BY <1>5 DEF GatherPaths
    <2>4. TypeOK' /\ LocalOK' /\ IncOK' /\ FindOK' /\ ScanOK' /\ VerifyOK'
      BY <1>0, <2>2, <2>3 DEF TypeOK, LocalOK, IncOK, FindOK, ScanOK, VerifyOK, disk, caches, world
    <2>5. GatherOK'
      <3>1. ASSUME NEW i \in DOMAIN headerscan[file].results, NEW res, res = headerscan[file].results[i]
            PROVE  \/ res.matches = <<>>
                   \/ DirOf[res.matches[1].path] \in Range(incpaths')
                   \/ res \in Range(rest')
        BY <1>0, <2>1, <2>2, <3>1 DEF GatherOK
      <3> QED
        BY <1>0, <2>3, <3>1 DEF GatherOK, caches
    <2> QED
      BY <1>1, <1>2, <1>3, <2>4, <2>5 DEF Inv
  <1> QED
    BY <1>4, <1>5

LEMMA VerifyNameInvariant == ASSUME Inv, VerifyName PROVE Inv'
  <1>0. /\ TypeOK /\ TimeOK /\ LocalOK /\ FindOK /\ EntryOK /\ IncOK /\ GatherOK /\ VerifyOK
        /\ pc = "verify" /\ answer = None /\ file \in Inputs /\ Found /\ Remember /\ find' = None
        /\ rest = <<>> /\ deps = {} /\ results = <<>> /\ stamp \in Stamps
        /\ headerscan[file].results \in Seq(Results) /\ incpaths \in Seq(Dirs)
        /\ UNCHANGED <<disk, status, headerscan, file, stamp, incpaths, rest, deps, results, answer, world>>
    BY DEF Inv, VerifyName, LocalOK, TypeOK, Entries
  <1>1. /\ queue # <<>> /\ Head(queue) \in Names /\ Tail(queue) \in Seq(Names)
        /\ Range(queue) = {Head(queue)} \union Range(Tail(queue))
        /\ Looked(Head(queue), Range(incpaths), Range(find.found))
        /\ DOMAIN findcache' \subseteq Names \X Seq(Dirs)
        /\ \A k \in DOMAIN findcache' : findcache'[k] \in Seq(Matches) /\ OldMatches(findcache'[k])
        /\ FindCacheOK'
    BY <1>0, FoundStep DEF world
  <1>2. Closed' /\ CachedComplete' /\ GeneratedFirst'
    BY <1>0, NoAnswer
  <1>3. FindOK' /\ IncOK'
    BY <1>0 DEF FindOK, IncOK, disk, world
  <1>4. CASE find.found = Cached
    <2>1. queue' = Tail(queue) /\ UNCHANGED pc
      BY <1>4 DEF VerifyName
    <2>2. EntryOK'
      BY <1>0, <2>1, QuietStep DEF disk, world
    <2>3. TypeOK' /\ LocalOK' /\ ScanOK'
      BY <1>0, <1>1, <2>1 DEF TypeOK, LocalOK, ScanOK, disk, world
    <2>4. TimeOK'
      BY <1>0, <1>1, <2>1 DEF TimeOK, OldResults, OldMatches, disk, world
    <2>5. Distinct(headerscan[file].results)
      BY <1>0, StampNotNone DEF EntryOK, GatherOK, Consistent
    <2>6. ASSUME NEW i \in DOMAIN headerscan[file].results
          PROVE  \/ headerscan[file].results[i].name \in Range(Tail(queue))
                 \/ Looked(headerscan[file].results[i].name, Range(incpaths), Range(headerscan[file].results[i].matches))
      <3>1. CASE headerscan[file].results[i].name = Head(queue)
        <4>1. headerscan[file].results[i].matches = Cached
          BY <2>5, <2>6, <3>1 DEF Cached, Distinct
        <4> QED
          BY <1>1, <1>4, <3>1, <4>1
      <3>2. CASE headerscan[file].results[i].name # Head(queue)
        BY <1>0, <1>1, <2>6, <3>2 DEF VerifyOK
      <3> QED
        BY <3>1, <3>2
    <2>7. VerifyOK'
      BY <1>0, <2>1, <2>6, QuietStep DEF VerifyOK, disk, world
    <2>8. GatherOK'
      BY <1>0, <2>1 DEF GatherOK
    <2> QED
      BY <1>1, <1>2, <1>3, <2>2, <2>3, <2>4, <2>7, <2>8 DEF Inv
  <1>5. CASE find.found # Cached
    <2>1. Rescan(file)
      BY <1>5 DEF VerifyName
    <2>2. /\ queue' \in Seq(Names) /\ Range(queue') = IncludedBy(file) /\ pc' = "scan"
          /\ \A s : Consistent(file, s, {}, <<>>, IncludedBy(file), {})
      BY <1>0, <2>1, RescanStep
    <2>6. EntryOK'
      BY <1>0, QuietStep DEF disk, world
    <2>3. TypeOK' /\ LocalOK' /\ GatherOK' /\ VerifyOK'
      BY <1>0, <1>1, <2>2 DEF TypeOK, LocalOK, GatherOK, VerifyOK, disk, world
    <2>4. TimeOK'
      BY <1>0, <1>1, <2>2 DEF TimeOK, OldResults, OldMatches, disk, world
    <2>5. ScanOK'
      <3>1. {rest[i].path : i \in DOMAIN rest} = {}
        BY <1>0, RangeEmpty
      <3>2. Consistent(file, stamp, deps, results, Range(queue'), {rest[i].path : i \in DOMAIN rest})
        BY <1>0, <2>2, <3>1
      <3>3. Consistent(file', stamp', deps', results', Range(queue'), {rest'[i].path : i \in DOMAIN rest'})
        BY <1>0, <3>2
      <3>4. ScanOK' <=> Consistent(file', stamp', deps', results', Range(queue'), {rest'[i].path : i \in DOMAIN rest'})
        BY <1>0, <2>2, RangeEmpty, QuietStep DEF ScanOK, disk, world
      <3> QED
        BY <3>3, <3>4
    <2> QED
      BY <1>1, <1>2, <1>3, <2>3, <2>4, <2>5, <2>6 DEF Inv
  <1> QED
    BY <1>4, <1>5

-----------------------------------------------------------------------------
(* Scanning *)

\* Appending a result.
LEMMA AppendResult ==
  ASSUME NEW rs \in Seq(Results), NEW r \in Results
  PROVE  LET new == Append(rs, r) IN
         /\ new \in Seq(Results)
         /\ \A i \in DOMAIN rs : i \in DOMAIN new /\ new[i] = rs[i]
         /\ \E k \in DOMAIN new : /\ k \notin DOMAIN rs /\ new[k] = r
                                  /\ \A i \in DOMAIN new : i = k \/ i \in DOMAIN rs
         /\ Range(NamesOf(new)) = Range(NamesOf(rs)) \union {r.name}
  <1> DEFINE new == Append(rs, r)
             k == Len(rs) + 1
  <1>1. /\ new \in Seq(Results) /\ Len(rs) \in Nat
        /\ DOMAIN rs = 1 .. Len(rs) /\ DOMAIN new = 1 .. k
    BY LenProperties
  <1>2. \A i \in 1 .. k : new[i] = IF i = k THEN r ELSE rs[i]
    OBVIOUS
  <1>3. /\ \A i \in DOMAIN rs : i \in DOMAIN new /\ new[i] = rs[i]
        /\ k \in DOMAIN new /\ k \notin DOMAIN rs /\ new[k] = r
        /\ \A i \in DOMAIN new : i = k \/ i \in DOMAIN rs
    BY <1>1, <1>2
  <1> HIDE DEF k, new
  <1>4. Range(NamesOf(new)) = {new[i].name : i \in DOMAIN new}
    BY <1>1, NamesTypes
  <1>5. Range(NamesOf(rs)) = {rs[i].name : i \in DOMAIN rs}
    BY NamesTypes
  <1>6. {new[i].name : i \in DOMAIN new} = {rs[i].name : i \in DOMAIN rs} \union {r.name}
    BY <1>3
  <1>7. /\ new \in Seq(Results)
        /\ \A i \in DOMAIN rs : i \in DOMAIN new /\ new[i] = rs[i]
        /\ \E l \in DOMAIN new : /\ l \notin DOMAIN rs /\ new[l] = r
                                 /\ \A i \in DOMAIN new : i = l \/ i \in DOMAIN rs
        /\ Range(NamesOf(new)) = Range(NamesOf(rs)) \union {r.name}
    BY <1>1, <1>3, <1>4, <1>5, <1>6
  <1> QED
    BY <1>7 DEF new

LEMMA ScanNameInvariant == ASSUME Inv, ScanName PROVE Inv'
  <1>0. /\ TypeOK /\ TimeOK /\ LocalOK /\ FindOK /\ EntryOK /\ IncOK /\ ScanOK
        /\ pc = "scan" /\ answer = None /\ file \in Inputs /\ Found /\ Remember /\ find' = None
        /\ rest = <<>> /\ stamp \in Stamps /\ results \in Seq(Results) /\ incpaths \in Seq(Dirs)
        /\ Head(queue) \notin Scanned
        /\ rest' = find.found /\ queue' = Tail(queue)
        /\ UNCHANGED <<disk, status, headerscan, pc, file, stamp, incpaths, deps, answer, world>>
    BY DEF Inv, ScanName, LocalOK, TypeOK, Found, FindOK
  <1>1. /\ queue # <<>> /\ Head(queue) \in Names /\ Tail(queue) \in Seq(Names)
        /\ Range(queue) = {Head(queue)} \union Range(Tail(queue))
        /\ find.found \in Seq(Matches) /\ OldMatches(find.found)
        /\ Looked(Head(queue), Range(incpaths), Range(find.found))
        /\ DOMAIN findcache' \subseteq Names \X Seq(Dirs)
        /\ \A k \in DOMAIN findcache' : findcache'[k] \in Seq(Matches) /\ OldMatches(findcache'[k])
        /\ FindCacheOK'
    BY <1>0, FoundStep DEF world
  <1>2. /\ results' \in Seq(Results)
        /\ \A i \in DOMAIN results : i \in DOMAIN results' /\ results'[i] = results[i]
        /\ \E k \in DOMAIN results' :
              /\ k \notin DOMAIN results
              /\ results'[k].name = Head(queue) /\ results'[k].matches = find.found
              /\ \A i \in DOMAIN results' : i = k \/ i \in DOMAIN results
        /\ Range(NamesOf(results')) = Range(NamesOf(results)) \union {Head(queue)}
    <2>1. PICK r : r = [name |-> Head(queue), matches |-> find.found]
      OBVIOUS
    <2>2. r \in Results /\ r.name = Head(queue) /\ r.matches = find.found
      BY <1>1, <2>1 DEF Results
    <2>3. PICK new : new = Append(results, r)
      OBVIOUS
    <2>4. results' = new
      BY <2>1, <2>3 DEF ScanName
    <2>5. /\ new \in Seq(Results)
          /\ \A i \in DOMAIN results : i \in DOMAIN new /\ new[i] = results[i]
          /\ \E k \in DOMAIN new : /\ k \notin DOMAIN results /\ new[k] = r
                                   /\ \A i \in DOMAIN new : i = k \/ i \in DOMAIN results
          /\ Range(NamesOf(new)) = Range(NamesOf(results)) \union {r.name}
      BY <1>0, <2>2, <2>3, AppendResult
    <2> QED
      BY <2>2, <2>4, <2>5
  <1>3. PICK k \in DOMAIN results' :
              /\ k \notin DOMAIN results
              /\ results'[k].name = Head(queue) /\ results'[k].matches = find.found
              /\ \A i \in DOMAIN results' : i = k \/ i \in DOMAIN results
    BY <1>2
  <1>4. Closed' /\ CachedComplete' /\ GeneratedFirst'
    BY <1>0, NoAnswer
  <1>5. FindOK' /\ IncOK' /\ GatherOK' /\ VerifyOK' /\ LocalOK'
    BY <1>0 DEF FindOK, IncOK, GatherOK, VerifyOK, LocalOK, disk, world
  <1>6. EntryOK'
    BY <1>0, QuietStep DEF disk, world
  <1>7. TypeOK'
    BY <1>0, <1>1, <1>2 DEF TypeOK, disk, world
  <1>8. TimeOK'
    <2>1. \A i \in DOMAIN results' : OldMatches(results'[i].matches)
      BY <1>0, <1>1, <1>2, <1>3 DEF TimeOK, OldResults
    <2> QED
      BY <1>0, <1>1, <2>1 DEF TimeOK, OldResults, OldMatches, disk, world
  <1>9. ScanOK'
    <2>0. Consistent(file, stamp, deps, results, Range(queue), {})
      <3>1. {rest[i].path : i \in DOMAIN rest} = {}
        BY <1>0, RangeEmpty
      <3> QED
        BY <1>0, <3>1 DEF ScanOK
    <2>1. Distinct(results')
      <3>1. \A i \in DOMAIN results : results[i].name # Head(queue)
        BY <1>0 DEF Scanned
      <3> QED
        BY <1>2, <1>3, <2>0, <3>1 DEF Distinct, Consistent
    <2>2. \A p : MatchOf(p, results) => MatchOf(p, results')
      BY <1>2 DEF MatchOf
    <2>3. \A p : Fresh(p, results') => Fresh(p, results)
      BY <1>2 DEF Fresh
    <2>4. \A i \in DOMAIN results' : \A j \in DOMAIN results'[i].matches :
              results'[i].matches[j].path \in deps \union {rest'[l].path : l \in DOMAIN rest'}
      BY <1>0, <1>2, <1>3, <2>0 DEF Consistent
    <2>5. \A i \in DOMAIN rest' : MatchOf(rest'[i].path, results')
      BY <1>0, <1>3 DEF MatchOf
    <2>6. Consistent(file, stamp, deps, results', Range(queue'), {rest'[l].path : l \in DOMAIN rest'})
      BY <1>0, <1>1, <1>2, <2>0, <2>1, <2>2, <2>3, <2>4 DEF Consistent
    <2>7. \A i \in DOMAIN results' : Looked(results'[i].name, Range(stamp.paths), Range(results'[i].matches))
      <3>1. Looked(Head(queue), Range(stamp.paths), Range(find.found))
        BY <1>0, <1>1 DEF IncOK, Looked
      <3> QED
        BY <1>0, <1>2, <1>3, <3>1 DEF ScanOK
    <2> QED
      BY <1>0, <2>5, <2>6, <2>7, QuietStep DEF ScanOK, disk, world
  <1> QED
    BY <1>1, <1>4, <1>5, <1>6, <1>7, <1>8, <1>9 DEF Inv

LEMMA TakeMatchInvariant == ASSUME Inv, TakeMatch PROVE Inv'
  <1> DEFINE p == Head(rest).path
             P == {rest[i].path : i \in DOMAIN rest}
             R == {rest'[i].path : i \in DOMAIN rest'}
  <1>0. /\ TypeOK /\ TimeOK /\ LocalOK /\ FindCacheOK /\ FindOK /\ EntryOK /\ IncOK /\ ScanOK
        /\ pc = "scan" /\ answer = None /\ file \in Inputs /\ find = None
        /\ rest # <<>> /\ rest \in Seq(Matches) /\ results \in Seq(Results)
        /\ incpaths \in Seq(Dirs) /\ queue \in Seq(Names) /\ deps \subseteq Paths
        /\ rest' = Tail(rest)
        /\ UNCHANGED <<disk, status, caches, pc, file, stamp, results, find, answer, world>>
    BY DEF Inv, TakeMatch, LocalOK, TypeOK, FindOK
  <1>1. /\ p \in Paths /\ Tail(rest) \in Seq(Matches) /\ P = {p} \union R
        /\ 1 \in DOMAIN rest /\ p = rest[1].path
    <2>1. /\ Head(rest) \in Matches /\ Tail(rest) \in Seq(Matches) /\ 1 \in DOMAIN rest
          /\ Head(rest) = rest[1]
          /\ Range(rest) = {Head(rest)} \union Range(Tail(rest))
      BY <1>0, HeadTail
    <2>2. P = {m.path : m \in Range(rest)} /\ R = {m.path : m \in Range(rest')}
      BY DEF Range
    <2>3. Head(rest).path \in Paths
      BY <2>1 DEF Matches
    <2> QED
      BY <1>0, <2>1, <2>2, <2>3
  <1>2. /\ MatchOf(p, results)
        /\ \A i \in DOMAIN rest' : MatchOf(rest'[i].path, results)
    <2>1. \A q \in P : MatchOf(q, results)
      BY <1>0 DEF ScanOK
    <2> QED
      BY <1>1, <2>1
  <1>3. Consistent(file, stamp, deps, results, Range(queue), P)
    BY <1>0 DEF ScanOK
  <1> HIDE DEF P
  <1>4. /\ incpaths' \in Seq(Dirs) /\ queue' \in Seq(Names) /\ deps' \in SUBSET Paths
        /\ Range(incpaths) \subseteq Range(incpaths')
        /\ Consistent(file, stamp, deps', results, Range(queue'), R)
    <2>1. CASE p \in deps
      <3>1. UNCHANGED <<incpaths, queue, deps>>
        BY <2>1 DEF TakeMatch
      <3>2. Consistent(file, stamp, deps, results, Range(queue), R)
        BY <1>1, <1>3, <2>1 DEF Consistent
      <3> QED
        BY <1>0, <3>1, <3>2
    <2>2. CASE p \notin deps
      <3>1. /\ deps' = deps \union {p} /\ incpaths' = LappendUniq(incpaths, DirOf[p])
            /\ queue' = queue \o HeaderScanRegexp(p)
        BY <2>2 DEF TakeMatch
      <3>2. HeaderScanRegexp(p) \in Seq(Names) /\ IncludedBy(p) = Range(HeaderScanRegexp(p))
        BY <1>0, <1>1, ScanTypes
      <3>3. queue' \in Seq(Names) /\ Range(queue') = Range(queue) \union IncludedBy(p)
        BY <1>0, <3>1, <3>2, ConcatRange
      <3>4. incpaths' \in Seq(Dirs) /\ Range(incpaths) \subseteq Range(incpaths')
        BY <1>0, <1>1, <3>1, PathTypes
      <3> HIDE DEF p, R
      <3>5. Consistent(file, stamp, deps \union {p}, results, Range(queue) \union IncludedBy(p), R)
        BY <1>1, <1>2, <1>3 DEF Consistent
      <3> QED
        BY <1>0, <1>1, <3>1, <3>3, <3>4, <3>5
    <2> QED
      BY <2>1, <2>2
  <1>5. Closed' /\ CachedComplete' /\ GeneratedFirst'
    BY <1>0, NoAnswer
  <1>6. TypeOK' /\ LocalOK' /\ FindOK' /\ IncOK' /\ GatherOK' /\ VerifyOK'
    BY <1>0, <1>1, <1>4 DEF TypeOK, LocalOK, FindOK, IncOK, GatherOK, VerifyOK, disk, caches, world
  <1>7. TimeOK'
    BY <1>0 DEF TimeOK, OldResults, OldMatches, disk, caches, world
  <1>8. FindCacheOK' /\ EntryOK'
    BY <1>0, QuietStep DEF disk, caches, world
  <1>9. ScanOK'
    BY <1>0, <1>2, <1>4, QuietStep DEF ScanOK, disk, world
  <1> QED
    BY <1>5, <1>6, <1>7, <1>8, <1>9 DEF Inv

-----------------------------------------------------------------------------
(* Answers *)

\* Every input of an answer of headers hs and results rs has been looked up,
\* and everything found is among the headers.
LEMMA AnswerClosed ==
  ASSUME TypeOK, ~touched, NEW f \in Paths, NEW s, NEW hs \in SUBSET Paths, NEW rs \in Seq(Results),
         Consistent(f, s, hs, rs, {}, {}), s.hash = mtime[f], NEW D,
         \A i \in DOMAIN rs : Looked(rs[i].name, D, Range(rs[i].matches))
  PROVE  \A p \in hs \union {f} : \A n \in IncludedBy(p) \ {NameOf[f]}, d \in D :
            Here(Join[<<d, n>>]) => Join[<<d, n>>] \in hs
  <1> SUFFICES ASSUME NEW p \in hs \union {f}, NEW n \in IncludedBy(p) \ {NameOf[f]}, NEW d \in D,
                      Here(Join[<<d, n>>])
               PROVE  Join[<<d, n>>] \in hs
    OBVIOUS
  <1>1. \A i \in DOMAIN rs : \A j \in DOMAIN rs[i].matches : rs[i].matches[j].hash = mtime[rs[i].matches[j].path]
    BY DEF Looked, Good, Range
  <1>2. \A q : Fresh(q, rs)
    BY <1>1 DEF Fresh
  <1>3. n \in Range(NamesOf(rs))
    BY <1>2 DEF Consistent
  <1>4. PICK i \in DOMAIN rs : rs[i].name = n
    BY <1>3, NamesTypes
  <1>5. PICK m \in Range(rs[i].matches) : m.path = Join[<<d, n>>]
    BY <1>4 DEF Looked
  <1>6. PICK j \in DOMAIN rs[i].matches : m = rs[i].matches[j]
    BY <1>5 DEF Range
  <1> QED
    BY <1>5, <1>6 DEF Consistent

\* Headers that rules make have been made.
LEMMA AnswerGenerated ==
  ASSUME NEW f, NEW s, NEW hs, NEW rs, Consistent(f, s, hs, rs, {}, {}), NEW D,
         \A i \in DOMAIN rs : Looked(rs[i].name, D, Range(rs[i].matches))
  PROVE  \A t \in hs \intersect Targets : status[t] \in {"built", "uptodate"}
  <1> SUFFICES ASSUME NEW t \in hs \intersect Targets PROVE status[t] \in {"built", "uptodate"}
    OBVIOUS
  <1>1. PICK i \in DOMAIN rs : \E j \in DOMAIN rs[i].matches : rs[i].matches[j].path = t
    BY DEF Consistent, MatchOf
  <1>2. PICK j \in DOMAIN rs[i].matches : rs[i].matches[j].path = t
    BY <1>1
  <1>3. Good(rs[i].matches[j])
    BY DEF Looked, Range
  <1> QED
    BY <1>2, <1>3 DEF Good

\* What returning does apart from the answer.
LEMMA ReturnStep ==
  ASSUME Inv, NEW hs \in SUBSET Paths, NEW how \in {"cached", "scanned"}, Return(hs, how), pc # "idle", dirty' \in BOOLEAN,
         headerscan' \in [Inputs -> Entries], EntryOK',
         \A f \in Inputs : /\ OldResults(headerscan'[f].results)
                           /\ headerscan'[f].stamp # None => headerscan'[f].stamp.hash <= changes
  PROVE  /\ TypeOK' /\ TimeOK' /\ LocalOK' /\ FindCacheOK' /\ FindOK' /\ EntryOK' /\ IncOK'
         /\ ScanOK' /\ GatherOK' /\ VerifyOK'
  <1>0. /\ TypeOK /\ TimeOK /\ LocalOK /\ FindCacheOK /\ file \in Paths /\ stamp \in Stamps
        /\ stamp.paths \in Seq(Dirs)
    BY InputTypes DEF Inv, TypeOK, Stamps
  <1>1. answer' \in Answers
    BY <1>0 DEF Return, Answers
  <1>2. TypeOK'
    BY <1>0, <1>1 DEF Return, ClearLocal, TypeOK, disk, world
  <1>3. TimeOK'
    BY <1>0 DEF Return, ClearLocal, TimeOK, OldResults, OldMatches, disk, world
  <1>4. FindCacheOK'
    BY <1>0, QuietStep DEF Return, disk, world
  <1> QED
    BY <1>2, <1>3, <1>4 DEF Return, ClearLocal, LocalOK, FindOK, IncOK, ScanOK, GatherOK, VerifyOK

LEMMA ReturnScannedInvariant == ASSUME Inv, ReturnScanned PROVE Inv'
  <1>0. /\ TypeOK /\ TimeOK /\ EntryOK /\ IncOK /\ ScanOK /\ pc = "scan" /\ pc # "idle" /\ file \in Inputs
        /\ file \in Paths /\ stamp \in Stamps /\ results \in Seq(Results) /\ deps \in SUBSET Paths
        /\ queue = <<>> /\ rest = <<>> /\ Return(deps, "scanned")
        /\ UNCHANGED <<files, mtime, status, touched, changes>> /\ dirty' \in BOOLEAN
    BY InputTypes DEF Inv, ReturnScanned, Return, TypeOK, disk, world
  <1>1. Consistent(file, stamp, deps, results, {}, {})
    <2>1. Range(queue) = {} /\ {rest[i].path : i \in DOMAIN rest} = {}
      BY <1>0, RangeEmpty
    <2> QED
      BY <1>0, <2>1 DEF ScanOK
  <1>2. /\ Entry \in Entries /\ Entry.stamp = stamp /\ Entry.headers = deps /\ Entry.results = results
    BY <1>0 DEF Entry, Entries
  <1>3. /\ headerscan' \in [Inputs -> Entries]
        /\ \A f \in Inputs : headerscan'[f] = IF f = file THEN Entry ELSE headerscan[f]
    BY <1>0, <1>2 DEF ReturnScanned, TypeOK
  <1>4. EntryOK'
    BY <1>0, <1>1, <1>2, <1>3, QuietStep DEF EntryOK
  <1>5. \A f \in Inputs : /\ OldResults(headerscan'[f].results)
                          /\ headerscan'[f].stamp # None => headerscan'[f].stamp.hash <= changes
    BY <1>0, <1>2, <1>3 DEF TimeOK
  <1>6. /\ TypeOK' /\ TimeOK' /\ LocalOK' /\ FindCacheOK' /\ FindOK' /\ EntryOK' /\ IncOK'
        /\ ScanOK' /\ GatherOK' /\ VerifyOK'
    BY <1>0, <1>3, <1>4, <1>5, ReturnStep
  <1>7. /\ answer'.file = file /\ answer'.headers = deps /\ answer'.paths = stamp.paths
        /\ answer'.how = "scanned"
    BY <1>0 DEF Return
  <1>8. Closed'
    <2>1. ~touched => \A p \in deps \union {file} : \A n \in IncludedBy(p) \ {NameOf[file]}, d \in Range(stamp.paths) :
                          Here(Join[<<d, n>>]) => Join[<<d, n>>] \in deps
      <3>1. CASE ~touched
        <4>1. /\ stamp.hash = mtime[file]
              /\ \A i \in DOMAIN results : Looked(results[i].name, Range(stamp.paths), Range(results[i].matches))
          BY <1>0, <3>1 DEF IncOK, ScanOK
        <4>2. PICK hs, rs, D : hs = deps /\ rs = results /\ D = Range(stamp.paths)
          OBVIOUS
        <4>3. /\ hs \in SUBSET Paths /\ rs \in Seq(Results)
              /\ Consistent(file, stamp, hs, rs, {}, {})
              /\ \A i \in DOMAIN rs : Looked(rs[i].name, D, Range(rs[i].matches))
          BY <1>0, <1>1, <4>1, <4>2
        <4>4. \A p \in hs \union {file} : \A n \in IncludedBy(p) \ {NameOf[file]}, d \in D :
                  Here(Join[<<d, n>>]) => Join[<<d, n>>] \in hs
          BY <1>0, <3>1, <4>1, <4>3, AnswerClosed
        <4> QED
          BY <4>2, <4>4
      <3> QED
        BY <3>1
    <2>2. \A p : IncludedBy(p)' = IncludedBy(p)
      BY <1>0 DEF IncludedBy, HeaderScanRegexp
    <2> QED
      BY <1>0, <1>7, <2>1, <2>2 DEF Closed, ClosedUnder, Steady, Here
  <1>9. CachedComplete'
    BY <1>7 DEF CachedComplete
  <1>10. GeneratedFirst'
    BY <1>0, <1>1, <1>7, AnswerGenerated DEF GeneratedFirst, ScanOK
  <1> QED
    BY <1>6, <1>8, <1>9, <1>10 DEF Inv

LEMMA ReturnCachedInvariant == ASSUME Inv, ReturnCached PROVE Inv'
  <1>0. /\ TypeOK /\ TimeOK /\ EntryOK /\ IncOK /\ GatherOK /\ VerifyOK /\ pc = "verify" /\ pc # "idle"
        /\ file \in Inputs /\ file \in Paths /\ stamp \in Stamps
        /\ queue = <<>> /\ Return(headerscan[file].headers, "cached")
        /\ UNCHANGED <<files, mtime, status, touched, changes, headerscan>> /\ dirty' \in BOOLEAN
    BY InputTypes DEF Inv, ReturnCached, Return, TypeOK, disk, world
  <1> DEFINE e == headerscan[file]
  <1>1. /\ e.headers \in SUBSET Paths /\ e.results \in Seq(Results) /\ e.stamp = stamp
        /\ Consistent(file, stamp, e.headers, e.results, {}, {})
    BY <1>0, StampNotNone DEF TypeOK, Entries, GatherOK, EntryOK
  <1>2. \A i \in DOMAIN e.results : Looked(e.results[i].name, Range(incpaths), Range(e.results[i].matches))
    BY <1>0, RangeEmpty DEF VerifyOK
  <1>3. \A i \in DOMAIN e.results : \/ e.results[i].matches = <<>>
                                    \/ DirOf[e.results[i].matches[1].path] \in Range(incpaths)
    BY <1>0 DEF GatherOK
  <1>4. /\ TypeOK' /\ TimeOK' /\ LocalOK' /\ FindCacheOK' /\ FindOK' /\ EntryOK' /\ IncOK'
        /\ ScanOK' /\ GatherOK' /\ VerifyOK'
    <2>1. EntryOK' /\ headerscan' \in [Inputs -> Entries]
      BY <1>0, QuietStep DEF TypeOK
    <2>2. \A f \in Inputs : /\ OldResults(headerscan'[f].results)
                            /\ headerscan'[f].stamp # None => headerscan'[f].stamp.hash <= changes
      BY <1>0 DEF TimeOK
    <2> QED
      BY <1>0, <1>1, <2>1, <2>2, ReturnStep
  <1>5. answer'.file = file /\ answer'.headers = e.headers /\ answer'.paths = stamp.paths
    BY <1>0 DEF Return
  <1> HIDE DEF e
  <1>6. ~touched => \A p \in e.headers \union {file} : \A n \in IncludedBy(p) \ {NameOf[file]}, d \in Range(incpaths) :
                        Here(Join[<<d, n>>]) => Join[<<d, n>>] \in e.headers
    <2>1. ~touched => stamp.hash = mtime[file]
      BY <1>0 DEF IncOK
    <2>2. PICK hs, rs, D : hs = e.headers /\ rs = e.results /\ D = Range(incpaths)
      OBVIOUS
    <2>3. /\ hs \in SUBSET Paths /\ rs \in Seq(Results)
          /\ Consistent(file, stamp, hs, rs, {}, {})
          /\ \A i \in DOMAIN rs : Looked(rs[i].name, D, Range(rs[i].matches))
      BY <1>1, <1>2, <2>2
    <2>4. ~touched => \A p \in hs \union {file} : \A n \in IncludedBy(p) \ {NameOf[file]}, d \in D :
                          Here(Join[<<d, n>>]) => Join[<<d, n>>] \in hs
      <3>1. CASE ~touched
        BY <1>0, <2>1, <2>3, <3>1, AnswerClosed
      <3> QED
        BY <3>1
    <2> QED
      BY <2>2, <2>4
  <1>7. \A p : IncludedBy(p)' = IncludedBy(p)
    BY <1>0 DEF IncludedBy, HeaderScanRegexp
  <1>8. Closed'
    BY <1>0, <1>5, <1>6, <1>7 DEF Closed, ClosedUnder, Steady, Here, IncOK
  <1>9. CachedComplete'
    <2>1. ASSUME Unique(file), NEW h \in e.headers PROVE DirOf[h] \in Range(incpaths)
      <3>1. PICK i \in DOMAIN e.results : \E j \in DOMAIN e.results[i].matches : e.results[i].matches[j].path = h
        BY <1>1 DEF Consistent, MatchOf
      <3>2. PICK j \in DOMAIN e.results[i].matches : e.results[i].matches[j].path = h
        BY <3>1
      <3>3. /\ e.results[i].matches \in Seq(Matches) /\ Len(e.results[i].matches) < 2
            /\ e.results[i].matches # <<>>
        BY <1>1, <2>1, <3>2, ResultTypes, RangeEmpty DEF Unique, e
      <3>4. j = 1
        BY <3>2, <3>3, LenProperties
      <3> QED
        BY <1>3, <3>2, <3>3, <3>4
    <2>2. Unique(answer.file)' => Unique(file)
      BY <1>0, <1>5 DEF Unique
    <2> QED
      BY <1>0, <1>5, <1>6, <1>7, <2>1, <2>2 DEF CachedComplete, ClosedUnder, Steady, Here, IncOK
  <1>10. GeneratedFirst'
    BY <1>0, <1>1, <1>2, <1>5, AnswerGenerated DEF GeneratedFirst
  <1> QED
    BY <1>4, <1>8, <1>9, <1>10 DEF Inv

-----------------------------------------------------------------------------
(* Beginning, editing and running again *)

LEMMA StartScanInvariant == ASSUME Inv, NEW r \in Rules, StartScan(r) PROVE Inv'
  <1> DEFINE f == Input[r]
             s == Stamp(f, incpath[r])
  <1>0. /\ TypeOK /\ TimeOK /\ LocalOK /\ FindCacheOK /\ EntryOK /\ pc = "idle"
        /\ queue = <<>> /\ rest = <<>> /\ deps = {} /\ results = <<>> /\ find = None
        /\ f \in Inputs /\ f \in Paths /\ incpath[r] \in Seq(Dirs)
    BY InputTypes DEF Inv, StartScan, LocalOK, TypeOK, Inputs
  <1>1. /\ file' = f /\ stamp' = s /\ incpaths' = s.paths /\ answer' = None
        /\ UNCHANGED <<disk, status, findcache, headerscan, deps, results, find, incpath, changes, touched, dirty>>
    BY DEF StartScan, caches
  <1>2. /\ s \in Stamps /\ s.paths \in Seq(Dirs) /\ s.hash = mtime[f] /\ s.hash <= changes
    <2>1. LappendUniq(incpath[r], DirOf[f]) \in Seq(Dirs) /\ mtime[f] \in Nat /\ mtime[f] <= changes
      BY <1>0, PathTypes DEF TypeOK, TimeOK
    <2> QED
      BY <2>1 DEF Stamp, Stamps
  <1>3. Closed' /\ CachedComplete' /\ GeneratedFirst'
    BY <1>1, NoAnswer
  <1>4. FindCacheOK' /\ FindOK' /\ IncOK'
    BY <1>0, <1>1, <1>2, QuietStep DEF FindOK, IncOK, disk
  <1>5. CASE headerscan[f].stamp = s
    <2>1. pc' = "gather" /\ rest' = headerscan[f].results /\ UNCHANGED queue
      BY <1>1, <1>5 DEF StartScan
    <2>2. headerscan[f].results \in Seq(Results)
      BY <1>0 DEF TypeOK, Entries
    <2>3. TypeOK' /\ LocalOK'
      BY <1>0, <1>1, <1>2, <2>1, <2>2 DEF TypeOK, LocalOK, disk
    <2>4. TimeOK'
      BY <1>0, <1>1, <1>2, <2>1 DEF TimeOK, OldResults, OldMatches, disk
    <2>5. EntryOK'
      BY <1>0, <1>1, <2>1, QuietStep DEF disk
    <2>6. GatherOK'
      BY <1>1, <1>5, <2>1 DEF GatherOK, Range
    <2>7. ScanOK' /\ VerifyOK'
      BY <2>1 DEF ScanOK, VerifyOK
    <2> QED
      BY <1>3, <1>4, <2>3, <2>4, <2>5, <2>6, <2>7 DEF Inv
  <1>6. CASE headerscan[f].stamp # s
    <2>1. Rescan(f) /\ UNCHANGED rest
      BY <1>1, <1>6 DEF StartScan
    <2>2. /\ queue' \in Seq(Names) /\ Range(queue') = IncludedBy(f) /\ pc' = "scan"
          /\ \A st : Consistent(f, st, {}, <<>>, IncludedBy(f), {})
      BY <1>0, <2>1, RescanStep
    <2>6. EntryOK'
      BY <1>0, <1>1, QuietStep DEF disk
    <2>3. TypeOK' /\ LocalOK' /\ GatherOK' /\ VerifyOK'
      BY <1>0, <1>1, <1>2, <2>1, <2>2 DEF TypeOK, LocalOK, GatherOK, VerifyOK, disk
    <2>4. TimeOK'
      BY <1>0, <1>1, <1>2, <2>2 DEF TimeOK, OldResults, OldMatches, disk
    <2>5. ScanOK'
      <3>1. {rest'[i].path : i \in DOMAIN rest'} = {}
        BY <1>0, <2>1, RangeEmpty
      <3>2. Consistent(file', stamp', deps', results', Range(queue'), {rest'[i].path : i \in DOMAIN rest'})
        BY <1>0, <1>1, <2>2, <3>1
      <3>3. ScanOK' <=> Consistent(file', stamp', deps', results', Range(queue'), {rest'[i].path : i \in DOMAIN rest'})
        BY <1>0, <1>1, <2>1, <2>2, RangeEmpty, QuietStep DEF ScanOK, disk
      <3> QED
        BY <3>2, <3>3
    <2> QED
      BY <1>3, <1>4, <2>3, <2>4, <2>5, <2>6 DEF Inv
  <1> QED
    BY <1>5, <1>6

LEMMA EditInvariant == ASSUME Inv, NEW p \in Paths \ Targets, Edit(p) PROVE Inv'
  <1>0. /\ TypeOK /\ TimeOK /\ LocalOK /\ FindOK /\ IncOK /\ GeneratedFirst /\ touched' = TRUE
        /\ UNCHANGED <<status, caches, pc, local, find, answer, incpath, todo, dirty>>
    BY DEF Inv, Edit
  <1>1. PICK c \in May[p] : Write(p, c)
    BY DEF Edit
  <1>2. c \in Contents \union {None}
    BY DepScanAssumption DEF DepScanAssumption
  <1>3. /\ Disk /\ files' \in [Paths -> Contents \union {None}] /\ mtime' \in [Paths -> Nat]
        /\ changes' \in Nat /\ changes <= changes'
        /\ \A q \in Paths : mtime'[q] <= changes'
    <2>1. Disk
      BY <1>1 DEF Disk
    <2>2. /\ files' = [files EXCEPT ![p] = c] /\ changes \in Nat /\ changes' = changes + 1
          /\ mtime' = [mtime EXCEPT ![p] = IF c = None THEN 0 ELSE changes']
      BY <1>0, <1>1 DEF Write, Change, TypeOK
    <2>3. files' \in [Paths -> Contents \union {None}]
      BY <1>0, <1>2, <2>2 DEF TypeOK
    <2>4. mtime' \in [Paths -> Nat] /\ \A q \in Paths : mtime'[q] <= changes'
      BY <1>0, <2>2 DEF TypeOK, TimeOK
    <2> QED
      BY <2>1, <2>2, <2>3, <2>4
  <1>4. \A n, D, M : Looked(n, D, M) => Looked(n, D, M)'
    BY <1>0, EditStep
  <1>5. (find # None => OldMatches(find.found))'
    <2>1. find # None => find.found \in Seq(Matches) /\ OldMatches(find.found)
      BY <1>0 DEF TypeOK, TimeOK, Finds
    <2> QED
      BY <1>0, <1>3, <2>1, TimeStep
  <1>6. FindCacheOK' /\ EntryOK' /\ ScanOK' /\ GatherOK' /\ VerifyOK' /\ TimeOK'
    BY <1>0, <1>3, <1>4, <1>5, WorldStep
  <1>7. TypeOK' /\ LocalOK' /\ IncOK'
    BY <1>0, <1>3 DEF TypeOK, LocalOK, IncOK, caches, local
  <1>8. FindOK'
    BY <1>0, <1>4 DEF FindOK, Scanned, local
  <1>9. Closed' /\ CachedComplete' /\ GeneratedFirst'
    BY <1>0 DEF Closed, CachedComplete, GeneratedFirst, Steady
  <1> QED
    BY <1>6, <1>7, <1>8, <1>9 DEF Inv

\* The next run begins with the cache alone, of which an entry may be dropped.
LEMMA RestartInvariant ==
  ASSUME Inv, Restart, incpath' \in [Rules -> Seq(Dirs)], changes' \in Nat, changes <= changes',
         headerscan' \in [Inputs -> Entries],
         \A f \in Inputs : headerscan'[f] \in {headerscan[f], NoEntry}
  PROVE  Inv'
  <1>0. TypeOK /\ TimeOK /\ EntryOK
    BY DEF Inv
  <1>1. status' \in [Targets -> {"unknown", "built", "uptodate", "failed"}]
    BY DEF Restart
  <1>2. TypeOK'
    <2>1. /\ files' = files /\ mtime' = mtime /\ findcache' = <<>> /\ dirty' = FALSE
          /\ pc' = "idle" /\ incpaths' = <<>> /\ queue' = <<>> /\ rest' = <<>> /\ deps' = {}
          /\ results' = <<>> /\ find' = None /\ answer' = None /\ touched' = FALSE
      BY DEF Restart, ClearLocal, disk
    <2> QED
      BY <1>0, <1>1, <2>1, EmptyTypes DEF TypeOK
  <1>3. TimeOK'
    <2>1. \A f \in Inputs : /\ headerscan[f].results \in Seq(Results)
                            /\ headerscan[f].stamp # None => headerscan[f].stamp.hash \in Nat
      BY <1>0 DEF TypeOK, Entries, Stamps
    <2>2. OldResults(<<>>)' /\ DOMAIN <<>> = {}
      BY RangeEmpty DEF OldResults
    <2>3. \A f \in Inputs : OldResults(headerscan[f].results)'
      <3> TAKE f \in Inputs
      <3>1. CASE headerscan'[f] = NoEntry
        <4>1. headerscan'[f].results = <<>>
          BY <3>1 DEF NoEntry
        <4> QED
          BY <2>2, <4>1 DEF OldResults
      <3>2. CASE headerscan'[f] = headerscan[f]
        <4>1. headerscan[f].results \in Seq(Results) /\ OldResults(headerscan[f].results)
          BY <1>0, <2>1 DEF TimeOK
        <4>2. OldResults(headerscan[f].results)'
              <=> \A i \in DOMAIN headerscan[f].results : OldMatches(headerscan[f].results[i].matches)'
          BY <3>2 DEF OldResults
        <4> QED
          BY <1>0, <3>2, <4>1, TimeStep DEF OldResults
      <3> QED
        BY <3>1, <3>2
    <2>4. \A f \in Inputs : headerscan'[f].stamp # None => headerscan'[f].stamp.hash <= changes'
      BY <1>0, <2>1 DEF TimeOK, TypeOK, NoEntry
    <2>5. \A p \in Paths : mtime[p] <= changes'
      BY <1>0 DEF TimeOK, TypeOK
    <2> QED
      BY <2>2, <2>3, <2>4, <2>5 DEF TimeOK, Restart, ClearLocal, disk, OldResults, OldMatches
  <1>4. EntryOK'
    <2>1. \A p : IncludedBy(p)' = IncludedBy(p)
      BY DEF Restart, disk, IncludedBy, HeaderScanRegexp
    <2>2. \A p, rs : Fresh(p, rs)' <=> Fresh(p, rs)
      BY DEF Fresh, Restart, disk
    <2>3. \A f, s, hs, rs : Consistent(f, s, hs, rs, {}, {})' <=> Consistent(f, s, hs, rs, {}, {})
      BY <2>1, <2>2 DEF Consistent, Restart, disk
    <2> QED
      BY <1>0, <2>3 DEF EntryOK, NoEntry
  <1>5. FindCacheOK'
    BY RangeEmpty DEF FindCacheOK, Restart
  <1>6. LocalOK' /\ FindOK' /\ IncOK' /\ ScanOK' /\ GatherOK' /\ VerifyOK'
    BY DEF Restart, ClearLocal, LocalOK, FindOK, IncOK, ScanOK, GatherOK, VerifyOK
  <1>7. Closed' /\ CachedComplete' /\ GeneratedFirst'
    BY NoAnswer DEF Restart
  <1> QED
    BY <1>2, <1>3, <1>4, <1>5, <1>6, <1>7 DEF Inv

LEMMA NextRunInvariant == ASSUME Inv, NextRun PROVE Inv'
  <1>0. incpath \in [Rules -> Seq(Dirs)] /\ changes \in Nat /\ headerscan \in [Inputs -> Entries]
    BY DEF Inv, TypeOK
  <1>1. Restart /\ UNCHANGED headerscan
    BY DEF NextRun
  <1>2. CASE UNCHANGED <<incpath, changes>>
    BY <1>0, <1>1, <1>2, RestartInvariant
  <1>3. CASE Change /\ \E r \in Rules, paths \in IncPaths : incpath' = [incpath EXCEPT ![r] = paths]
    <2>1. incpath' \in [Rules -> Seq(Dirs)]
      BY <1>0, <1>3, DepScanAssumption DEF DepScanAssumption
    <2> QED
      BY <1>0, <1>1, <1>3, <2>1, RestartInvariant DEF Change
  <1> QED
    BY <1>2, <1>3 DEF NextRun

LEMMA StopInvariant == ASSUME Inv, Stop PROVE Inv'
  <1>1. incpath' \in [Rules -> Seq(Dirs)] /\ changes' \in Nat /\ changes <= changes'
    BY DEF Inv, TypeOK, Stop, Change
  <1>2. headerscan \in [Inputs -> Entries] /\ NoEntry \in Entries
    BY DEF Inv, TypeOK, NoEntry, Entries
  <1>3. /\ headerscan' \in [Inputs -> Entries]
        /\ \A f \in Inputs : headerscan'[f] \in {headerscan[f], NoEntry}
    BY <1>2 DEF Stop
  <1> QED
    BY <1>1, <1>3, RestartInvariant DEF Stop

LEMMA InitInvariant == ASSUME Init PROVE Inv
  <1>1. TypeOK
    <2>1. files \in [Paths -> Contents \union {None}] /\ incpath \in [Rules -> Seq(Dirs)]
      BY DepScanAssumption DEF Init, DepScanAssumption
    <2>2. NoEntry \in Entries
      BY DEF NoEntry, Entries
    <2> QED
      BY <2>1, <2>2, EmptyTypes DEF Init, TypeOK
  <1>2. TimeOK
    BY RangeEmpty DEF Init, TimeOK, OldResults, NoEntry
  <1>3. FindCacheOK /\ EntryOK
    BY RangeEmpty DEF Init, FindCacheOK, EntryOK, NoEntry
  <1>4. LocalOK /\ FindOK /\ IncOK /\ ScanOK /\ GatherOK /\ VerifyOK
    BY DEF Init, LocalOK, FindOK, IncOK, ScanOK, GatherOK, VerifyOK
  <1>5. Closed /\ CachedComplete /\ GeneratedFirst
    BY DEF Init, Closed, CachedComplete, GeneratedFirst, Steady
  <1> QED
    BY <1>1, <1>2, <1>3, <1>4, <1>5 DEF Inv

-----------------------------------------------------------------------------
(* Theorems *)

\* Every step of a scan, of the user and of the next run keeps the invariant.
LEMMA NextInvariant == ASSUME Inv, Next PROVE Inv'
  <1>1. CASE Step
    BY <1>1, SkipNameInvariant, FindFileInvariant, FindOnPathInvariant, BuildTargetInvariant,
       GatherPathsInvariant, VerifyNameInvariant, ScanNameInvariant, TakeMatchInvariant,
       ReturnCachedInvariant, ReturnScannedInvariant DEF Step
  <1>2. CASE \E r \in Rules : StartScan(r)
    BY <1>2, StartScanInvariant
  <1>3. CASE \E p \in Paths \ Targets : Edit(p)
    BY <1>3, EditInvariant
  <1>4. CASE NextRun \/ Stop
    BY <1>4, NextRunInvariant, StopInvariant
  <1> QED
    BY <1>1, <1>2, <1>3, <1>4 DEF Next

LEMMA StutterInvariant == ASSUME Inv, UNCHANGED vars PROVE Inv'
  <1>1. UNCHANGED <<files, mtime, status, findcache, headerscan, pc, file, stamp, incpaths, queue, rest,
                    deps, results, find, answer, incpath, todo, changes, touched, dirty>>
    BY DEF vars, disk, caches, local, world
  <1>2. TypeOK' /\ TimeOK' /\ LocalOK'
    BY <1>1 DEF Inv, TypeOK, TimeOK, LocalOK, OldResults, OldMatches
  <1>3. FindCacheOK' /\ EntryOK'
    BY <1>1, QuietStep DEF Inv
  <1>4. FindOK' /\ IncOK' /\ GatherOK'
    BY <1>1, QuietStep DEF Inv, FindOK, Scanned, IncOK, GatherOK
  <1>5. ScanOK' /\ VerifyOK'
    BY <1>1, QuietStep DEF Inv, ScanOK, VerifyOK
  <1>6. Closed' /\ CachedComplete' /\ GeneratedFirst'
    <2>1. \A p : IncludedBy(p)' = IncludedBy(p)
      BY <1>1 DEF IncludedBy, HeaderScanRegexp
    <2>2. \A D : ClosedUnder(D)' <=> ClosedUnder(D)
      BY <1>1, <2>1 DEF ClosedUnder, Here
    <2>3. \A f : Unique(f)' <=> Unique(f)
      BY <1>1 DEF Unique
    <2>4. Closed'
      BY <1>1, <2>2 DEF Inv, Closed, Steady
    <2>5. CachedComplete'
      BY <1>1, <2>2, <2>3 DEF Inv, CachedComplete, Steady
    <2>6. GeneratedFirst'
      BY <1>1 DEF Inv, GeneratedFirst
    <2> QED
      BY <2>4, <2>5, <2>6
  <1> QED
    BY <1>2, <1>3, <1>4, <1>5, <1>6 DEF Inv

\* Inv holds whatever files there are, what they include, what is edited, built
\* or stopped, and however many runs the cache has seen.
THEOREM ScanInvariance == Spec => []Inv
  <1>1. Inv /\ [Next]_vars => Inv'
    BY NextInvariant, StutterInvariant
  <1> QED
    BY InitInvariant, <1>1, PTL DEF Spec

\* The headers that header-scan-regexp-recursive returns, from the cache or not,
\* include all that any of them includes along the include path.
THEOREM AnswersAreClosed == Spec => []Closed
  <1>1. Inv => Closed
    BY DEF Inv
  <1> QED
    BY ScanInvariance, <1>1, PTL

\* The headers returned from the cache include all that any of them includes in
\* the directory of any of them, unless a name was found in two places.
THEOREM CachedAnswersAreComplete == Spec => []CachedComplete
  <1>1. Inv => CachedComplete
    BY DEF Inv
  <1> QED
    BY ScanInvariance, <1>1, PTL

\* Headers that rules make have been made, in this run, when they are returned.
THEOREM HeadersAreGenerated == Spec => []GeneratedFirst
  <1>1. Inv => GeneratedFirst
    BY DEF Inv
  <1> QED
    BY ScanInvariance, <1>1, PTL
=============================================================================
