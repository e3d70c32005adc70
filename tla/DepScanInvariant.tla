--------------------------- MODULE DepScanInvariant ---------------------------
(* The inductive invariant of DepScan. *)
EXTENDS DepScan

Matches == [path : Paths, hash : Nat]
Results == [name : Names, matches : Seq(Matches)]
Stamps  == [hash : Nat, paths : Seq(Dirs)]
Finds   == [left : Seq(Dirs), found : Seq(Matches)]
Answers == [file : Paths, paths : Seq(Dirs), headers : SUBSET Paths, how : {"cached", "scanned"}]
Entries == [stamp : Stamps \union {None}, headers : SUBSET Paths, results : Seq(Results)]

\* Every variable has its type.
TypeOK ==
    /\ files \in [Paths -> Contents \union {None}]
    /\ mtime \in [Paths -> Nat]
    /\ status \in [Targets -> {"unknown", "built", "uptodate", "failed"}]
    /\ DOMAIN findcache \subseteq Names \X Seq(Dirs)
    /\ \A k \in DOMAIN findcache : findcache[k] \in Seq(Matches)
    /\ headerscan \in [Inputs -> Entries]
    /\ pc \in {"idle", "gather", "verify", "scan"}
    /\ incpath \in [Rules -> Seq(Dirs)]
    /\ incpaths \in Seq(Dirs) /\ queue \in Seq(Names)
    /\ rest \in IF pc = "gather" THEN Seq(Results) ELSE Seq(Matches)
    /\ deps \subseteq Paths /\ results \in Seq(Results)
    /\ find \in Finds \union {None}
    /\ answer \in Answers \union {None}
    /\ changes \in Nat /\ touched \in BOOLEAN /\ dirty \in BOOLEAN
    /\ pc # "idle" => file \in Inputs /\ stamp \in Stamps

\* A time stamp that is remembered is not from the future, so that a file that
\* is written differs from what is remembered of it.
OldMatches(s) == \A i \in DOMAIN s : s[i].hash <= changes
OldResults(rs) == \A i \in DOMAIN rs : OldMatches(rs[i].matches)
TimeOK ==
    /\ \A p \in Paths : mtime[p] <= changes
    /\ \A k \in DOMAIN findcache : OldMatches(findcache[k])
    /\ \A f \in Inputs : OldResults(headerscan[f].results)
    /\ \A f \in Inputs : headerscan[f].stamp # None => headerscan[f].stamp.hash <= changes
    /\ OldResults(results)
    /\ pc # "idle" => stamp.hash <= changes
    /\ find # None => OldMatches(find.found)

\* Where the locals have no value yet, or no more.
LocalOK ==
    /\ pc # "scan" => deps = {} /\ results = <<>>
    /\ pc \in {"idle", "verify"} => rest = <<>>
    /\ pc \in {"idle", "gather"} => find = None
    /\ pc \in {"idle", "gather"} => queue = <<>>
    /\ answer # None => pc = "idle"

\* The matches M were found for name n in the directories D, and are still what
\* would be found now, unless the user has edited files.
Good(m) ==
    /\ m.path \in Targets => status[m.path] \in {"built", "uptodate"}
    /\ ~touched => m.hash = mtime[m.path]
Looked(n, D, M) ==
    /\ \A m \in M : Good(m)
    /\ \A d \in D :
        /\ Join[<<d, n>>] \in Targets => status[Join[<<d, n>>]] # "unknown"
        /\ ~touched /\ Here(Join[<<d, n>>]) => \E m \in M : m.path = Join[<<d, n>>]

FindCacheOK == \A k \in DOMAIN findcache : Looked(k[1], Range(k[2]), Range(findcache[k]))

\* find-file looks for the first name of the queue, on the path it began with.
FindOK ==
    find # None =>
        /\ queue # <<>> /\ rest = <<>>
        /\ pc = "scan" => Head(queue) \notin Scanned
        /\ Looked(Head(queue), Range(incpaths) \ Range(find.left), Range(find.found))

MatchOf(p, rs) == \E i \in DOMAIN rs : \E j \in DOMAIN rs[i].matches : rs[i].matches[j].path = p
Fresh(p, rs) == \A i \in DOMAIN rs : \A j \in DOMAIN rs[i].matches :
                    rs[i].matches[j].path = p => rs[i].matches[j].hash = mtime[p]
Distinct(rs) == \A i, j \in DOMAIN rs : rs[i].name = rs[j].name => i = j

\* The headers hs and the results rs of a scan of f with stamp s, with the names
\* in Q still to be looked up and the paths in P still to be taken: as far as
\* the time stamps agree, all includes were looked up.
Consistent(f, s, hs, rs, Q, P) ==
    /\ Distinct(rs)
    /\ \A p \in hs : MatchOf(p, rs)
    /\ \A p \in hs : Fresh(p, rs) => IncludedBy(p) \subseteq Range(NamesOf(rs)) \union Q \union {NameOf[f]}
    /\ s.hash = mtime[f] => IncludedBy(f) \subseteq Range(NamesOf(rs)) \union Q \union {NameOf[f]}
    /\ \A i \in DOMAIN rs : \A j \in DOMAIN rs[i].matches : rs[i].matches[j].path \in hs \union P

EntryOK == \A f \in Inputs : headerscan[f].stamp # None =>
    Consistent(f, headerscan[f].stamp, headerscan[f].headers, headerscan[f].results, {}, {})

\* The include paths only grow, and the input is not changed by tmake.
IncOK ==
    pc # "idle" =>
        /\ Range(stamp.paths) \subseteq Range(incpaths)
        /\ ~touched => stamp.hash = mtime[file]

ScanOK ==
    pc = "scan" =>
        /\ Consistent(file, stamp, deps, results, Range(queue), {rest[i].path : i \in DOMAIN rest})
        /\ \A i \in DOMAIN rest : MatchOf(rest[i].path, results)
        /\ \A i \in DOMAIN results : Looked(results[i].name, Range(stamp.paths), Range(results[i].matches))

\* The directory of the first match of each result is, or is going to be, in
\* the include paths for verification.
GatherOK ==
    pc \in {"gather", "verify"} =>
        /\ headerscan[file].stamp = stamp
        /\ \A i \in DOMAIN headerscan[file].results :
            LET res == headerscan[file].results[i] IN
            \/ res.matches = <<>>
            \/ DirOf[res.matches[1].path] \in Range(incpaths)
            \/ pc = "gather" /\ res \in Range(rest)

VerifyOK ==
    pc = "verify" =>
        \A i \in DOMAIN headerscan[file].results :
            LET res == headerscan[file].results[i] IN
            res.name \in Range(queue) \/ Looked(res.name, Range(incpaths), Range(res.matches))

Inv ==
    /\ TypeOK /\ TimeOK /\ LocalOK /\ FindCacheOK /\ FindOK /\ EntryOK /\ IncOK
    /\ ScanOK /\ GatherOK /\ VerifyOK
    /\ Closed /\ CachedComplete /\ GeneratedFirst
=============================================================================
