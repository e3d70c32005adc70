------------------------------- MODULE DepScan -------------------------------
(***************************************************************************)
(* Dynamic dependencies: header-scan-regexp-recursive, by which a rule     *)
(* finds the headers that its input includes, directly or not, and the two *)
(* caches it relies on: tmake(depfindcache), which remembers within one    *)
(* run where a name was found, and tmakecache(headerscan), which remembers *)
(* over the runs the headers of a file and how each name resolved.         *)
(*                                                                         *)
(* The contents of a file stand for its hash, and a path for its uuid.     *)
(* Files are edited at any time; headers that are targets are built when   *)
(* they are looked up, and may fail.                                       *)
(***************************************************************************)
EXTENDS Integers, Sequences, FiniteSets, SequencesExt

CONSTANTS
    Paths,      \* the files there may be
    Dirs,       \* the directories
    Top,        \* the directory ".", where tmake runs
    Names,      \* what an #include may name
    Join,       \* Join[<<d, n>>]: file-join
    DirOf,      \* DirOf[p]: file dirname
    NameOf,     \* NameOf[p]: the name that reads like p itself; None if there is none
    Contents,   \* what a file may contain
    Includes,   \* Includes[c]: the names that the regexp finds in c, in order
    May,        \* May[p]: what p may contain; None if it may be missing
    Rules,      \* the rules with -dyndep
    Input,      \* Input[r]: the file whose headers it asks for
    IncPaths,   \* the include paths that descriptions give them
    Targets,    \* the headers that rules make
    Trees,      \* what the files may contain at first
    MaxChanges, \* bound on the edits, the targets that are made or fail, and the stops
    None

ASSUME DepScanAssumption ==
    /\ Top \in Dirs
    /\ Join \in [Dirs \X Names -> Paths]
    /\ DirOf \in [Paths -> Dirs] /\ NameOf \in [Paths -> Names \union {None}]
    /\ Includes \in [Contents -> Seq(Names)]
    /\ None \notin Contents \union [hash : Nat, paths : Seq(Dirs)]
    /\ May \in [Paths -> SUBSET (Contents \union {None})]
    /\ Input \in [Rules -> Paths] /\ IncPaths \subseteq Seq(Dirs)
    /\ Targets \subseteq Paths
    /\ \A r \in Rules : Input[r] \notin Targets /\ None \notin May[Input[r]]
    /\ Trees \subseteq [Paths -> Contents \union {None}]
    /\ MaxChanges \in Nat

Inputs == {Input[r] : r \in Rules}

VARIABLES
    files,      \* the contents of each file, None if it is missing
    mtime,      \* its modification time
    status,     \* the status of each target in this run
    findcache,  \* tmake(depfindcache)
    headerscan, \* tmakecache(headerscan)
    dirty,      \* something has marked the cache dirty in this run
    pc,         \* where header-scan-regexp-recursive is
    incpath,    \* incpath[r]: the include path of rule r in this run
    todo,       \* the rules that have not asked in this run
    file,       \* its filename
    stamp,      \* its stamp
    incpaths,   \* its incpaths
    queue,      \* the names still to be looked up: toscan and newscan
    rest,       \* what is left of the loop over cachedresults or findfiles
    deps,       \* the keys of its deps
    results,    \* its results, in order
    find,       \* the call of find-file, None if there is none
    answer,     \* what the last scan returned, None when there is no such yet
    changes,    \* the number of changes so far
    touched     \* history: a file was edited since this run began

caches == <<findcache, headerscan>>
local  == <<file, stamp, incpaths, queue, rest, deps, results>>
world  == <<incpath, todo, changes, touched, dirty>>
disk   == <<files, mtime>>
vars   == <<disk, status, caches, pc, local, find, answer, world>>

\* lappend-uniq
LappendUniq(s, d) == IF d \in Range(s) THEN s ELSE Append(s, d)

\* header-scan-regexp: nothing for a file that does not exist.
HeaderScanRegexp(p) == IF files[p] = None THEN <<>> ELSE Includes[files[p]]

NoEntry == [stamp |-> None, headers |-> {}, results |-> <<>>]

Init ==
    /\ files \in Trees
    /\ mtime = [p \in Paths |-> 0]
    /\ status = [t \in Targets |-> "unknown"]
    /\ findcache = <<>>
    /\ headerscan = [f \in Inputs |-> NoEntry] /\ dirty = FALSE
    /\ pc = "idle"
    /\ file = None /\ stamp = None /\ incpaths = <<>> /\ queue = <<>>
    /\ rest = <<>> /\ deps = {} /\ results = <<>>
    /\ find = None
    /\ answer = None
    /\ \E paths \in IncPaths : incpath = [r \in Rules |-> paths]
    /\ todo = Rules /\ changes = 0 /\ touched = FALSE

\* A file is changed: its modification time is later than before.
Change == changes < MaxChanges /\ changes' = changes + 1
Write(p, c) ==
    /\ Change
    /\ files' = [files EXCEPT ![p] = c]
    /\ mtime' = [mtime EXCEPT ![p] = IF c = None THEN 0 ELSE changes']

-----------------------------------------------------------------------------
(* find-file and find-all-files-on-path. *)

Key == <<Head(queue), incpaths>>

\* The array scanned: the names that have been looked up, and the file itself.
Scanned == {NameOf[file]} \union {results[i].name : i \in DOMAIN results}

\* A name that has been scanned is skipped.
SkipName ==
    /\ pc = "scan" /\ find = None /\ rest = <<>> /\ queue # <<>> /\ Head(queue) \in Scanned
    /\ queue' = Tail(queue)
    /\ UNCHANGED <<disk, status, caches, pc, file, stamp, incpaths, rest, deps, results, find, answer, world>>

FindFile ==
    /\ pc \in {"scan", "verify"} /\ find = None /\ rest = <<>> /\ queue # <<>>
    /\ pc = "scan" => Head(queue) \notin Scanned
    /\ find' = IF Key \in DOMAIN findcache
                 THEN [left |-> <<>>, found |-> findcache[Key]]
                 ELSE [left |-> incpaths, found |-> <<>>]
    /\ UNCHANGED <<disk, status, caches, pc, local, answer, world>>

Candidate == Join[<<Head(find.left), Head(queue)>>]
Looking   == find # None /\ find.left # <<>>
FindNext(found) == find' = [left |-> Tail(find.left), found |-> find.found \o found]
Match(p, h) == <<[path |-> p, hash |-> h]>>

\* One directory of find-all-files-on-path: a source file, or a target that
\* has been built, or could not be.
FindOnPath ==
    /\ Looking
    /\ Candidate \in Targets => status[Candidate] # "unknown"
    /\ FindNext(IF files[Candidate] = None \/ (Candidate \in Targets /\ status[Candidate] = "failed")
                  THEN <<>> ELSE Match(Candidate, mtime[Candidate]))
    /\ UNCHANGED <<disk, status, caches, pc, local, answer, world>>

\* A target is built first.  When it fails, that is reported and it is not found;
\* target-post-build has deleted it, unless only a dependency of it failed.
BuildTarget ==
    /\ Looking
    /\ Candidate \in Targets /\ status[Candidate] = "unknown"
    /\ \/ \E c \in May[Candidate] \ {None} :
            /\ Write(Candidate, c)
            /\ status' = [status EXCEPT ![Candidate] = "built"] /\ dirty' = TRUE
            /\ FindNext(Match(Candidate, mtime'[Candidate]))
       \/ /\ files[Candidate] # None
          /\ UNCHANGED <<disk, changes, dirty>>
          /\ status' = [status EXCEPT ![Candidate] = "uptodate"]
          /\ FindNext(Match(Candidate, mtime[Candidate]))
       \/ /\ status' = [status EXCEPT ![Candidate] = "failed"]
          /\ FindNext(<<>>)
          /\ \/ /\ IF files[Candidate] = None THEN UNCHANGED changes ELSE Change
                /\ UNCHANGED <<disk, dirty>>
             \/ /\ files[Candidate] # None
                /\ Write(Candidate, None)
                /\ dirty' = TRUE
    /\ UNCHANGED <<caches, pc, local, answer, incpath, todo, touched>>

Found == find # None /\ find.left = <<>>

\* The end of find-file: the result is remembered for this run.
Remember == findcache' = [k \in DOMAIN findcache \union {Key} |->
                             IF k = Key THEN find.found ELSE findcache[k]]

-----------------------------------------------------------------------------
(* header-scan-regexp-recursive. *)

\* Scanning starts, with whatever incpaths have become.  The entry is unset, which
\* does not mark the cache dirty: it stays here, where nothing reads it before the
\* scan ends, because Stop may leave it on the disk.
Rescan(f) ==
    /\ pc' = "scan"
    /\ queue' = HeaderScanRegexp(f)

\* Mutant: a new modification time of the file itself goes unnoticed.
StampNoHash(f, paths) == [hash |-> 0, paths |-> LappendUniq(paths, DirOf[f])]

\* The file and what else decides whether its entry may be used.
Stamp(f, paths) == [hash |-> mtime[f], paths |-> LappendUniq(paths, DirOf[f])]

StartScan(r) ==
    /\ pc = "idle" /\ r \in todo
    /\ todo' = todo \ {r}
    /\ file' = Input[r]
    /\ stamp' = Stamp(Input[r], incpath[r])
    /\ incpaths' = stamp'.paths
    /\ LET entry == headerscan[Input[r]] IN
       IF entry.stamp = stamp'
         THEN pc' = "gather" /\ rest' = entry.results /\ UNCHANGED queue
         ELSE Rescan(Input[r]) /\ UNCHANGED rest
    /\ answer' = None
    /\ UNCHANGED <<disk, status, caches, deps, results, find, incpath, changes, touched, dirty>>

\* Mutant: the directories of headers found are not added for verification.
VerifyPathsNone(paths, p) == paths

\* What verification adds to incpaths for the matches of a name.  They are lists
\* of {type path hash uuid}, but are taken three at a time: the path is seen of
\* the first match, the fourth and so on, and beyond it a uuid or a type, whose
\* dirname is ".".
VerifyPaths(paths, p) == LappendUniq(LappendUniq(paths, DirOf[p]), Top)

NamesOf(rs) == [i \in DOMAIN rs |-> rs[i].name]

\* The loop over cachedresults that collects include paths, then the one that
\* verifies.
GatherPaths ==
    /\ pc = "gather"
    /\ IF rest = <<>>
         THEN /\ pc' = "verify"
              /\ queue' = NamesOf(headerscan[file].results)
              /\ UNCHANGED <<incpaths, rest>>
         ELSE LET matches == Head(rest).matches IN
              /\ IF matches = <<>>
                   THEN rest' = Tail(rest) /\ UNCHANGED incpaths
                   ELSE /\ incpaths' = VerifyPaths(incpaths, matches[1].path)
                        /\ rest' = <<[name |-> Head(rest).name, matches |-> SubSeq(matches, 4, Len(matches))]>>
                                       \o Tail(rest)
              /\ UNCHANGED <<pc, queue>>
    /\ UNCHANGED <<disk, status, caches, file, stamp, deps, results, find, answer, world>>

\* What the cache says of the name that is being verified.
Cached == LET rs == headerscan[file].results
              i  == CHOOSE i \in DOMAIN rs : rs[i].name = Head(queue)
          IN  rs[i].matches

VerifyName ==
    /\ pc = "verify" /\ Found
    /\ Remember
    /\ find' = None
    /\ IF find.found = Cached
         THEN queue' = Tail(queue) /\ UNCHANGED pc
         ELSE Rescan(file)
    /\ UNCHANGED <<disk, status, headerscan, file, stamp, incpaths, rest, deps, results, answer, world>>

ScanName ==
    /\ pc = "scan" /\ Found
    /\ Remember
    /\ find' = None
    /\ results' = Append(results, [name |-> Head(queue), matches |-> find.found])
    /\ rest' = find.found
    /\ queue' = Tail(queue)
    /\ UNCHANGED <<disk, status, headerscan, pc, file, stamp, incpaths, deps, answer, world>>

\* The loop over what find-file returned; a file seen before adds nothing.
TakeMatch ==
    /\ pc = "scan" /\ rest # <<>>
    /\ rest' = Tail(rest)
    /\ LET p == Head(rest).path IN
       IF p \in deps THEN UNCHANGED <<incpaths, queue, deps>>
       ELSE /\ deps' = deps \union {p}
            /\ incpaths' = LappendUniq(incpaths, DirOf[p])
            /\ queue' = queue \o HeaderScanRegexp(p)
    /\ UNCHANGED <<disk, status, caches, pc, file, stamp, results, find, answer, world>>

ClearLocal ==
    /\ file' = None /\ stamp' = None /\ incpaths' = <<>>
    /\ deps' = {} /\ results' = <<>>

Return(headers, how) ==
    /\ queue = <<>> /\ rest = <<>> /\ find = None
    /\ pc' = "idle"
    /\ answer' = [file |-> file, paths |-> stamp.paths, headers |-> headers, how |-> how]
    /\ ClearLocal
    /\ UNCHANGED <<disk, status, findcache, queue, rest, find, incpath, todo, changes, touched>>

ReturnCached ==
    /\ pc = "verify"
    /\ Return(headerscan[file].headers, "cached")
    /\ UNCHANGED <<headerscan, dirty>>

\* Mutant: the entry is stamped with incpaths as they have grown.
EntryGrown == [stamp |-> [stamp EXCEPT !.paths = incpaths], headers |-> deps, results |-> results]

Entry == [stamp |-> stamp, headers |-> deps, results |-> results]

ReturnScanned ==
    /\ pc = "scan"
    /\ Return(deps, "scanned")
    /\ headerscan' = [headerscan EXCEPT ![file] = Entry] /\ dirty' = TRUE

-----------------------------------------------------------------------------
(* The user and the commands of rules change files; tmake is run again. *)

Edit(p) ==
    /\ \E c \in May[p] \ {files[p]} : Write(p, c)
    /\ touched' = TRUE
    /\ UNCHANGED <<status, caches, pc, local, find, answer, incpath, todo, dirty>>

\* Mutant: what find-file remembers outlives the run.
RestartKeepsFinds ==
    /\ pc' = "idle" /\ ClearLocal /\ queue' = <<>> /\ rest' = <<>> /\ find' = None
    /\ status' = [t \in Targets |-> "unknown"]
    /\ todo' = Rules
    /\ touched' = FALSE /\ dirty' = FALSE
    /\ answer' = None
    /\ UNCHANGED <<disk, findcache>>

\* The state of tmake is lost, except for the cache, which it saves if it is dirty.
Restart ==
    /\ pc' = "idle" /\ ClearLocal /\ queue' = <<>> /\ rest' = <<>> /\ find' = None
    /\ status' = [t \in Targets |-> "unknown"]
    /\ findcache' = <<>>
    /\ todo' = Rules
    /\ touched' = FALSE /\ dirty' = FALSE
    /\ answer' = None
    /\ UNCHANGED disk

\* tmake ends and is run again, perhaps with other descriptions.
NextRun ==
    /\ pc = "idle"
    /\ \/ UNCHANGED <<incpath, changes>>
       \/ Change /\ \E r \in Rules, paths \in IncPaths : incpath' = [incpath EXCEPT ![r] = paths]
    /\ Restart
    /\ UNCHANGED headerscan

\* tmake stops in the middle of a scan: a header fails with -q, or ^C.  The entry
\* that was unset for the scan comes back if the cache is not saved.
Stop ==
    /\ pc # "idle"
    /\ Change
    /\ Restart
    /\ \/ (pc = "scan" => ~dirty) /\ UNCHANGED headerscan
       \/ pc = "scan" /\ headerscan' = [headerscan EXCEPT ![file] = NoEntry]
    /\ UNCHANGED incpath

Step == SkipName \/ FindFile \/ FindOnPath \/ BuildTarget \/ GatherPaths \/ VerifyName
            \/ ScanName \/ TakeMatch \/ ReturnCached \/ ReturnScanned

Next ==
    \/ Step
    \/ \E r \in Rules : StartScan(r)
    \/ \E p \in Paths \ Targets : Edit(p)
    \/ NextRun
    \/ Stop

Spec == Init /\ [][Next]_vars

\* tmake goes on with what it began, asks for every rule, and is run again.
FairSpec ==
    /\ Spec
    /\ WF_vars(Step)
    /\ WF_vars(\E r \in Rules : StartScan(r))
    /\ WF_vars(todo = {} /\ NextRun)

-----------------------------------------------------------------------------
\* There is a file p, as far as tmake can say.
Here(p) == files[p] # None /\ (p \in Targets => status[p] # "failed")

\* No file changed under the run that gave the answer.
Steady == answer # None /\ ~touched

IncludedBy(p) == {HeaderScanRegexp(p)[i] : i \in DOMAIN HeaderScanRegexp(p)}

\* Every file that an #include of the answer names in the directories dirs is
\* itself in the answer.  A name that reads like the input is never looked up.
ClosedUnder(dirs) ==
    \A p \in answer.headers \union {answer.file} :
      \A n \in IncludedBy(p) \ {NameOf[answer.file]}, d \in dirs :
        Here(Join[<<d, n>>]) => Join[<<d, n>>] \in answer.headers

\* However old the entry of the cache and whatever has been edited since it
\* was made: the headers returned include all that any file in them includes
\* along the include path or in the directory of the input.
Closed == Steady => ClosedUnder(Range(answer.paths))

\* Each name of the entry was found once, or not at all.
Unique(f) == \A i \in DOMAIN headerscan[f].results : Len(headerscan[f].results[i].matches) < 2

\* The headers returned from the cache include also what any of them includes
\* in the directory of any of them: #include "..." is answered as the compiler
\* does.  Only where a name was found in two places is the second lost.
CachedComplete ==
    Steady /\ answer.how = "cached" /\ Unique(answer.file)
        => ClosedUnder(Range(answer.paths) \union {DirOf[h] : h \in answer.headers})

\* A header that a rule makes has been made in this run when it is returned.
GeneratedFirst ==
    answer # None => \A t \in answer.headers \intersect Targets : status[t] \in {"built", "uptodate"}

\* Only one include path is used for each file.
Alone == \A r, q \in Rules : Input[r] = Input[q] => incpath[r] = incpath[q]

\* Once nothing changes any more, nothing is scanned any more.
Settles == <>[](answer # None /\ Unique(answer.file) /\ Alone => answer.how = "cached")
=============================================================================
