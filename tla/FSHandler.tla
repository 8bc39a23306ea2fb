------------------------------ MODULE FSHandler ------------------------------
(***************************************************************************)
(* fs.go: requests for one path of an FS handler.  They share the caches   *)
(* of open files, the compressed copy of the file on disk, the lock under  *)
(* which it is made, and the cleaner that closes files kept for too long.  *)
(* A file is named by the request that opens it: each opens at most one.   *)
(* The path is a file, or a directory with one index name; the versions of *)
(* the file replace one another atomically, at least a second apart.       *)
(***************************************************************************)
EXTENDS Naturals, FiniteSets

CONSTANTS
    FSRequests,
    MaxVersion,     \* bound: versions of the file on disk
    Configs,        \* the values of conf
    Nil

ASSUME FSAssumption ==
    /\ IsFiniteSet(FSRequests) /\ Nil \notin FSRequests /\ MaxVersion \in Nat \ {0}
    /\ Configs \subseteq [dir : BOOLEAN, gen : BOOLEAN, big : BOOLEAN,
                          writable : BOOLEAN, compressible : BOOLEAN]

Encodings == {"", "gzip"}   \* h.cache and h.cacheGzip; h.cacheBrotli is alike

VARIABLES
    conf,       \* the path: a directory?  big?  may files be created beside it?
    orig,       \* version of the file on disk, 0 when there is none
    gz, tmp,    \* the compressed file and the temporary one: the version of the original,
                \* and made, how much of it was written ("part", "cut" or "whole")
    flock,      \* who holds the lock of getFileLock
    cache,      \* the file cached under the path, in each cache
    ff,         \* each fsFile
    rq,         \* each request
    cleaner     \* pendingFiles, filesToRelease, and whether CleanStop is closed

fsVars == <<conf, orig, gz, tmp, flock, cache, ff, rq, cleaner>>
disk == <<conf, orig, gz, tmp, flock>>

Copy(ver, made) == [ver |-> ver, made |-> made]

NoFile == [st |-> "none", mem |-> FALSE, compressed |-> FALSE, made |-> "whole",
           readers |-> 0, idle |-> 0, old |-> FALSE]

NewRequest == [pc |-> "start", enc |-> "", must |-> FALSE, slash |-> FALSE, index |-> FALSE,
               file |-> Nil, copy |-> Copy(0, "whole"), status |-> 0]

FSInit ==
    /\ conf \in Configs
    /\ orig \in {0, 1}
    /\ gz \in {Nil} \cup (IF orig = 1 /\ ~conf.dir THEN {Copy(1, "whole")} ELSE {})
    /\ tmp = Nil /\ flock = Nil
    /\ cache = [e \in Encodings |-> Nil]
    /\ ff = [f \in FSRequests |-> NoFile]
    /\ rq = [r \in FSRequests |-> NewRequest]
    /\ cleaner = [pending |-> {}, release |-> {}, stopped |-> FALSE]

-----------------------------------------------------------------------------
(* Steps of a request. *)

Goto(r, pc) == rq' = [rq EXCEPT ![r].pc = pc]
Answer(r, s) == rq' = [rq EXCEPT ![r] = [NewRequest EXCEPT !.pc = "done", !.status = s]]
At(r, pc) == rq[r].pc = pc

\* A path with a nil byte is refused, and one with "/../" after PathRewrite.
Reject(r) ==
    /\ At(r, "start")
    /\ Answer(r, 400) \/ Answer(r, 500)
    /\ UNCHANGED <<disk, cache, ff, cleaner>>

\* The first look into the cache, under cacheLock.  A range is never compressed.
Lookup(r) ==
    /\ At(r, "start")
    /\ \E e \in Encodings, s \in BOOLEAN :
          LET hit == cache[e] IN
          /\ rq' = [rq EXCEPT ![r] = [@ EXCEPT !.enc = e, !.must = (e # ""), !.slash = s,
                       !.file = hit, !.pc = IF hit = Nil THEN "open" ELSE "have"]]
          /\ ff' = IF hit = Nil THEN ff ELSE [ff EXCEPT ![hit].readers = @ + 1]
    /\ UNCHANGED <<disk, cache, cleaner>>

\* createDirIndex: a page kept in memory, compressed there if it must be.
CreateDirIndex(r) ==
    /\ ff' = [ff EXCEPT ![r] = [NoFile EXCEPT !.st = "open", !.mem = TRUE,
                                              !.compressed = rq[r].must]]
    /\ Goto(r, "insert")

\* What openFSFile's error means to handleRequest, and openIndexFile's.
OpenFailed(r, err) ==
    \/ /\ ~rq[r].index
       /\ CASE err = "errDirIndexRequired" /\ rq[r].slash ->
                  rq' = [rq EXCEPT ![r].index = TRUE, ![r].pc = "open"]
            [] err = "errDirIndexRequired" /\ ~rq[r].slash -> Answer(r, 302)
            [] err = "errNoCreatePermission" ->
                  rq' = [rq EXCEPT ![r].must = FALSE, ![r].pc = "open"]
            [] OTHER -> Answer(r, 404)
       /\ UNCHANGED ff
    \/ /\ rq[r].index /\ err = "notExist" /\ conf.gen
       /\ CreateDirIndex(r)
    \/ /\ rq[r].index /\ ~(err = "notExist" /\ conf.gen)
       /\ Answer(r, 403)
       /\ UNCHANGED ff

\* newFSFile: r has opened a file, of which made was written; t is the present.  The
\* size may not fit an int, or its first bytes be unreadable, which leaves f open.
NewFSFile(r, compressed, made) ==
    \/ /\ ff' = [ff EXCEPT ![r] = [NoFile EXCEPT !.st = "open", !.compressed = compressed,
                                                 !.made = made]]
       /\ rq' = [rq EXCEPT ![r].pc = "insert", ![r].copy = NewRequest.copy]
    \/ OpenFailed(r, "error")

\* What os.Open of the path itself finds.
IsDir(r) == conf.dir /\ ~rq[r].index
OpenError(r) == IF IsDir(r) THEN "errDirIndexRequired" ELSE "notExist"

\* openFSFile's os.Open.
OpenFSFile(r) ==
    /\ At(r, "open")
    /\ \/ /\ rq[r].must /\ (gz = Nil \/ IsDir(r))
          /\ Goto(r, "compress") /\ UNCHANGED ff
       \/ /\ rq[r].must /\ gz # Nil /\ ~IsDir(r)
          /\ rq' = [rq EXCEPT ![r].pc = "stat", ![r].copy = gz] /\ UNCHANGED ff
       \/ /\ ~rq[r].must /\ ~IsDir(r) /\ orig # 0
          /\ NewFSFile(r, FALSE, "whole")
       \/ /\ ~rq[r].must /\ (IsDir(r) \/ orig = 0)
          /\ OpenFailed(r, OpenError(r))
    /\ UNCHANGED <<disk, cache, cleaner>>

\* openFSFile compares the compressed file it has open with the original.
StatOriginal(r) ==
    /\ At(r, "stat")
    /\ \/ orig = 0 /\ OpenFailed(r, "error")
       \/ orig > rq[r].copy.ver /\ Goto(r, "remove") /\ UNCHANGED ff
       \/ orig # 0 /\ orig <= rq[r].copy.ver /\ NewFSFile(r, TRUE, rq[r].copy.made)
    /\ UNCHANGED <<disk, cache, cleaner>>

\* os.Remove of the stale compressed file, whatever it is by now; no lock is held.
RemoveStale(r) ==
    /\ At(r, "remove")
    /\ gz' = Nil
    /\ Goto(r, "compress")
    /\ UNCHANGED <<conf, orig, tmp, flock, cache, ff, cleaner>>

\* compressAndOpenFSFile, up to the lock.
CompressAndOpen(r) ==
    /\ At(r, "compress")
    /\ \/ (IsDir(r) \/ orig = 0) /\ OpenFailed(r, OpenError(r))
       \/ ~IsDir(r) /\ orig # 0 /\ ~conf.compressible /\ NewFSFile(r, FALSE, "whole")
       \/ /\ ~IsDir(r) /\ orig # 0 /\ conf.compressible
          /\ rq' = [rq EXCEPT ![r].pc = "lock", ![r].copy = Copy(orig, "part")] /\ UNCHANGED ff
    /\ UNCHANGED <<disk, cache, cleaner>>

\* Mutant of LockFile: the compressed file is made without the lock.
LockFileNot(r) ==
    /\ At(r, "lock")
    /\ flock' = r
    /\ Goto(r, "create")
    /\ UNCHANGED <<conf, orig, gz, tmp, cache, ff, cleaner>>

LockFile(r) ==
    /\ At(r, "lock") /\ flock = Nil
    /\ flock' = r
    /\ Goto(r, "create")
    /\ UNCHANGED <<conf, orig, gz, tmp, cache, ff, cleaner>>

\* compressFileNolock: somebody has made it, or os.Create of the temporary file,
\* which may fail for lack of permission or for any other reason.
CreateTmp(r) ==
    /\ At(r, "create")
    /\ \/ /\ gz # Nil
          /\ Goto(r, "reopen") /\ UNCHANGED <<ff, tmp, flock>>
       \/ /\ gz = Nil /\ conf.writable
          /\ tmp' = rq[r].copy
          /\ Goto(r, "copy") /\ UNCHANGED <<ff, flock>>
       \/ /\ gz = Nil /\ flock' = Nil /\ UNCHANGED tmp
          /\ \/ ~conf.writable /\ OpenFailed(r, "errNoCreatePermission")
             \/ conf.writable /\ OpenFailed(r, "error")
    /\ UNCHANGED <<conf, orig, gz, cache, cleaner>>

\* The copy, the ends of the compressor and of the file, and Chtimes; an error leaves
\* the temporary file where it is.  Errors of the two Close calls are dropped, the first
\* of which writes the end of the file: it may be cut off.
CopyTmp(r) ==
    /\ At(r, "copy")
    /\ \/ /\ \E made \in {"cut", "whole"} : tmp' = Copy(rq[r].copy.ver, made)
          /\ Goto(r, "rename") /\ UNCHANGED <<ff, flock>>
       \/ flock' = Nil /\ OpenFailed(r, "error") /\ UNCHANGED tmp
    /\ UNCHANGED <<conf, orig, gz, cache, cleaner>>

RenameTmp(r) ==
    /\ At(r, "rename")
    /\ \/ /\ tmp # Nil
          /\ gz' = tmp /\ tmp' = Nil
          /\ Goto(r, "reopen") /\ UNCHANGED <<ff, flock>>
       \/ flock' = Nil /\ OpenFailed(r, "error") /\ UNCHANGED <<gz, tmp>>
    /\ UNCHANGED <<conf, orig, cache, cleaner>>

\* newCompressedFSFile: the file may have been removed by RemoveStale.
Reopen(r) ==
    /\ At(r, "reopen")
    /\ flock' = Nil
    /\ \/ gz # Nil /\ NewFSFile(r, TRUE, gz.made)
       \/ gz = Nil /\ OpenFailed(r, "error")
    /\ UNCHANGED <<conf, orig, gz, tmp, cache, cleaner>>

\* The second look, under cacheLock; the loser will close its own file.
Insert(r) ==
    /\ At(r, "insert")
    /\ LET had == cache[rq[r].enc]
           f == IF had = Nil THEN r ELSE had IN
       /\ cache' = [cache EXCEPT ![rq[r].enc] = f]
       /\ ff' = [ff EXCEPT ![f].readers = @ + 1]
       /\ rq' = [rq EXCEPT ![r].file = f, ![r].pc = IF f = r THEN "have" ELSE "lost"]
    /\ UNCHANGED <<disk, cleaner>>

\* fsFile.Release: the file and its idle big readers are closed.
Release(f) ==
    ff' = [ff EXCEPT ![f] = [NoFile EXCEPT !.st = "closed", !.readers = ff[f].readers]]

ReleaseLost(r) ==
    /\ At(r, "lost")
    /\ Release(r)
    /\ Goto(r, "have")
    /\ UNCHANGED <<disk, cache, cleaner>>

DecReaders(r) == ff' = [ff EXCEPT ![rq[r].file].readers = @ - 1]

NotModified(r) ==
    /\ At(r, "have")
    /\ DecReaders(r) /\ Answer(r, 304)
    /\ UNCHANGED <<disk, cache, cleaner>>

IsBig(f) == conf.big /\ ~ff[f].mem

\* NewReader: a small file is read through the handle all share, a big one
\* through an idle reader, or through the path opened once more.
NewReader(r) ==
    /\ At(r, "have")
    /\ LET f == rq[r].file IN
       \/ /\ ~IsBig(f)
          /\ Goto(r, "read") /\ UNCHANGED ff
       \/ /\ IsBig(f) /\ ff[f].idle > 0
          /\ ff' = [ff EXCEPT ![f].idle = @ - 1] /\ Goto(r, "read")
       \/ /\ IsBig(f) /\ ff[f].idle = 0
          /\ (IF ff[f].compressed THEN gz # Nil ELSE orig # 0)
          /\ Goto(r, "read") /\ UNCHANGED ff
       \/ /\ IsBig(f) /\ ff[f].idle = 0
          /\ (IF ff[f].compressed THEN gz = Nil ELSE orig = 0)
          /\ DecReaders(r) /\ Answer(r, 500)
    /\ UNCHANGED <<disk, cache, cleaner>>

\* The range does not parse (416), the response was to a HEAD, or its body has
\* been written: the reader is closed.  A big one is kept for the next request
\* unless Seek fails; the count follows under cacheLock.
CloseReader(r) ==
    /\ At(r, "read")
    /\ LET f == rq[r].file IN
       \/ ~IsBig(f) /\ DecReaders(r) /\ Answer(r, 200)
       \/ IsBig(f) /\ ff' = [ff EXCEPT ![f].idle = @ + 1] /\ Goto(r, "dec")
       \/ IsBig(f) /\ UNCHANGED ff /\ Goto(r, "dec")
    /\ UNCHANGED <<disk, cache, cleaner>>

CloseDec(r) ==
    /\ At(r, "dec")
    /\ DecReaders(r) /\ Answer(r, 200)
    /\ UNCHANGED <<disk, cache, cleaner>>

-----------------------------------------------------------------------------
(* The cleaner, the clock and the owner of the file. *)

Cached == {f \in FSRequests : \E e \in Encodings : cache[e] = f}
Expired == {f \in Cached : ff[f].old}
Unread(fs) == {f \in fs : ff[f].readers = 0}

\* Mutant of CleanCache: expired files are closed although they are read.
CleanCacheRead ==
    /\ ~cleaner.stopped /\ cleaner.release = {}
    /\ cleaner' = [cleaner EXCEPT !.release = Expired]
    /\ cache' = [e \in Encodings |-> IF cache[e] \in Expired THEN Nil ELSE cache[e]]
    /\ UNCHANGED <<disk, ff, rq>>

\* Mutant of CleanCache: the files that are read are forgotten.
CleanCacheForgets ==
    /\ ~cleaner.stopped /\ cleaner.release = {}
    /\ cleaner' = [cleaner EXCEPT !.release = Unread(Expired)]
    /\ cache' = [e \in Encodings |-> IF cache[e] \in Expired THEN Nil ELSE cache[e]]
    /\ UNCHANGED <<disk, ff, rq>>

\* cleanCache's critical section: pending files and expired ones are parted into
\* those that are read, which stay pending, and those to close.
CleanCache ==
    /\ ~cleaner.stopped /\ cleaner.release = {}
    /\ LET fs == cleaner.pending \cup Expired IN
       cleaner' = [cleaner EXCEPT !.pending = fs \ Unread(fs), !.release = Unread(fs)]
    /\ cache' = [e \in Encodings |-> IF cache[e] \in Expired THEN Nil ELSE cache[e]]
    /\ UNCHANGED <<disk, ff, rq>>

\* The files are closed after the lock is released.
CleanRelease(f) ==
    /\ f \in cleaner.release
    /\ Release(f)
    /\ cleaner' = [cleaner EXCEPT !.release = @ \ {f}]
    /\ UNCHANGED <<disk, cache, rq>>

\* CleanStop is closed between two runs of the cleaner.
CleanStop ==
    /\ ~cleaner.stopped /\ cleaner.release = {}
    /\ cleaner' = [cleaner EXCEPT !.stopped = TRUE]
    /\ UNCHANGED <<disk, cache, ff, rq>>

\* cacheDuration has passed since the file was opened.
Expire(f) ==
    /\ ff[f].st = "open" /\ ~ff[f].old
    /\ ff' = [ff EXCEPT ![f].old = TRUE]
    /\ UNCHANGED <<disk, cache, rq, cleaner>>

\* The owner of the file replaces it, or removes it.
Publish ==
    /\ orig # 0
    /\ orig' \in {0} \cup {v \in 1 .. MaxVersion : v = orig + 1}
    /\ UNCHANGED <<conf, gz, tmp, flock, cache, ff, rq, cleaner>>

-----------------------------------------------------------------------------
Step(r) ==
    \/ Lookup(r) \/ OpenFSFile(r) \/ StatOriginal(r) \/ RemoveStale(r)
    \/ CompressAndOpen(r) \/ LockFile(r) \/ CreateTmp(r) \/ CopyTmp(r) \/ RenameTmp(r)
    \/ Reopen(r) \/ Insert(r) \/ ReleaseLost(r) \/ NotModified(r) \/ NewReader(r)
    \/ CloseReader(r) \/ CloseDec(r)

FSNext ==
    \/ \E r \in FSRequests : Step(r) \/ Reject(r) \/ CleanRelease(r) \/ Expire(r)
    \/ CleanCache \/ CleanStop \/ Publish

\* Handlers and the writers of responses run, time passes, the cleaner wakes up.
FSFairness ==
    /\ \A r \in FSRequests :
          WF_fsVars(Step(r)) /\ WF_fsVars(CleanRelease(r)) /\ WF_fsVars(Expire(r))
    /\ WF_fsVars(CleanCache)

FSSpec == FSInit /\ [][FSNext]_fsVars /\ FSFairness

-----------------------------------------------------------------------------
Holding == {"lost", "have", "read", "dec"}
Holders(f) == {r \in FSRequests : rq[r].file = f /\ rq[r].pc \in Holding}

\* A file that fsFile.Release has closed is in no cache, on no list of the cleaner
\* and held by no request, and no idle reader of it stays open.
ReleasedUnused ==
    \A f \in FSRequests : ff[f].st = "closed" =>
        /\ f \notin Cached /\ f \notin cleaner.pending
        /\ Holders(f) = {} /\ ff[f].idle = 0

\* Nobody can open the compressed file, or has it open or cached, while it is still
\* written, although two requests may be making it at once, a stale one is removed
\* without the lock and a failed copy stays on disk.  (The end of a finished one may be
\* missing: CopyTmp.)
CompressedFinished ==
    /\ gz # Nil => gz.made # "part"
    /\ \A f \in FSRequests : ff[f].made # "part"

\* An open file is closed in the end, unless CleanStop ends the cleaner.
FilesReleased ==
    \A f \in FSRequests : (ff[f].st = "open") ~> (ff[f].st = "closed" \/ cleaner.stopped)

=============================================================================
