-------------------------------- MODULE FileCache -------------------------------
(***************************************************************************)
(* The two caches of QtWebApp in front of the file system, used by request *)
(* handlers in threads of their own while the files change:                *)
(*   - StaticFileController::service copies the document of an entry under *)
(*     its mutex, and reads a missing file without it;                     *)
(*   - TemplateLoader::getTemplate tries the file of each locale in turn,  *)
(*     and TemplateCache::tryFile looks it up, or reads and inserts it,    *)
(*     under its mutex, but takes the document of the entry after that.    *)
(*                                                                         *)
(* A document is the version of its file, size 0 if there is none.  Both   *)
(* caches are a QCache: the least recently used entries go when the sizes  *)
(* add up to more than cacheSize, and an entry larger than that is deleted *)
(* at once.                                                                *)
(***************************************************************************)
EXTENDS Integers, Sequences, SequencesExt

CONSTANTS
    Reader,             \* threads of request handlers
    File, Locale,       \* static files; files of one template
    Searches,           \* the sequences of locales browsers ask for
    Language,           \* locale |-> the locale of its language
    Default,            \* the file without a locale, in Locale
    Size,               \* sizes of files
    cacheSize, cacheTimeout, maxCachedFileSize,
    MaxCacheTime,            \* bound of the clock
    MaxChanges,         \* bound of the changes of files
    NoEntry, Deleted

ASSUME CacheAssumption ==
    /\ {cacheSize, cacheTimeout, maxCachedFileSize, MaxCacheTime, MaxChanges} \subseteq Nat
    /\ Size \subseteq Nat \ {0}
    /\ Default \in Locale /\ Language \in [Locale -> Locale]
    /\ Searches \subseteq Seq(Locale \ {Default})

VARIABLES
    versions,   \* file |-> its versions: their size, 0 if it does not exist,
                \* and the time they were written
    time,
    files,      \* cache of StaticFileController: entries, most recent last
    templates,  \* cache of TemplateCache
    at,         \* what a thread does
    path,       \* the file it is asked for
    began,      \* `now` of its service() or tryFile()
    entry,      \* the entry or the document it has in hand
    untried,    \* the locales that getTemplate has left to try ...
    tried       \* ... and those it has tried

cacheVars == <<versions, time, files, templates, at, path, began, entry, untried, tried>>

(***************************************************************************)
(* QCache: object() and insert().                                          *)
(***************************************************************************)
Cached(c, f) == {e \in Range(c) : e.file = f}
Others(c, f) ==
    IF Cached(c, f) = {} THEN c ELSE RemoveAt(c, CHOOSE i \in DOMAIN c : c[i].file = f)
Used(c, e) == Append(Others(c, e.file), e)

Cost(c) == FoldLeft(LAMBDA n, e : n + e.size, 0, c)

Trim(c, cost) ==
    LET fits == {k \in 0 .. Len(c) : k = Len(c) \/ Cost(SubSeq(c, k + 1, Len(c))) <= cost}
    IN  SubSeq(c, Min(fits) + 1, Len(c))

Insert(c, e) ==
    IF e.size > cacheSize THEN Others(c, e.file)
    ELSE Append(Trim(Others(c, e.file), cacheSize - e.size), e)

EntryOf(f, since) ==
    [file |-> f, version |-> Len(versions[f]), size |-> Last(versions[f]).size,
     created |-> since]

Fresh(e, t) == cacheTimeout = 0 \/ e.created > t - cacheTimeout
Hits(c, f) == {e \in Cached(c, f) : Fresh(e, time)}

(* object() makes an entry the most recent one, fresh or not.              *)
Touched(c, f) == IF Cached(c, f) = {} THEN c ELSE Used(c, CHOOSE e \in Cached(c, f) : TRUE)

(***************************************************************************)
(* StaticFileController::service.                                          *)
(***************************************************************************)
Turn(t, where) == at' = [at EXCEPT ![t] = where]

ServiceFile(t) ==
    /\ at[t] = "idle"
    /\ \E f \in File :
        /\ path' = [path EXCEPT ![t] = f]
        /\ began' = [began EXCEPT ![t] = time]
        /\ files' = Touched(files, f)
        /\ \/ \E e \in Hits(files, f) :
                entry' = [entry EXCEPT ![t] = e] /\ Turn(t, "served")
           \/ Hits(files, f) = {} /\ Turn(t, "misses") /\ UNCHANGED entry
    /\ UNCHANGED <<versions, time, templates, untried, tried>>

(* The file is read and sent; 404 if there is none.                        *)
ReadFile(t) ==
    LET e == EntryOf(path[t], began[t]) IN
    /\ at[t] = "misses"
    /\ entry' = [entry EXCEPT ![t] = e]
    /\ Turn(t, IF 0 < e.size /\ e.size <= maxCachedFileSize THEN "inserts" ELSE "served")
    /\ UNCHANGED <<versions, time, files, templates, path, began, untried, tried>>

\* faulty variant: the entry is as old as its insertion
InsertFileNow(t) ==
    /\ at[t] = "inserts"
    /\ files' = Insert(files, [entry[t] EXCEPT !.created = time])
    /\ Turn(t, "served")
    /\ UNCHANGED <<versions, time, templates, path, began, entry, untried, tried>>

InsertFile(t) ==
    /\ at[t] = "inserts"
    /\ files' = Insert(files, entry[t])
    /\ Turn(t, "served")
    /\ UNCHANGED <<versions, time, templates, path, began, entry, untried, tried>>

(***************************************************************************)
(* TemplateLoader::getTemplate with TemplateCache::tryFile.                *)
(***************************************************************************)

(* The locales as they are asked for, their languages, no locale.          *)
SearchOrder(locs) ==
    locs \o [i \in 1 .. Len(locs) |-> Language[locs[i]]] \o <<Default>>

getTemplate(t) ==
    /\ at[t] = "idle"
    /\ \E locs \in Searches : untried' = [untried EXCEPT ![t] = SearchOrder(locs)]
    /\ Turn(t, "tries")
    /\ UNCHANGED <<versions, time, files, templates, path, began, entry, tried>>

(* The pointers to entries that are not in the cache c any more.           *)
Kept(c, pointers) ==
    [u \in Reader |-> IF at[u] = "points" /\ pointers[u] \notin Range(c)
                      THEN Deleted ELSE pointers[u]]

tryFile(t) ==
    LET f == Head(untried[t])
        e == EntryOf(f, time)
    IN
    /\ at[t] = "tries"
    /\ path' = [path EXCEPT ![t] = f]
    /\ began' = [began EXCEPT ![t] = time]
    /\ \/ \E h \in Hits(templates, f) :
            /\ templates' = Used(templates, h)
            /\ entry' = [entry EXCEPT ![t] = h]
       \/ /\ Hits(templates, f) = {}
          /\ templates' = Insert(templates, e)
          /\ entry' = [Kept(templates', entry) EXCEPT
                         ![t] = IF e \in Range(templates') THEN e ELSE Deleted]
    /\ Turn(t, "points")
    /\ UNCHANGED <<versions, time, files, untried, tried>>

(* "return entry->document", and getTemplate goes on if it is empty; that  *)
(* of a deleted entry may be anything.                                     *)
Returned(e) == IF e = Deleted THEN Size \cup {0} ELSE {e.size}

ReturnDocument(t) ==
    LET looked == tried[t] \cup {Head(untried[t])}
        later  == {k \in DOMAIN untried[t] : untried[t][k] \notin looked}
    IN
    /\ at[t] = "points"
    /\ \E size \in Returned(entry[t]) :
        IF size = 0 /\ later # {}
        THEN /\ Turn(t, "tries")
             /\ tried' = [tried EXCEPT ![t] = looked]
             /\ untried' = [untried EXCEPT ![t] = SubSeq(@, Min(later), Len(@))]
        ELSE /\ Turn(t, "served")
             /\ tried' = [tried EXCEPT ![t] = {}]
             /\ untried' = [untried EXCEPT ![t] = <<>>]
    /\ UNCHANGED <<versions, time, files, templates, path, began, entry>>

Done(t) ==
    /\ at[t] = "served"
    /\ Turn(t, "idle")
    /\ path' = [path EXCEPT ![t] = Default]
    /\ began' = [began EXCEPT ![t] = 0]
    /\ entry' = [entry EXCEPT ![t] = NoEntry]
    /\ UNCHANGED <<versions, time, files, templates, untried, tried>>

(***************************************************************************)
(* The files change and time goes by.                                      *)
(***************************************************************************)
Changes == FoldFunction(LAMBDA v, n : n + Len(v) - 1, 0, versions)

ChangeFile ==
    \E f \in File \cup Locale, s \in Size \cup {0} :
        /\ Changes < MaxChanges
        /\ s # Last(versions[f]).size \/ s > 0
        /\ versions' = [versions EXCEPT ![f] = Append(@, [size |-> s, since |-> time])]
        /\ UNCHANGED <<time, files, templates, at, path, began, entry, untried, tried>>

CacheTick ==
    /\ time < MaxCacheTime
    /\ time' = time + 1
    /\ UNCHANGED <<versions, files, templates, at, path, began, entry, untried, tried>>

CacheInit ==
    /\ versions \in [File \cup Locale ->
                        {<<[size |-> s, since |-> 0]>> : s \in Size \cup {0}}]
    /\ time = 0
    /\ files = <<>> /\ templates = <<>>
    /\ at = [t \in Reader |-> "idle"]
    /\ path = [t \in Reader |-> Default]
    /\ began = [t \in Reader |-> 0]
    /\ entry = [t \in Reader |-> NoEntry]
    /\ untried = [t \in Reader |-> <<>>]
    /\ tried = [t \in Reader |-> {}]

CacheNext ==
    \/ \E t \in Reader :
        \/ ServiceFile(t) \/ ReadFile(t) \/ InsertFile(t)
        \/ getTemplate(t) \/ tryFile(t) \/ ReturnDocument(t)
        \/ Done(t)
    \/ ChangeFile
    \/ CacheTick

CacheSpec == CacheInit /\ [][CacheNext]_cacheVars

--------------------------------------------------------------------------------

(* A cache has one entry of a file.                                        *)
HasOneOfEach(c) == \A i, j \in DOMAIN c : c[i].file = c[j].file => i = j

(* What a browser gets was on the disk cacheTimeout before its request, or *)
(* later: an entry is as old as the request that made it, although         *)
(* StaticFileController reads and inserts it later, without the mutex in   *)
(* between, and another thread's may come first; and each cache keeps one  *)
(* entry of a file.                                                        *)
ServedIsRecent ==
    /\ HasOneOfEach(files) /\ HasOneOfEach(templates)
    /\ cacheTimeout > 0 => \A t \in Reader :
        at[t] = "served" /\ entry[t] # Deleted =>
            LET v == entry[t].version  all == versions[path[t]] IN
            v < Len(all) => all[v + 1].since > began[t] - cacheTimeout

================================================================================
