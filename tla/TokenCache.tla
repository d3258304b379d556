----------------------------- MODULE TokenCache -----------------------------
(***************************************************************************)
(* The credentials file auth.yaml (Auth/token_cache.py).  A value is there *)
(* or not.  No lock is taken: set_cached_value() loads the file, truncates *)
(* it by opening it, and writes it, with other threads in between.         *)
(***************************************************************************)
CONSTANTS
    Threads,    \* worker threads
    Loop        \* the event loop, which clears the file

ASSUME TokenCacheAssumption == Loop \notin Threads

VARIABLES
    file,       \* what auth.yaml has values for
    torn,       \* it does not parse: two writes overlapped
    store,      \* the set_cached_value() or clear of each writer
    tangled     \* two were in the store at once (history)

cacheVars == <<file, torn, store, tangled>>

Writers == Threads \union {Loop}

\* The values that others depend on being there; an owner_key is stored like them,
\* and its presence left out.  username and encrypted_owner_key_v* are left out
\* whole: their stores come right before others of the same thread.
Kept == {"aas_token", "fcm_credentials", "shared_key"}

Names == Kept \union {"owner_key"}

NoStore == [at |-> "no", data |-> {}]

CacheTypeOK ==
    /\ file \in SUBSET Kept
    /\ torn \in BOOLEAN
    /\ store \in [Writers -> [at : {"no", "loaded", "open", "behind"}, data : SUBSET Kept]]
    /\ tangled \in BOOLEAN

CacheInit ==
    /\ file = {}
    /\ torn = FALSE
    /\ store = [w \in Writers |-> NoStore]
    /\ tangled = FALSE

\* What get_cached_value() finds: nothing in a file that does not parse.
Readable == IF torn THEN {} ELSE file

HasOpen(w) == store[w].at \in {"open", "behind"}

Others(t) == \E u \in Threads \ {t} : store[u].at # "no"

\* Thread t looks at the file, while others may be in the middle of a store.
Notes(t) == tangled' = (tangled \/ Others(t))

Reads(t) == Notes(t) /\ UNCHANGED <<file, torn, store>>

\* set_cached_value(): the strict load, which raises if the file does not parse.
Loads(t, name) ==
    /\ store[t].at = "no"
    /\ ~torn
    /\ store' = [store EXCEPT ![t] = [at |-> "loaded", data |-> file \union ({name} \intersect Kept)]]
    /\ Notes(t)
    /\ UNCHANGED <<file, torn>>

\* _save(): open(..., 'w') leaves an empty file, which parses.
Truncates(w, data) ==
    /\ store' = [v \in Writers |->
                   IF v = w THEN [at |-> "open", data |-> data]
                   ELSE IF store[v].at = "behind" THEN [store[v] EXCEPT !.at = "open"]
                   ELSE store[v]]
    /\ file' = {}
    /\ torn' = FALSE
    /\ UNCHANGED tangled

Opens(w) == store[w].at = "loaded" /\ Truncates(w, store[w].data)

\* The dump is flushed on close.  One that comes after another's, of a file
\* opened before it, may leave the end of the other behind its own.
Writes(w) ==
    /\ HasOpen(w)
    /\ store' = [v \in Writers |->
                   IF v = w THEN NoStore
                   ELSE IF store[v].at = "open" THEN [store[v] EXCEPT !.at = "behind"]
                   ELSE store[v]]
    /\ file' = store[w].data
    /\ torn' \in {FALSE, store[w].at = "behind"}
    /\ UNCHANGED tangled

\* clear_all_cached_values() saves an empty mapping, without a load.
Wipes == store[Loop].at = "no" /\ Truncates(Loop, {})
=============================================================================
