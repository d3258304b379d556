---------------------------- MODULE SignInProofs ----------------------------
(***************************************************************************)
(* Signing in, for any number of attempts and polls: the types, who holds  *)
(* what where, that attempts exclude each other to the end of their        *)
(* teardown, and that account browsers do (SignInInv); and what is on file *)
(* when a token is stored and when an attempt says that it is done         *)
(* (FileInv).                                                              *)
(***************************************************************************)
EXTENDS SignIn, TLAPS

\* A thread is at a store exactly while its code is; an attempt's thread only
\* starts when the X stack runs; and who signs in to the account has the lock.
Placed ==
    /\ \A r \in Runs : flow[r] = "provisioning" => at[r] = "none"
    /\ \A t \in Threads : store[t].at # "no" => at[t] \in Names
    /\ \A t \in Threads : at[t] = "account" => flowLock = t

\* An attempt that is not over is what makes the phase active.
RunsAreActive == \A r \in Runs : flow[r] # "none" => IsActive

SignInInv == SignInTypeOK /\ Placed /\ OneRunAtATime /\ RunsAreActive

-----------------------------------------------------------------------------
(* The store.                                                              *)

\* No writer but w comes to the store or leaves it.
OnlyMoves(w) ==
    \A v \in Writers \ {w} : store'[v].at = "no" <=> store[v].at = "no"

\* Every operation of the store keeps its types, and moves its caller only.
LEMMA StoreOperations ==
    ASSUME CacheTypeOK, NEW w \in Writers
    PROVE  /\ \A name : w \in Threads /\ Loads(w, name) => CacheTypeOK' /\ OnlyMoves(w)
           /\ Opens(w) => CacheTypeOK' /\ OnlyMoves(w) /\ store'[w].at # "no"
           /\ Writes(w) => CacheTypeOK' /\ OnlyMoves(w) /\ store'[w].at = "no"
           /\ Truncates(w, {}) => CacheTypeOK' /\ OnlyMoves(w)
<1>1. ASSUME NEW name, Loads(w, name)
      PROVE  CacheTypeOK' /\ OnlyMoves(w)
  BY <1>1 DEF Loads, Notes, CacheTypeOK, OnlyMoves, Writers, NoStore, Others, Kept
<1>2. ASSUME NEW data \in SUBSET Kept, Truncates(w, data)
      PROVE  CacheTypeOK' /\ OnlyMoves(w) /\ store'[w].at # "no"
  BY <1>2 DEF Truncates, CacheTypeOK, OnlyMoves
<1>3. ASSUME Writes(w)
      PROVE  CacheTypeOK' /\ OnlyMoves(w) /\ store'[w].at = "no"
  <2>1. file' \in SUBSET Kept /\ tangled' \in BOOLEAN
    BY <1>3 DEF Writes, CacheTypeOK
  <2>2. torn' \in BOOLEAN
    <3>1. (store[w].at = "behind") \in BOOLEAN
      OBVIOUS
    <3> QED  BY <1>3, <3>1 DEF Writes
  <2>3. store' \in [Writers -> [at : {"no", "loaded", "open", "behind"}, data : SUBSET Kept]]
    BY <1>3 DEF Writes, CacheTypeOK, NoStore
  <2>4. OnlyMoves(w) /\ store'[w].at = "no"
    BY <1>3 DEF Writes, CacheTypeOK, OnlyMoves, NoStore
  <2> QED  BY <2>1, <2>2, <2>3, <2>4 DEF CacheTypeOK
<1>4. store[w].data \in SUBSET Kept
  BY DEF CacheTypeOK
<1> QED
  BY <1>1, <1>2, <1>3, <1>4 DEF Opens

-----------------------------------------------------------------------------
(* Steps of a worker thread.                                               *)

\* Thread t moves to place, gives up what it holds there and may take something
\* else; nothing of the others changes but for browsers that are killed.
ThreadMoves(t, place) ==
    /\ Goes(t, place) /\ place \in Places /\ at[t] \notin Over
    /\ UNCHANGED flowVars
    /\ CacheTypeOK' /\ OnlyMoves(t)
    /\ store'[t].at # "no" => place \in Names
    /\ then' \in [Threads -> {"token", "flow_lock", "key"}]
    /\ flowLock' = IF place = "account" THEN t ELSE IF flowLock = t THEN Nobody ELSE flowLock
    /\ place = "account" => flowLock = Nobody
    /\ chrome' \subseteq chrome \union {t}
    /\ t \in chrome' => place \in {"account", "vault"}
    /\ starter' \in {starter, t, Nobody}
    /\ starter' = t => place \in {"registering", "fcm_credentials"}
    /\ receiver' \in {"none", "bare", "ready"}
    /\ dropped' \in SUBSET Threads
    /\ acts' \in SUBSET Writers

\* That keeps the invariant, whatever the place.
LEMMA ThreadMovesKeepInv ==
    ASSUME SignInInv, NEW t \in Threads, NEW place, ThreadMoves(t, place)
    PROVE  SignInInv'
<1> USE SignInAssumption DEF SignInInv
<1>1. at' = [at EXCEPT ![t] = place] /\ at \in [Threads -> Places]
  BY DEF ThreadMoves, Goes, SignInTypeOK
<1>2. at' \in [Threads -> Places] /\ at'[t] = place /\ \A u \in Threads \ {t} : at'[u] = at[u]
  BY <1>1 DEF ThreadMoves
<1>3. UNCHANGED <<phase, flow, final>>
  BY DEF ThreadMoves, flowVars
<1>4. LocksAreHeldInside'
  BY <1>2 DEF LocksAreHeldInside, SignInTypeOK, ThreadMoves
<1>5. flowLock' \in Threads \union {Nobody} /\ starter' \in Threads \union {Nobody} /\ chrome' \in SUBSET Threads
  BY DEF SignInTypeOK, ThreadMoves
<1>6. SignInTypeOK'
  BY <1>2, <1>3, <1>4, <1>5 DEF SignInTypeOK, ThreadMoves
<1>7. Placed'
  <2>1. \A r \in Runs : flow'[r] = "provisioning" => at'[r] = "none"
    BY <1>2, <1>3 DEF Placed, ThreadMoves, Over
  <2>2. \A u \in Threads : store'[u].at # "no" => at'[u] \in Names
    BY <1>2 DEF Placed, ThreadMoves, OnlyMoves, Writers
  <2>3. \A u \in Threads : at'[u] = "account" => flowLock' = u
    BY <1>2 DEF Placed, ThreadMoves
  <2> QED  BY <2>1, <2>2, <2>3 DEF Placed
<1>8. OneRunAtATime' /\ RunsAreActive'
  BY <1>3 DEF OneRunAtATime, RunsAreActive, IsActive
<1> QED
  BY <1>6, <1>7, <1>8

\* Looking at the file moves nobody.
LEMMA ReadsKeepStore ==
    ASSUME CacheTypeOK, NEW w, Reads(w) \/ UNCHANGED cacheVars
    PROVE  CacheTypeOK' /\ store' = store
BY DEF Reads, Notes, Others, cacheVars, CacheTypeOK

\* A thread that is at no store and stays away from the file: what is left to show.
LEMMA AwayFromStore ==
    ASSUME SignInInv, NEW t \in Threads, at[t] \notin Names,
           Reads(t) \/ UNCHANGED cacheVars
    PROVE  CacheTypeOK' /\ OnlyMoves(t) /\ store'[t].at = "no"
BY ReadsKeepStore DEF SignInInv, SignInTypeOK, Placed, OnlyMoves

LEMMA PlacesListed ==
    Places = {"none", "returned", "failed", "aas_token", "fcm_credentials", "shared_key", "owner_key",
              "receiver", "start_lock", "registering", "token", "flow_lock", "account",
              "key", "vault_driver", "vault"}
BY DEF Places, Over, Names, Kept

\* Every step of a thread is such a move.
LEMMA ThreadStepKeepsInv ==
    ASSUME SignInInv, NEW t \in Threads, ThreadStep(t), UNCHANGED acts
    PROVE  SignInInv'
<1> SUFFICES \E place : ThreadMoves(t, place)
  BY ThreadMovesKeepInv
<1> USE SignInAssumption
<1>0. /\ SignInTypeOK /\ CacheTypeOK /\ Placed
      /\ at[t] \in Places
      /\ flowLock = t => at[t] = "account"
      /\ starter = t => at[t] \in {"registering", "fcm_credentials"}
      /\ t \in chrome => at[t] \in {"account", "vault"}
      /\ t \in Writers /\ t # Nobody /\ at = [at EXCEPT ![t] = at[t]]
  BY DEF SignInInv, SignInTypeOK, LocksAreHeldInside, Writers
<1>1. CASE CallReceiver(t)
  <2>1. at[t] = "receiver" /\ at[t] \notin Names /\ at[t] \notin Over
    BY <1>1 DEF CallReceiver, Names, Kept, Over
  <2>2. Reads(t) \/ UNCHANGED cacheVars
    BY <1>1 DEF CallReceiver
  <2>3. CacheTypeOK' /\ OnlyMoves(t) /\ store'[t].at = "no"
    BY <2>1, <2>2, AwayFromStore
  <2>4. then[t] \in Places \ {"account"} /\ "start_lock" \in Places
    BY <1>0, PlacesListed DEF SignInTypeOK
  <2>5. PICK place \in {"start_lock", then[t]} : Goes(t, place)
    BY <1>1 DEF CallReceiver, Proceeds
  <2>6. then' \in [Threads -> {"token", "flow_lock", "key"}]
    BY <1>0, <1>1 DEF CallReceiver, Proceeds, SignInTypeOK
  <2>7. receiver' \in {"none", "bare", "ready"}
    BY <1>0, <1>1 DEF CallReceiver, SignInTypeOK
  <2>8. UNCHANGED <<flow, phase, final, chrome, flowLock, starter, dropped>>
    BY <1>1 DEF CallReceiver, flowVars, browserVars
  <2>9. ThreadMoves(t, place)
    BY <1>0, <2>1, <2>3, <2>4, <2>5, <2>6, <2>7, <2>8 DEF ThreadMoves, flowVars, SignInTypeOK
  <2> QED  BY <2>9
<1>2. CASE EnterStart(t)
  <2>1. at[t] = "start_lock" /\ at[t] \notin Names /\ at[t] \notin Over
    BY <1>2 DEF EnterStart, Names, Kept, Over
  <2>2. UNCHANGED <<cacheVars, flow, phase, final, chrome, flowLock>>
    BY <1>2 DEF EnterStart, flowVars, browserVars
  <2>3. CacheTypeOK' /\ OnlyMoves(t) /\ store'[t].at = "no"
    BY <2>1, <2>2, AwayFromStore
  <2>4. then[t] \in Places \ {"account"} /\ "registering" \in Places
    BY <1>0, PlacesListed DEF SignInTypeOK
  <2>5. CASE Goes(t, "registering") /\ UNCHANGED <<then, receiver, dropped>>
             /\ starter' = IF t \in dropped THEN starter ELSE t
    <3>1. ThreadMoves(t, "registering")
      BY <1>0, <2>1, <2>2, <2>3, <2>4, <2>5 DEF ThreadMoves, flowVars, SignInTypeOK
    <3> QED  BY <3>1
  <2>6. CASE LeaveReceiver(t)
    <3>1. ThreadMoves(t, then[t])
      BY <1>0, <2>1, <2>2, <2>3, <2>4, <2>6 DEF ThreadMoves, flowVars, SignInTypeOK, LeaveReceiver, Proceeds
    <3> QED  BY <3>1
  <2> QED  BY <1>2, <2>5, <2>6 DEF EnterStart
<1>3. CASE ChecksIn(t)
  <2>1. at[t] = "registering" /\ at[t] \notin Names /\ at[t] \notin Over
    BY <1>3 DEF ChecksIn, Names, Kept, Over
  <2>2. UNCHANGED <<cacheVars, flow, phase, final, chrome, flowLock>>
    BY <1>3 DEF ChecksIn, flowVars, browserVars
  <2>3. CacheTypeOK' /\ OnlyMoves(t) /\ store'[t].at = "no"
    BY <2>1, <2>2, AwayFromStore
  <2>4. then[t] \in Places \ {"account"}
    BY <1>0, PlacesListed DEF SignInTypeOK
  <2>5. ThreadMoves(t, then[t])
    BY <1>0, <1>3, <2>1, <2>2, <2>3, <2>4 DEF ChecksIn, ThreadMoves, flowVars, SignInTypeOK, LeaveReceiver, Proceeds
  <2> QED  BY <2>5
<1>4. CASE Registers(t)
  <2>1. at[t] = "registering" /\ at[t] \notin Names /\ at[t] \notin Over
    BY <1>4 DEF Registers, Names, Kept, Over
  <2>2. UNCHANGED <<cacheVars, flow, phase, final, then, chrome, flowLock, starter, dropped>>
    BY <1>4 DEF Registers, flowVars, browserVars
  <2>3. CacheTypeOK' /\ OnlyMoves(t) /\ store'[t].at = "no"
    BY <2>1, <2>2, AwayFromStore
  <2>4. ThreadMoves(t, "fcm_credentials")
    BY <1>0, <1>4, <2>1, <2>2, <2>3, PlacesListed DEF Registers, ThreadMoves, flowVars, SignInTypeOK
  <2> QED  BY <2>4
<1>5. CASE Token(t)
  <2>1. at[t] = "token" /\ at[t] \notin Names /\ at[t] \notin Over
    BY <1>5 DEF Token, Names, Kept, Over
  <2>2. Reads(t) /\ UNCHANGED <<flow, phase, final, chrome, flowLock, receiver, starter, dropped>>
    BY <1>5 DEF Token, flowVars, browserVars, receiverVars
  <2>3. CacheTypeOK' /\ OnlyMoves(t) /\ store'[t].at = "no"
    BY <2>1, <2>2, AwayFromStore
  <2>4. PICK place \in {"receiver", "returned", "none"} : Goes(t, place)
    BY <1>5 DEF Token, Outcome
  <2>5. then' \in [Threads -> {"token", "flow_lock", "key"}]
    BY <1>0, <1>5 DEF Token, SignInTypeOK
  <2>6. ThreadMoves(t, place)
    BY <1>0, <2>1, <2>2, <2>3, <2>4, <2>5, PlacesListed DEF ThreadMoves, flowVars, SignInTypeOK
  <2> QED  BY <2>6
<1>6. CASE OpensAccount(t)
  <2>1. at[t] = "flow_lock" /\ at[t] \notin Names /\ at[t] \notin Over /\ flowLock = Nobody
    BY <1>6 DEF OpensAccount, FlowLockIsFree, Names, Kept, Over
  <2>2. /\ UNCHANGED <<cacheVars, flow, phase, final, then, receiver, starter, dropped>>
        /\ flowLock' = t /\ chrome' = {t} /\ Goes(t, "account")
    BY <1>6 DEF OpensAccount, flowVars, receiverVars
  <2>3. CacheTypeOK' /\ OnlyMoves(t) /\ store'[t].at = "no"
    BY <2>1, <2>2, AwayFromStore
  <2>4. ThreadMoves(t, "account")
    BY <1>0, <2>1, <2>2, <2>3, PlacesListed DEF ThreadMoves, flowVars, SignInTypeOK
  <2> QED  BY <2>4
<1>7. CASE SignsIn(t)
  <2>1. at[t] = "account" /\ at[t] \notin Names /\ at[t] \notin Over
    BY <1>7 DEF SignsIn, Names, Kept, Over
  <2>2. /\ UNCHANGED <<cacheVars, flow, phase, final, then, receiver, starter, dropped>>
        /\ flowLock' = IF flowLock = t THEN Nobody ELSE flowLock
        /\ chrome' = chrome \ {t} /\ Goes(t, "aas_token")
    BY <1>7 DEF SignsIn, flowVars, receiverVars
  <2>3. CacheTypeOK' /\ OnlyMoves(t) /\ store'[t].at = "no"
    BY <2>1, <2>2, AwayFromStore
  <2>4. ThreadMoves(t, "aas_token")
    BY <1>0, <2>1, <2>2, <2>3, PlacesListed DEF ThreadMoves, flowVars, SignInTypeOK
  <2> QED  BY <2>4
<1>8. CASE Key(t)
  <2>1. at[t] = "key" /\ at[t] \notin Names /\ at[t] \notin Over
    BY <1>8 DEF Key, Names, Kept, Over
  <2>2. Reads(t) /\ UNCHANGED <<flow, phase, final, then, chrome, flowLock, receiver, starter, dropped>>
    BY <1>8 DEF Key, flowVars, browserVars, receiverVars
  <2>3. CacheTypeOK' /\ OnlyMoves(t) /\ store'[t].at = "no"
    BY <2>1, <2>2, AwayFromStore
  <2>4. PICK place \in {"none", "vault_driver", "owner_key", "returned"} : Goes(t, place)
    BY <1>8 DEF Key, Outcome
  <2>5. ThreadMoves(t, place)
    BY <1>0, <2>1, <2>2, <2>3, <2>4, PlacesListed DEF ThreadMoves, flowVars, SignInTypeOK
  <2> QED  BY <2>5
<1>9. CASE OpensVault(t)
  <2>1. at[t] = "vault_driver" /\ at[t] \notin Names /\ at[t] \notin Over
    BY <1>9 DEF OpensVault, Names, Kept, Over
  <2>2. /\ UNCHANGED <<cacheVars, flow, phase, final, then, flowLock, receiver, starter, dropped>>
        /\ chrome' = {t} /\ Goes(t, "vault")
    BY <1>9 DEF OpensVault, flowVars, receiverVars
  <2>3. CacheTypeOK' /\ OnlyMoves(t) /\ store'[t].at = "no"
    BY <2>1, <2>2, AwayFromStore
  <2>4. ThreadMoves(t, "vault")
    BY <1>0, <2>1, <2>2, <2>3, PlacesListed DEF ThreadMoves, flowVars, SignInTypeOK
  <2> QED  BY <2>4
<1>10. CASE Confirms(t)
  <2>1. at[t] = "vault" /\ at[t] \notin Names /\ at[t] \notin Over
    BY <1>10 DEF Confirms, Names, Kept, Over
  <2>2. /\ UNCHANGED <<cacheVars, flow, phase, final, then, flowLock, receiver, starter, dropped>>
        /\ chrome' = chrome \ {t} /\ Goes(t, "shared_key")
    BY <1>10 DEF Confirms, flowVars, receiverVars
  <2>3. CacheTypeOK' /\ OnlyMoves(t) /\ store'[t].at = "no"
    BY <2>1, <2>2, AwayFromStore
  <2>4. ThreadMoves(t, "shared_key")
    BY <1>0, <2>1, <2>2, <2>3, PlacesListed DEF ThreadMoves, flowVars, SignInTypeOK
  <2> QED  BY <2>4
<1>11. CASE Fails(t)
  <2>1. at[t] \in {"account", "vault", "token", "key"} /\ at[t] \notin Names /\ at[t] \notin Over
    BY <1>11 DEF Fails, Names, Kept, Over
  <2>2. /\ UNCHANGED <<cacheVars, flow, phase, final, then, receiver, starter, dropped>>
        /\ chrome' = chrome \ {t}
        /\ flowLock' = IF flowLock = t THEN Nobody ELSE flowLock
    BY <1>11 DEF Fails, Ends, flowVars, receiverVars
  <2>3. CacheTypeOK' /\ OnlyMoves(t) /\ store'[t].at = "no"
    BY <2>1, <2>2, AwayFromStore
  <2>4. PICK place \in {"none", "failed"} : Goes(t, place)
    BY <1>11 DEF Fails, Ends, Outcome
  <2>5. ThreadMoves(t, place)
    BY <1>0, <2>1, <2>2, <2>3, <2>4, PlacesListed DEF ThreadMoves, flowVars, SignInTypeOK
  <2> QED  BY <2>5
<1>12. CASE DriverFails(t)
  <2>1. at[t] \in {"vault_driver", "flow_lock"} /\ at[t] \notin Names /\ at[t] \notin Over
    BY <1>12 DEF DriverFails, Names, Kept, Over
  <2>2. /\ UNCHANGED <<cacheVars, flow, phase, final, then, flowLock, receiver, starter, dropped>>
        /\ chrome' = {}
    BY <1>12 DEF DriverFails, flowVars, receiverVars
  <2>3. CacheTypeOK' /\ OnlyMoves(t) /\ store'[t].at = "no"
    BY <2>1, <2>2, AwayFromStore
  <2>4. PICK place \in {"none", "failed"} : Goes(t, place)
    BY <1>12 DEF DriverFails, Outcome
  <2>5. ThreadMoves(t, place)
    BY <1>0, <2>1, <2>2, <2>3, <2>4, PlacesListed DEF ThreadMoves, flowVars, SignInTypeOK
  <2> QED  BY <2>5
<1>13. CASE StoreLoads(t) \/ StoreOpens(t)
  <2>1. /\ at[t] \in Names
        /\ UNCHANGED <<at, flow, phase, final, then, chrome, flowLock, receiver, starter, dropped>>
    BY <1>0, <1>13 DEF StoreLoads, StoreOpens, Opens, Placed, flowVars, browserVars, receiverVars
  <2>2. t \in Threads /\ (Loads(t, at[t]) \/ Opens(t))
    BY <1>13 DEF StoreLoads, StoreOpens
  <2>3. CacheTypeOK' /\ OnlyMoves(t)
    BY <1>0, <2>2, StoreOperations
  <2>4. at[t] \notin Over /\ at[t] \notin {"account", "vault"}
    BY <2>1 DEF Names, Kept, Over
  <2>5. Goes(t, at[t])
    BY <1>0, <2>1 DEF Goes
  <2>6. ThreadMoves(t, at[t])
    BY <1>0, <2>1, <2>3, <2>4, <2>5 DEF ThreadMoves, flowVars, SignInTypeOK
  <2> QED  BY <2>6
<1>14. CASE StoreRaises(t)
  <2>1. at[t] \in Names /\ store[t].at = "no" /\ Reads(t)
    BY <1>14 DEF StoreRaises
  <2>2. at[t] \notin Over /\ at[t] \notin {"account", "vault"}
    BY <2>1 DEF Names, Kept, Over
  <2>3. CacheTypeOK' /\ OnlyMoves(t) /\ store'[t].at = "no"
    BY <1>0, <2>1, ReadsKeepStore DEF OnlyMoves
  <2>4. UNCHANGED <<flow, phase, final, then, receiver, starter, dropped>>
    BY <1>14 DEF StoreRaises, flowVars, receiverVars
  <2>5. CASE at[t] = "fcm_credentials"
    <3>1. Goes(t, "registering") /\ UNCHANGED <<chrome, flowLock>>
      BY <1>14, <2>5 DEF StoreRaises, browserVars
    <3>2. ThreadMoves(t, "registering")
      BY <1>0, <2>2, <2>3, <2>4, <3>1, PlacesListed DEF ThreadMoves, flowVars, SignInTypeOK
    <3> QED  BY <3>2
  <2>6. CASE at[t] # "fcm_credentials"
    <3>1. /\ Ends(t, "failed") /\ starter # t
      BY <1>0, <1>14, <2>2, <2>6, <2>1 DEF StoreRaises, Names, Kept
    <3>2. PICK place \in {"none", "failed"} : Goes(t, place)
      BY <3>1 DEF Ends, Outcome
    <3>3. ThreadMoves(t, place)
      BY <1>0, <2>2, <2>3, <2>4, <3>1, <3>2, PlacesListed DEF Ends, ThreadMoves, flowVars, SignInTypeOK
    <3> QED  BY <3>3
  <2> QED  BY <2>5, <2>6
<1>15. CASE StoreWrites(t)
  <2>1. at[t] \in Names /\ Writes(t)
    BY <1>0, <1>15 DEF StoreWrites, Writes, HasOpen, Placed
  <2>2. at[t] \notin Over /\ at[t] \notin {"account", "vault", "registering"}
    BY <2>1 DEF Names, Kept, Over
  <2>3. CacheTypeOK' /\ OnlyMoves(t) /\ store'[t].at = "no"
    BY <1>0, <2>1, StoreOperations
  <2>4. UNCHANGED <<flow, phase, final, chrome, flowLock>>
    BY <1>15 DEF StoreWrites, flowVars, browserVars
  <2>5. CASE at[t] = "fcm_credentials"
    <3>1. LeaveReceiver(t)
      BY <1>15, <2>5 DEF StoreWrites
    <3>2. then[t] \in Places \ {"account"}
      BY <1>0, PlacesListed DEF SignInTypeOK
    <3>3. ThreadMoves(t, then[t])
      BY <1>0, <2>2, <2>3, <2>4, <3>1, <3>2 DEF ThreadMoves, flowVars, SignInTypeOK, LeaveReceiver, Proceeds
    <3> QED  BY <3>3
  <2>6. CASE at[t] # "fcm_credentials"
    <3>1. /\ UNCHANGED receiverVars /\ Goes(t, AfterStore(t)) /\ starter # t
          /\ then' = [then EXCEPT ![t] = IF AfterStore(t) = "receiver" THEN "key" ELSE @]
      BY <1>0, <1>15, <2>2, <2>6 DEF StoreWrites
    <3>2. AfterStore(t) \in {"receiver", "owner_key", "returned", "none"}
      BY <2>1, <2>6 DEF AfterStore, Outcome, Names, Kept
    <3>3. then' \in [Threads -> {"token", "flow_lock", "key"}]
      BY <1>0, <3>1 DEF SignInTypeOK
    <3>4. ThreadMoves(t, AfterStore(t))
      BY <1>0, <2>2, <2>3, <2>4, <3>1, <3>2, <3>3, PlacesListed DEF ThreadMoves, flowVars, receiverVars, SignInTypeOK
    <3> QED  BY <3>4
  <2> QED  BY <2>5, <2>6
<1> QED
  BY <1>1, <1>2, <1>3, <1>4, <1>5, <1>6, <1>7, <1>8, <1>9, <1>10, <1>11, <1>12, <1>13, <1>14, <1>15 DEF ThreadStep

-----------------------------------------------------------------------------
(* Steps of the loop.                                                      *)

\* An attempt moves, with a thread that is nowhere or none; nothing else does
\* but for browsers that die.
RunMoves(r) ==
    /\ UNCHANGED <<store, then, flowLock, receiverVars>>
    /\ CacheTypeOK'
    /\ chrome' \subseteq chrome
    /\ acts' \in SUBSET Writers
    /\ phase' \in {"idle"} \union ActivePhases \union Finals
    /\ final' \in [Runs -> Finals]
    /\ \/ at' = at
       \/ at[r] \in Over /\ \E place \in Places \ {"account"} : Goes(r, place)
    /\ \E stage \in {"none", "provisioning", "token", "key", "teardown", "stopped"} :
         /\ flow' = [flow EXCEPT ![r] = stage]
         /\ stage = "provisioning" => at' = at /\ at[r] = "none"
         /\ flow[r] # "none" \/ (stage # "none" /\ ~IsActive)
         /\ stage # "none" => phase' \in ActivePhases

\* That keeps the invariant.
LEMMA RunMovesKeepInv ==
    ASSUME SignInInv, NEW r \in Runs, RunMoves(r)
    PROVE  SignInInv'
<1> USE SignInAssumption
<1>0. SignInTypeOK /\ Placed /\ OneRunAtATime /\ RunsAreActive /\ r \in Threads
  BY DEF SignInInv
<1>1. /\ at' \in [Threads -> Places]
      /\ \A t \in Threads : at'[t] = at[t] \/ (t = r /\ at[r] \in Over /\ at'[r] # "account")
  <2>1. CASE at' = at
    BY <1>0, <2>1 DEF SignInTypeOK
  <2>2. CASE at[r] \in Over /\ \E place \in Places \ {"account"} : Goes(r, place)
    <3>1. PICK place \in Places \ {"account"} : at' = [at EXCEPT ![r] = place]
      BY <2>2 DEF Goes
    <3> QED  BY <1>0, <2>2, <3>1 DEF SignInTypeOK
  <2> QED  BY <2>1, <2>2 DEF RunMoves
<1>2. /\ flow' \in [Runs -> {"none", "provisioning", "token", "key", "teardown", "stopped"}]
      /\ \A s \in Runs \ {r} : flow'[s] = flow[s]
      /\ flow'[r] # "none" => phase' \in ActivePhases
      /\ flow'[r] = "provisioning" => at' = at /\ at[r] = "none"
      /\ flow[r] # "none" \/ ~IsActive
  BY <1>0 DEF RunMoves, SignInTypeOK
<1>3. LocksAreHeldInside'
  BY <1>0, <1>1 DEF RunMoves, receiverVars, SignInTypeOK, LocksAreHeldInside, Over
<1>4. SignInTypeOK'
  BY <1>0, <1>1, <1>2, <1>3 DEF RunMoves, receiverVars, SignInTypeOK
<1>5. Placed'
  <2>1. \A s \in Runs : flow'[s] = "provisioning" => at'[s] = "none"
    BY <1>0, <1>1, <1>2 DEF Placed
  <2>2. \A t \in Threads : store'[t].at # "no" => at'[t] \in Names
    BY <1>0, <1>1 DEF RunMoves, Placed, Over, Names, Kept
  <2>3. \A t \in Threads : at'[t] = "account" => flowLock' = t
    BY <1>0, <1>1 DEF RunMoves, Placed
  <2> QED  BY <2>1, <2>2, <2>3 DEF Placed
<1>6. \A s \in Runs \ {r} : flow'[s] = "none"
  <2> SUFFICES ASSUME NEW s \in Runs \ {r}, flow[s] # "none"
               PROVE  FALSE
    BY <1>2
  <2> QED  BY <1>0, <1>2 DEF OneRunAtATime, RunsAreActive
<1>7. OneRunAtATime'
  BY <1>6 DEF OneRunAtATime
<1>8. RunsAreActive'
  BY <1>2, <1>6 DEF RunsAreActive, IsActive
<1> QED
  BY <1>4, <1>5, <1>7, <1>8 DEF SignInInv

\* Every step of an attempt is such a move.
LEMMA RunStepKeepsInv ==
    ASSUME SignInInv, NEW r \in Runs, RunStep(r), UNCHANGED acts
    PROVE  SignInInv'
<1> SUFFICES RunMoves(r)
  BY RunMovesKeepInv
<1> USE SignInAssumption DEF Finals, ActivePhases
<1>0. SignInTypeOK /\ Placed /\ CacheTypeOK /\ r \in Threads /\ (flow[r] # "none" => phase \in ActivePhases)
  BY DEF SignInInv, SignInTypeOK, RunsAreActive, IsActive
<1>t. ASSUME NEW outcome \in Finals, TearsDown(r, outcome), flow[r] # "none",
             UNCHANGED <<then, browserVars, receiverVars>>, Reads(Loop) \/ UNCHANGED cacheVars
      PROVE  RunMoves(r)
  <2>1. at' = at \/ (at[r] \in Over /\ Goes(r, "none"))
    BY <1>0, <1>t DEF TearsDown, Goes, SignInTypeOK
  <2>2. CacheTypeOK' /\ store' = store
    BY <1>0, <1>t, ReadsKeepStore
  <2>3. flow' = [flow EXCEPT ![r] = "teardown"] /\ phase' = phase /\ final' \in [Runs -> Finals]
    BY <1>0, <1>t DEF TearsDown, Advances, SignInTypeOK
  <2> QED
    BY <1>0, <1>t, <2>1, <2>2, <2>3, PlacesListed DEF RunMoves, browserVars, SignInTypeOK
<1>1. CASE Provisioned(r)
  <2>1. CacheTypeOK' /\ store' = store
    BY <1>0, <1>1, ReadsKeepStore DEF Provisioned
  <2>2. at[r] \in Over /\ Goes(r, "token")
    BY <1>0, <1>1 DEF Provisioned, Placed, Over
  <2> QED
    BY <1>0, <1>1, <2>1, <2>2, PlacesListed DEF Provisioned, Advances, RunMoves, browserVars, SignInTypeOK
<1>2. CASE ProvisionFails(r)
  BY <1>2, <1>t DEF ProvisionFails
<1>3. CASE TokenOver(r)
  <2>1. CASE LoggedIn
    <3>1. CacheTypeOK' /\ store' = store
      BY <1>0, <1>3, ReadsKeepStore DEF TokenOver
    <3>2. at[r] \in Over /\ Goes(r, "key")
      BY <1>3, <2>1 DEF TokenOver, Over
    <3> QED
      BY <1>0, <1>3, <2>1, <3>1, <3>2, PlacesListed DEF TokenOver, Advances, RunMoves, browserVars, SignInTypeOK
  <2>2. CASE ~LoggedIn
    BY <1>3, <1>t, <2>2 DEF TokenOver
  <2> QED  BY <2>1, <2>2
<1>4. CASE KeyOver(r)
  BY <1>4, <1>t DEF KeyOver
<1>5. CASE ThreadRaised(r)
  BY <1>5, <1>t DEF ThreadRaised, Waiting
<1>6. CASE WaitForEnds(r)
  BY <1>6, <1>t DEF WaitForEnds, Waiting
<1>7. CASE StackStops(r)
  <2>1. CacheTypeOK' /\ store' = store
    BY <1>0, <1>7, ReadsKeepStore DEF StackStops
  <2> QED
    BY <1>0, <1>7, <2>1 DEF StackStops, Advances, RunMoves, SignInTypeOK
<1>8. CASE RunEnds(r)
  <2>1. CacheTypeOK' /\ store' = store
    BY <1>0, <1>8, ReadsKeepStore DEF RunEnds
  <2>2. final[r] \in Finals /\ final' \in [Runs -> Finals]
    BY <1>0, <1>8 DEF RunEnds, SignInTypeOK
  <2> QED
    BY <1>0, <1>8, <2>1, <2>2 DEF RunEnds, Advances, RunMoves, browserVars, SignInTypeOK
<1> QED
  BY <1>1, <1>2, <1>3, <1>4, <1>5, <1>6, <1>7, <1>8 DEF RunStep

\* A poll begins: a thread that is nowhere comes into the code.
LEMMA PollKeepsInv ==
    ASSUME SignInInv, NEW p \in Polls, Poll(p), acts' \in SUBSET Writers
    PROVE  SignInInv'
<1> USE SignInAssumption
<1>0. SignInTypeOK /\ Placed /\ OneRunAtATime /\ RunsAreActive /\ CacheTypeOK /\ p \in Threads
  BY DEF SignInInv, SignInTypeOK
<1>1. CacheTypeOK' /\ store' = store
  BY <1>0 DEF Poll, CacheTypeOK, Others
<1>2. /\ at[p] = "none" /\ at' = [at EXCEPT ![p] = "receiver"]
      /\ UNCHANGED <<phase, flow, final, chrome, flowLock, receiver, starter, dropped>>
      /\ then' \in [Threads -> {"token", "flow_lock", "key"}]
  BY <1>0 DEF Poll, Goes, flowVars, browserVars, receiverVars, SignInTypeOK
<1>3. at' \in [Threads -> Places] /\ \A t \in Threads \ {p} : at'[t] = at[t]
  BY <1>0, <1>2, PlacesListed DEF SignInTypeOK
<1>4. LocksAreHeldInside'
  BY <1>0, <1>2, <1>3 DEF SignInTypeOK, LocksAreHeldInside
<1>5. SignInTypeOK'
  BY <1>0, <1>1, <1>2, <1>3, <1>4 DEF SignInTypeOK
<1>6. Placed'
  BY <1>0, <1>1, <1>2, <1>3 DEF Placed, SignInTypeOK, Names, Kept
<1>7. OneRunAtATime' /\ RunsAreActive'
  BY <1>0, <1>2 DEF OneRunAtATime, RunsAreActive, IsActive
<1> QED
  BY <1>5, <1>6, <1>7 DEF SignInInv

\* The two steps of a clear: the file is wiped, the receiver dropped.
LEMMA ClearKeepsInv ==
    ASSUME SignInInv, Clear \/ Cleared, acts' \in SUBSET Writers
    PROVE  SignInInv'
<1> USE SignInAssumption, TokenCacheAssumption
<1>0. SignInTypeOK /\ Placed /\ OneRunAtATime /\ RunsAreActive /\ CacheTypeOK /\ Loop \in Writers
  BY DEF SignInInv, SignInTypeOK, Writers
<1>1. UNCHANGED <<phase, flow, final, at, then, chrome, flowLock>>
  BY DEF Clear, Cleared, flowVars, browserVars
<1>2. CacheTypeOK' /\ OnlyMoves(Loop)
  BY <1>0, StoreOperations DEF Clear, Cleared, Wipes
<1>3. /\ receiver' \in {"none", "bare", "ready"} /\ starter' \in {starter, Nobody}
      /\ dropped' \in SUBSET Threads
  BY <1>0 DEF Clear, Cleared, DropReceiver, receiverVars, SignInTypeOK
<1>4. LocksAreHeldInside'
  BY <1>0, <1>1, <1>3 DEF SignInTypeOK, LocksAreHeldInside
<1>5. SignInTypeOK'
  BY <1>0, <1>1, <1>2, <1>3, <1>4 DEF SignInTypeOK
<1>6. Placed'
  BY <1>0, <1>1, <1>2 DEF Placed, OnlyMoves, Writers
<1>7. OneRunAtATime' /\ RunsAreActive'
  BY <1>0, <1>1 DEF OneRunAtATime, RunsAreActive, IsActive
<1> QED
  BY <1>5, <1>6, <1>7 DEF SignInInv

\* An attempt starts: none is there, for each would make the phase active.
LEMMA StartKeepsInv ==
    ASSUME SignInInv, NEW r \in Runs, Start(r), acts' \in SUBSET Writers
    PROVE  SignInInv'
<1> USE SignInAssumption
<1>0. SignInTypeOK /\ CacheTypeOK
  BY DEF SignInInv, SignInTypeOK
<1>1. CacheTypeOK' /\ store' = store
  BY <1>0, ReadsKeepStore DEF Start
<1>2. RunMoves(r)
  BY <1>0, <1>1 DEF Start, Advances, RunMoves, browserVars, SignInTypeOK, ActivePhases
<1> QED
  BY <1>2, RunMovesKeepInv

-----------------------------------------------------------------------------
(* The theorems.                                                           *)

LEMMA NextKeepsInv ==
    ASSUME SignInInv, [Next]_vars
    PROVE  SignInInv'
<1> USE SignInAssumption
<1>0. acts \in SUBSET Writers
  BY DEF SignInInv, SignInTypeOK
<1>1. ASSUME NEW w \in Writers, Once(w)
      PROVE  acts' \in SUBSET Writers
  BY <1>0, <1>1 DEF Once
<1>2. ASSUME NEW r \in Runs, Start(r), Once(r)
      PROVE  SignInInv'
  BY <1>1, <1>2, StartKeepsInv DEF Writers
<1>3. ASSUME NEW p \in Polls, Poll(p), Once(p)
      PROVE  SignInInv'
  BY <1>1, <1>3, PollKeepsInv DEF Writers
<1>4. ASSUME Clear, Once(Loop)
      PROVE  SignInInv'
  BY <1>1, <1>4, ClearKeepsInv DEF Writers
<1>5. ASSUME Cleared, UNCHANGED acts
      PROVE  SignInInv'
  BY <1>0, <1>5, ClearKeepsInv
<1>6. ASSUME NEW r \in Runs, RunStep(r), UNCHANGED acts
      PROVE  SignInInv'
  BY <1>6, RunStepKeepsInv
<1>7. ASSUME NEW t \in Threads, ThreadStep(t), UNCHANGED acts
      PROVE  SignInInv'
  BY <1>7, ThreadStepKeepsInv
<1>8. ASSUME UNCHANGED vars
      PROVE  SignInInv'
  BY <1>8 DEF vars, cacheVars, flowVars, browserVars, receiverVars, SignInInv, SignInTypeOK,
     LocksAreHeldInside, CacheTypeOK, Placed, OneRunAtATime, RunsAreActive, IsActive
<1> QED
  BY <1>2, <1>3, <1>4, <1>5, <1>6, <1>7, <1>8 DEF Next, Act

LEMMA SignInInvHolds == Spec => []SignInInv
<1>1. ASSUME Init
      PROVE  SignInInv
  <2> USE <1>1, SignInAssumption
  <2>1. CacheTypeOK
    BY DEF Init, CacheInit, CacheTypeOK, NoStore
  <2>2. LocksAreHeldInside
    BY DEF Init, LocksAreHeldInside
  <2>3. /\ phase \in {"idle"} \union ActivePhases \union Finals /\ final \in [Runs -> Finals]
        /\ at \in [Threads -> Places]
    BY PlacesListed DEF Init, ActivePhases, Finals
  <2>4. SignInTypeOK
    BY <2>1, <2>2, <2>3 DEF Init, SignInTypeOK
  <2>5. Placed
    BY DEF Init, CacheInit, Placed, NoStore, Writers
  <2>6. OneRunAtATime /\ RunsAreActive
    BY DEF Init, OneRunAtATime, RunsAreActive
  <2> QED
    BY <2>4, <2>5, <2>6 DEF SignInInv
<1>2. SignInInv /\ [Next]_vars => SignInInv'
  BY NextKeepsInv
<1> QED
  BY <1>1, <1>2, PTL DEF Spec

\* Type correctness, with every lock and every browser held by a thread that is
\* inside the code that frees it, whatever fails, is killed or given up.
THEOREM SignInTypesHold == Spec => []SignInTypeOK
<1>1. SignInInv => SignInTypeOK
  BY DEF SignInInv
<1> QED
  BY <1>1, SignInInvHolds, PTL

\* One attempt at a time to the end of its teardown, for any number of attempts,
\* though the phase that start() looks at is one variable written by all of them.
THEOREM OneRunAtATimeHolds == Spec => []OneRunAtATime
<1>1. SignInInv => OneRunAtATime
  BY DEF SignInInv
<1> QED
  BY <1>1, SignInInvHolds, PTL

\* _flow_lock keeps every thread out of the browser of another that signs in to
\* the account, those included that an attempt has given up.
THEOREM AccountBrowsersAreAlone == Spec => AccountBrowsersAlone
<1>1. SignInInv /\ [Next]_vars =>
        [\A t, u \in Threads : t # u /\ OpensAccount(t) => ~(at[u] = "account" /\ u \in chrome)]_vars
  BY SignInAssumption DEF SignInInv, Placed, OpensAccount, FlowLockIsFree
<1> QED
  BY <1>1, SignInInvHolds, PTL DEF Spec, AccountBrowsersAlone

-----------------------------------------------------------------------------
(* What is in the file.                                                    *)

InReceiver == {"start_lock", "registering", "fcm_credentials"}

\* As long as no two threads were in the store at once, none are.
Alone == ~tangled => \A t, u \in Threads : store[t].at # "no" /\ store[u].at # "no" => t = u

\* A clear is over before an attempt starts.
ClearsAreAlone == ~LoopIsFree => ~IsActive

\* Who is inside the receiver is inside the one that there is, or one that was dropped.
ReceiverIsThere ==
    \A t \in Threads :
        /\ t \in dropped => at[t] \in InReceiver
        /\ at[t] \in InReceiver /\ t \notin dropped => receiver # "none"

\* What a thread stores is in what it writes.
StoresItsValue == \A t \in Threads : store[t].at # "no" /\ at[t] \in Kept => at[t] \in store[t].data

\* The names are on file, and no store that is under way takes them off it.
Carries(names) ==
    /\ (\A t \in Threads : ~HasOpen(t)) => names \subseteq file
    /\ \A t \in Threads : store[t].at # "no" => names \subseteq store[t].data

\* No store and no clear mixes with another.
Orderly == ~tangled /\ LoopIsFree

\* A store that a clear has overtaken is over before there is a receiver again.
TornIsQuiet ==
    Orderly /\ receiver # "none" /\ torn => \A t \in Threads : store[t].at = "no"

\* A receiver with credentials has them on file, or a thread that is to put them there.
ReadyCarries ==
    Orderly /\ receiver = "ready" /\ ~torn =>
        (\E t \in Threads : at[t] = "fcm_credentials") \/ Carries({"fcm_credentials"})

\* An attempt that has been through the receiver has left it ready.
BeyondReceiver == {"fcm_credentials", "flow_lock", "account", "aas_token"}

TokenHasReceiver ==
    \A r \in Runs : flow[r] = "token" =>
        r \notin dropped /\ (at[r] \in BeyondReceiver => receiver = "ready")

\* What an attempt has found on file stays there to its end.
KeyCarries ==
    \A r \in Runs : flow[r] = "key" /\ ~tangled => Carries({"aas_token", "fcm_credentials"})

DoneCarries ==
    \A r \in Runs : final[r] = "done" =>
        flow[r] \in {"teardown", "stopped"} /\ (~tangled => Carries(Kept))

FileInv ==
    /\ Alone /\ ClearsAreAlone /\ ReceiverIsThere /\ StoresItsValue
    /\ TornIsQuiet /\ ReadyCarries /\ TokenHasReceiver
    /\ KeyCarries /\ DoneCarries

\* A step of thread t in the store.
Stores(t) == (at[t] \in Names /\ Loads(t, at[t])) \/ Opens(t) \/ Writes(t)

\* What was mixed stays so.
LEMMA LooksMixNothing ==
    ASSUME NEW w, Reads(w) \/ UNCHANGED cacheVars, tangled
    PROVE  tangled'
<1>1. CASE Reads(w)
  BY <1>1, Zenon DEF Reads, Notes
<1>2. CASE UNCHANGED cacheVars
  BY <1>2 DEF cacheVars
<1> QED
  BY <1>1, <1>2

\* What a step of the store leaves of the others, and of what is carried.
LEMMA StoreStep ==
    ASSUME CacheTypeOK, NEW w \in Writers,
           (w \in Threads /\ Loads(w, at[w])) \/ Opens(w) \/ Writes(w) \/ Truncates(w, {})
    PROVE  /\ \A v \in Writers \ {w} :
                 /\ store'[v].at = "no" <=> store[v].at = "no"
                 /\ HasOpen(v)' <=> HasOpen(v)
                 /\ store'[v].data = store[v].data
           /\ tangled => tangled'
<1>1. CASE w \in Threads /\ Loads(w, at[w])
  BY <1>1 DEF Loads, Notes, CacheTypeOK, HasOpen
<1>2. ASSUME NEW data, Truncates(w, data)
      PROVE  /\ \A v \in Writers \ {w} :
                 /\ store'[v].at = "no" <=> store[v].at = "no"
                 /\ HasOpen(v)' <=> HasOpen(v)
                 /\ store'[v].data = store[v].data
             /\ tangled => tangled'
  BY <1>2 DEF Truncates, CacheTypeOK, HasOpen
<1>3. CASE Writes(w)
  BY <1>3 DEF Writes, CacheTypeOK, HasOpen
<1> QED
  BY <1>1, <1>2, <1>3 DEF Opens

LEMMA CarriesIsKept ==
    ASSUME CacheTypeOK, Alone, NEW names, names \subseteq Kept, Carries(names), ~tangled',
           NEW t \in Threads, Stores(t)
    PROVE  Carries(names)'
<1>0. t \in Writers /\ Threads \subseteq Writers
  BY DEF Writers
<1>1. /\ \A v \in Threads \ {t} :
           /\ store'[v].at = "no" <=> store[v].at = "no"
           /\ HasOpen(v)' <=> HasOpen(v)
           /\ store'[v].data = store[v].data
      /\ ~tangled
  BY <1>0, StoreStep DEF Stores, Writers
<1>2. \A v \in Threads : store[v].at = "no" => ~HasOpen(v)
  BY DEF HasOpen
<1>3. CASE Loads(t, at[t])
  <2>1. store'[t].at = "loaded" /\ file \subseteq store'[t].data /\ file' = file
    BY <1>0, <1>3 DEF Loads, CacheTypeOK
  <2>2. \A u \in Threads : store[u].at = "no"
    BY <1>1, <1>3 DEF Loads, Notes, Others
  <2>3. names \subseteq file
    BY <1>2, <2>2 DEF Carries
  <2> QED
    BY <1>1, <2>1, <2>2, <2>3 DEF Carries
<1>4. CASE Opens(t)
  <2>1. store'[t].at = "open" /\ store'[t].data = store[t].data /\ store[t].at # "no"
    BY <1>0, <1>4 DEF Opens, Truncates, CacheTypeOK
  <2>2. HasOpen(t)'
    BY <2>1 DEF HasOpen
  <2> QED
    BY <1>1, <2>1, <2>2 DEF Carries
<1>5. CASE Writes(t)
  <2>1. store'[t].at = "no" /\ file' = store[t].data /\ store[t].at # "no"
    BY <1>0, <1>5 DEF Writes, HasOpen, CacheTypeOK, NoStore
  <2>2. \A u \in Threads \ {t} : store[u].at = "no"
    BY <1>1, <2>1 DEF Alone
  <2> QED
    BY <1>1, <2>1, <2>2 DEF Carries
<1> QED
  BY <1>3, <1>4, <1>5 DEF Stores

\* What a thread does to what FileInv speaks of.
ThreadEffects(t) ==
    /\ UNCHANGED <<phase, flow, final>>
    /\ \A u \in Threads \ {t} : at'[u] = at[u]
    /\ UNCHANGED cacheVars \/ Reads(t) \/ Stores(t)
    /\ store'[t].at # "no" => at'[t] = at[t]
    /\ \/ receiver' = receiver
       \/ /\ at[t] = "receiver" /\ receiver = "none" /\ receiver' # "none" /\ Reads(t)
          /\ receiver' = "ready" => "fcm_credentials" \in Readable
       \/ at[t] = "registering" /\ t \notin dropped /\ receiver' = "ready" /\ at'[t] = "fcm_credentials"
    /\ dropped' \in {dropped, dropped \ {t}}
    /\ t \in dropped' => at'[t] \in InReceiver
    /\ at'[t] \in InReceiver => dropped' = dropped /\ (at[t] \in InReceiver \/ receiver' # "none")
    /\ at[t] = "fcm_credentials" /\ at'[t] # "fcm_credentials" => (torn /\ Reads(t)) \/ Writes(t)
    /\ at'[t] \in BeyondReceiver /\ t \notin dropped => at[t] \in BeyondReceiver \/ receiver' = "ready"

LEMMA ThreadStepHasEffects ==
    ASSUME SignInInv, FileInv, NEW t \in Threads, ThreadStep(t)
    PROVE  ThreadEffects(t)
<1> USE SignInAssumption
<1>0. /\ SignInTypeOK /\ CacheTypeOK /\ Placed /\ at \in [Threads -> Places]
      /\ then[t] \in {"token", "flow_lock", "key"}
      /\ t \in dropped => at[t] \in InReceiver
      /\ at[t] \notin Names => store[t].at = "no"
  BY DEF SignInInv, SignInTypeOK, FileInv, ReceiverIsThere, Placed
<1>1. ASSUME NEW place, Goes(t, place)
      PROVE  at'[t] = place /\ \A u \in Threads \ {t} : at'[u] = at[u]
  BY <1>0, <1>1 DEF Goes
<1>2. Reads(t) \/ UNCHANGED cacheVars => store' = store
  BY DEF Reads, cacheVars
<1>3. Outcome(t, "returned") \in Over /\ Outcome(t, "failed") \in Over
  BY DEF Outcome, Over
<1>4. ASSUME LeaveReceiver(t)
      PROVE  /\ at'[t] = then[t] /\ (\A u \in Threads \ {t} : at'[u] = at[u])
             /\ dropped' = dropped \ {t} /\ receiver' = receiver
             /\ at'[t] \notin InReceiver /\ at'[t] \notin Names
             /\ at'[t] \in BeyondReceiver => at'[t] = "flow_lock"
  BY <1>0, <1>1, <1>4 DEF LeaveReceiver, Proceeds, InReceiver, BeyondReceiver, Names, Kept
<1>5. CASE CallReceiver(t)
  <2>1. at[t] = "receiver" /\ store'[t].at = "no"
    BY <1>0, <1>2, <1>5 DEF CallReceiver, Names, Kept
  <2>2. /\ UNCHANGED <<phase, flow, final, dropped>>
        /\ Reads(t) \/ UNCHANGED cacheVars
        /\ \/ receiver' = receiver /\ receiver' # "none"
           \/ /\ receiver = "none" /\ receiver' # "none" /\ Reads(t)
              /\ receiver' = "ready" => "fcm_credentials" \in Readable
    BY <1>5 DEF CallReceiver, flowVars
  <2>3. /\ \A u \in Threads \ {t} : at'[u] = at[u]
        /\ (at'[t] = then[t] /\ receiver' = "ready") \/ at'[t] = "start_lock"
    BY <1>1, <1>5 DEF CallReceiver, Proceeds
  <2> QED
    BY <1>0, <2>1, <2>2, <2>3 DEF ThreadEffects, InReceiver, BeyondReceiver
<1>6. CASE EnterStart(t) \/ ChecksIn(t)
  <2>1. /\ at[t] \in {"start_lock", "registering"} /\ UNCHANGED <<cacheVars, phase, flow, final>>
        /\ \/ Goes(t, "registering") /\ UNCHANGED <<receiver, dropped>>
           \/ LeaveReceiver(t) /\ (receiver = "ready" \/ t \in dropped)
    BY <1>6 DEF EnterStart, ChecksIn, flowVars
  <2>2. store'[t].at = "no"
    BY <1>0, <1>2, <2>1 DEF Names, Kept
  <2>3. CASE Goes(t, "registering") /\ UNCHANGED <<receiver, dropped>>
    BY <1>0, <1>1, <2>1, <2>2, <2>3 DEF ThreadEffects, InReceiver, BeyondReceiver
  <2>4. CASE LeaveReceiver(t) /\ (receiver = "ready" \/ t \in dropped)
    BY <1>0, <1>4, <2>1, <2>2, <2>4 DEF ThreadEffects
  <2> QED
    BY <2>1, <2>3, <2>4
<1>7. CASE Registers(t)
  <2>1. /\ at[t] = "registering" /\ UNCHANGED <<cacheVars, phase, flow, final, dropped>>
        /\ receiver' = IF t \in dropped THEN receiver ELSE "ready"
        /\ Goes(t, "fcm_credentials")
    BY <1>7 DEF Registers, flowVars
  <2>2. store'[t].at = "no"
    BY <1>0, <1>2, <2>1 DEF Names, Kept
  <2> QED
    BY <1>0, <1>1, <2>1, <2>2 DEF ThreadEffects, InReceiver, BeyondReceiver
<1>8. ASSUME NEW place \in Places \ (InReceiver \union BeyondReceiver), Goes(t, place),
             at[t] \in {"token", "key", "vault_driver", "flow_lock", "account", "vault"},
             Reads(t) \/ UNCHANGED cacheVars,
             UNCHANGED <<phase, flow, final, receiver, dropped>>
      PROVE  ThreadEffects(t)
  <2>1. store'[t].at = "no" /\ at[t] \notin InReceiver /\ t \notin dropped
    BY <1>0, <1>2, <1>8 DEF Names, Kept, InReceiver
  <2> QED
    BY <1>0, <1>1, <1>8, <2>1 DEF ThreadEffects, InReceiver
<1>9. ASSUME NEW place \in {"account", "aas_token"}, Goes(t, place), UNCHANGED cacheVars,
             at[t] \in {"flow_lock", "account"},
             UNCHANGED <<phase, flow, final, receiver, dropped>>
      PROVE  ThreadEffects(t)
  <2>1. store'[t].at = "no" /\ at[t] \notin InReceiver /\ t \notin dropped
    BY <1>0, <1>2, <1>9 DEF Names, Kept, InReceiver
  <2> QED
    BY <1>0, <1>1, <1>9, <2>1 DEF ThreadEffects, InReceiver, BeyondReceiver
<1>10. \A place \in Over \union {"receiver", "vault_driver", "vault", "owner_key", "shared_key"} :
         place \in Places \ (InReceiver \union BeyondReceiver)
  BY PlacesListed DEF Over, InReceiver, BeyondReceiver
<1>11. CASE Token(t)
  <2>1. PICK place \in Over \union {"receiver"} : Goes(t, place)
    BY <1>3, <1>11 DEF Token
  <2>2. /\ at[t] = "token" /\ Reads(t) /\ UNCHANGED <<phase, flow, final, receiver, dropped>>
    BY <1>11 DEF Token, flowVars, receiverVars
  <2> QED
    BY <1>8, <1>10, <2>1, <2>2
<1>12. CASE OpensAccount(t) \/ SignsIn(t)
  BY <1>9, <1>12 DEF OpensAccount, SignsIn, flowVars, receiverVars
<1>13. CASE Key(t)
  <2>1. PICK place \in Over \union {"vault_driver", "owner_key"} : Goes(t, place)
    BY <1>3, <1>13 DEF Key, Over
  <2>2. /\ at[t] = "key" /\ Reads(t) /\ UNCHANGED <<phase, flow, final, receiver, dropped>>
    BY <1>13 DEF Key, flowVars, receiverVars
  <2> QED
    BY <1>8, <1>10, <2>1, <2>2
<1>14. CASE OpensVault(t) \/ Confirms(t)
  <2>1. PICK place \in {"vault", "shared_key"} : Goes(t, place)
    BY <1>14 DEF OpensVault, Confirms
  <2>2. /\ at[t] \in {"vault_driver", "vault"} /\ UNCHANGED cacheVars
        /\ UNCHANGED <<phase, flow, final, receiver, dropped>>
    BY <1>14 DEF OpensVault, Confirms, flowVars, receiverVars
  <2> QED
    BY <1>8, <1>10, <2>1, <2>2
<1>15. CASE Fails(t) \/ DriverFails(t)
  <2>1. PICK place \in Over : Goes(t, place)
    BY <1>3, <1>15 DEF Fails, Ends, DriverFails
  <2>2. /\ at[t] \in {"token", "key", "vault_driver", "flow_lock", "account", "vault"}
        /\ UNCHANGED cacheVars
        /\ UNCHANGED <<phase, flow, final, receiver, dropped>>
    BY <1>15 DEF Fails, DriverFails, flowVars, receiverVars
  <2> QED
    BY <1>8, <1>10, <2>1, <2>2
<1>16. CASE StoreLoads(t) \/ StoreOpens(t)
  <2>1. /\ UNCHANGED <<phase, flow, final, at, receiver, dropped>>
        /\ Stores(t)
    BY <1>16 DEF StoreLoads, StoreOpens, Stores, flowVars, receiverVars
  <2> QED
    BY <1>0, <2>1 DEF ThreadEffects, FileInv, ReceiverIsThere
<1>17. CASE StoreRaises(t)
  <2>1. /\ at[t] \in Names /\ store[t].at = "no" /\ torn /\ Reads(t)
        /\ UNCHANGED <<phase, flow, final, receiver, dropped>>
    BY <1>17 DEF StoreRaises, flowVars, receiverVars
  <2>2. store'[t].at = "no"
    BY <1>2, <2>1
  <2>3. CASE at[t] = "fcm_credentials"
    <3>1. Goes(t, "registering")
      BY <1>17, <2>3 DEF StoreRaises
    <3> QED
      BY <1>0, <1>1, <2>1, <2>2, <2>3, <3>1 DEF ThreadEffects, InReceiver, BeyondReceiver
  <2>4. CASE at[t] # "fcm_credentials"
    <3>1. PICK place \in Over : Goes(t, place)
      BY <1>3, <1>17, <2>4 DEF StoreRaises, Ends
    <3>2. place \notin InReceiver \union BeyondReceiver /\ t \notin dropped
      BY <1>0, <1>10, <2>1, <2>4 DEF InReceiver, Names, Kept
    <3> QED
      BY <1>0, <1>1, <2>1, <2>2, <2>4, <3>1, <3>2 DEF ThreadEffects
  <2> QED
    BY <2>3, <2>4
<1>18. CASE StoreWrites(t)
  <2>1. /\ Writes(t) /\ UNCHANGED <<phase, flow, final>> /\ Stores(t)
    BY <1>18 DEF StoreWrites, Stores, flowVars
  <2>2. store'[t].at = "no" /\ at[t] \in Names
    BY <1>0, <2>1 DEF Writes, HasOpen, NoStore, CacheTypeOK, Writers
  <2>3. CASE at[t] = "fcm_credentials"
    <3>1. LeaveReceiver(t)
      BY <1>18, <2>3 DEF StoreWrites
    <3> QED
      BY <1>0, <1>4, <2>1, <2>2, <2>3, <3>1 DEF ThreadEffects, BeyondReceiver
  <2>4. CASE at[t] # "fcm_credentials"
    <3>1. /\ Goes(t, AfterStore(t)) /\ UNCHANGED <<receiver, dropped>>
      BY <1>18, <2>4 DEF StoreWrites, receiverVars
    <3>2. AfterStore(t) \in Over \union {"receiver", "owner_key"}
      BY <1>3, <2>2, <2>4 DEF AfterStore, Names, Kept, Over
    <3>3. AfterStore(t) \notin InReceiver \union BeyondReceiver /\ t \notin dropped
      BY <1>0, <1>10, <2>2, <2>4, <3>2 DEF InReceiver, Names, Kept
    <3> QED
      BY <1>0, <1>1, <2>1, <2>2, <2>4, <3>1, <3>3 DEF ThreadEffects
  <2> QED
    BY <2>3, <2>4
<1> QED
  BY <1>5, <1>6, <1>7, <1>11, <1>12, <1>13, <1>14, <1>15, <1>16, <1>17, <1>18 DEF ThreadStep

LEMMA ThreadEffectsKeepFile ==
    ASSUME SignInInv, FileInv, NEW t \in Threads, ThreadEffects(t)
    PROVE  FileInv'
<1> USE SignInAssumption, TokenCacheAssumption
<1>0. /\ CacheTypeOK /\ Placed /\ t \in Writers /\ Loop \in Writers \ {t} /\ Threads \subseteq Writers
  BY DEF SignInInv, SignInTypeOK, Writers
<1>1. \/ (Reads(t) \/ UNCHANGED cacheVars) /\ store' = store /\ file' = file /\ torn' = torn
      \/ Stores(t)
  BY DEF ThreadEffects, Reads, cacheVars
<1>2. /\ \A v \in Writers \ {t} :
           /\ store'[v].at = "no" <=> store[v].at = "no"
           /\ HasOpen(v)' <=> HasOpen(v)
           /\ store'[v].data = store[v].data
      /\ tangled => tangled'
  <2>1. CASE Reads(t) \/ UNCHANGED cacheVars
    <3>1. store' = store
      BY <2>1 DEF Reads, cacheVars
    <3>2. tangled => tangled'
      BY <2>1, LooksMixNothing
    <3> QED
      BY <3>1, <3>2 DEF HasOpen
  <2>2. CASE Stores(t)
    BY <1>0, <2>2, StoreStep DEF Stores
  <2> QED
    BY <2>1, <2>2 DEF ThreadEffects
<1>3. LoopIsFree' <=> LoopIsFree
  BY <1>0, <1>2 DEF LoopIsFree
<1>4. store[t].at # "no" => at[t] \in Names
  BY <1>0 DEF Placed
<1>5. \A names : names \subseteq Kept /\ Carries(names) /\ ~tangled' => Carries(names)'
  <2> SUFFICES ASSUME NEW names, names \subseteq Kept, Carries(names), ~tangled'
               PROVE  Carries(names)'
    OBVIOUS
  <2>1. CASE store' = store /\ file' = file
    BY <2>1 DEF Carries, HasOpen
  <2>2. CASE Stores(t)
    BY <1>0, <2>2, CarriesIsKept DEF FileInv
  <2> QED
    BY <1>1, <2>1, <2>2
<1>6. Alone'
  <2> SUFFICES ASSUME ~tangled', NEW u \in Threads, NEW v \in Threads,
                      store'[u].at # "no", store'[v].at # "no", u # v
               PROVE  FALSE
    BY DEF Alone
  <2>1. ~tangled
    BY <1>2
  <2>2. CASE Loads(t, at[t])
    BY <1>0, <1>2, <2>2 DEF Loads, Notes, Others
  <2>3. CASE Opens(t) \/ Writes(t)
    BY <1>0, <1>2, <2>1, <2>3 DEF Alone, FileInv, Opens, Writes, HasOpen
  <2>4. CASE store' = store
    BY <2>1, <2>4 DEF Alone, FileInv
  <2> QED
    BY <1>1, <2>2, <2>3, <2>4 DEF Stores
<1>7. ClearsAreAlone'
  BY <1>3 DEF FileInv, ClearsAreAlone, ThreadEffects, IsActive
<1>8. receiver # "none" => receiver' # "none" /\ (receiver = "ready" => receiver' = "ready")
  BY DEF ThreadEffects
<1>9. ReceiverIsThere'
  <2> SUFFICES ASSUME NEW u \in Threads
               PROVE  /\ u \in dropped' => at'[u] \in InReceiver
                      /\ at'[u] \in InReceiver /\ u \notin dropped' => receiver' # "none"
    BY DEF ReceiverIsThere
  <2>1. CASE u = t
    BY <1>8, <2>1 DEF FileInv, ReceiverIsThere, ThreadEffects
  <2>2. CASE u # t
    <3>1. at'[u] = at[u] /\ (u \in dropped' <=> u \in dropped)
      BY <2>2 DEF ThreadEffects
    <3> QED
      BY <1>8, <3>1 DEF FileInv, ReceiverIsThere
  <2> QED
    BY <2>1, <2>2
<1>10. StoresItsValue'
  <2> SUFFICES ASSUME NEW u \in Threads, store'[u].at # "no", at'[u] \in Kept
               PROVE  at'[u] \in store'[u].data
    BY DEF StoresItsValue
  <2>1. CASE u # t
    BY <1>0, <1>2, <2>1 DEF FileInv, StoresItsValue, ThreadEffects
  <2>2. CASE u = t /\ store' = store
    BY <2>2 DEF FileInv, StoresItsValue, ThreadEffects
  <2>3. CASE u = t /\ Loads(t, at[t])
    BY <1>0, <2>3 DEF ThreadEffects, Loads, CacheTypeOK
  <2>4. CASE u = t /\ Opens(t)
    <3>1. store'[t].data = store[t].data /\ store[t].at # "no"
      BY <1>0, <2>4 DEF Opens, Truncates, CacheTypeOK
    <3> QED
      BY <2>4, <3>1 DEF FileInv, StoresItsValue, ThreadEffects
  <2>5. CASE u = t /\ Writes(t)
    BY <1>0, <2>5 DEF Writes, CacheTypeOK, NoStore
  <2> QED
    BY <1>1, <2>1, <2>2, <2>3, <2>4, <2>5 DEF Stores
\* A thread that makes a receiver found nobody in the store.
<1>11. ASSUME ~tangled', receiver = "none", receiver' # "none"
       PROVE  /\ \A u \in Threads : store[u].at = "no"
              /\ store' = store /\ file' = file
              /\ receiver' = "ready" => "fcm_credentials" \in Readable
  <2>1. /\ at[t] = "receiver" /\ Reads(t)
        /\ receiver' = "ready" => "fcm_credentials" \in Readable
    BY <1>11 DEF ThreadEffects, FileInv, ReceiverIsThere, InReceiver
  <2>2. store[t].at = "no"
    BY <1>4, <2>1 DEF Names, Kept
  <2>3. \A u \in Threads \ {t} : store[u].at = "no"
    BY <1>11, <2>1 DEF Reads, Notes, Others
  <2> QED
    BY <2>1, <2>2, <2>3 DEF Reads
<1>12. TornIsQuiet'
  <2> SUFFICES ASSUME ~tangled', LoopIsFree', receiver' # "none", torn', NEW u \in Threads
               PROVE  store'[u].at = "no"
    BY DEF TornIsQuiet, Orderly
  <2>1. CASE receiver = "none"
    BY <1>11, <2>1
  <2>2. CASE receiver # "none" /\ store' = store /\ torn' = torn
    BY <1>2, <1>3, <2>2 DEF FileInv, TornIsQuiet, Orderly
  <2>3. CASE Loads(t, at[t])
    <3>1. ~torn /\ torn' = torn
      BY <2>3 DEF Loads
    <3> QED
      BY <3>1
  <2>4. CASE Opens(t)
    BY <2>4 DEF Opens, Truncates
  <2>5. CASE Writes(t)
    <3>1. store'[t].at = "no" /\ store[t].at # "no"
      BY <1>0, <2>5 DEF Writes, HasOpen, NoStore, CacheTypeOK
    <3> QED
      BY <1>0, <1>2, <3>1 DEF FileInv, Alone
  <2> QED
    BY <1>1, <2>1, <2>2, <2>3, <2>4, <2>5 DEF Stores
<1>13. ReadyCarries'
  <2> SUFFICES ASSUME ~tangled', LoopIsFree', receiver' = "ready", ~torn',
                      \A u \in Threads : at'[u] # "fcm_credentials"
               PROVE  Carries({"fcm_credentials"})'
    BY DEF ReadyCarries, Orderly
  <2>0. {"fcm_credentials"} \subseteq Kept
    BY DEF Kept
  <2>1. CASE receiver = "none"
    BY <1>11, <2>1 DEF Carries, Readable
  <2>2. CASE receiver # "none"
    <3>1. receiver = "ready" /\ ~tangled /\ LoopIsFree
      BY <1>2, <1>3, <2>2 DEF ThreadEffects
    <3>2. CASE Writes(t) /\ at[t] = "fcm_credentials"
      <4>1. file' = store[t].data /\ store[t].at # "no" /\ store'[t].at = "no"
        BY <1>0, <3>2 DEF Writes, HasOpen, NoStore, CacheTypeOK
      <4>2. "fcm_credentials" \in store[t].data
        BY <3>2, <4>1 DEF FileInv, StoresItsValue, Kept
      <4>3. \A u \in Threads : store'[u].at = "no"
        BY <1>0, <1>2, <3>1, <4>1 DEF FileInv, Alone
      <4> QED
        BY <4>1, <4>2, <4>3 DEF Carries
    <3>3. CASE ~(Writes(t) /\ at[t] = "fcm_credentials")
      <4>1. ~torn
        <5>1. CASE torn' = torn
          BY <5>1
        <5>2. CASE Stores(t) /\ torn
          <6>1. store[t].at # "no"
            BY <5>2 DEF Stores, Loads, Opens, Writes, HasOpen
          <6> QED
            BY <3>1, <5>2, <6>1 DEF FileInv, TornIsQuiet, Orderly
        <5> QED
          BY <1>1, <5>1, <5>2
      <4>2. at[t] # "fcm_credentials"
        BY <3>3, <4>1 DEF ThreadEffects
      <4>3. \A u \in Threads : at[u] # "fcm_credentials"
        BY <4>2 DEF ThreadEffects
      <4>4. Carries({"fcm_credentials"})
        BY <3>1, <4>1, <4>3 DEF FileInv, ReadyCarries, Orderly
      <4> QED
        BY <1>5, <2>0, <4>4
    <3> QED
      BY <3>2, <3>3
  <2> QED
    BY <2>1, <2>2
<1>14. TokenHasReceiver'
  <2> SUFFICES ASSUME NEW r \in Runs, flow'[r] = "token"
               PROVE  r \notin dropped' /\ (at'[r] \in BeyondReceiver => receiver' = "ready")
    BY DEF TokenHasReceiver
  <2>1. r \notin dropped /\ (at[r] \in BeyondReceiver => receiver = "ready") /\ r \in Threads
    BY DEF ThreadEffects, FileInv, TokenHasReceiver
  <2>2. r \notin dropped'
    BY <2>1 DEF ThreadEffects
  <2> QED
    BY <1>8, <2>1, <2>2 DEF ThreadEffects
<1>15. KeyCarries'
  <2>1. {"aas_token", "fcm_credentials"} \subseteq Kept
    BY DEF Kept
  <2> QED
    BY <1>2, <1>5, <2>1 DEF FileInv, KeyCarries, ThreadEffects
<1>16. DoneCarries'
  BY <1>2, <1>5 DEF FileInv, DoneCarries, ThreadEffects
<1> QED
  BY <1>6, <1>7, <1>9, <1>10, <1>12, <1>13, <1>14, <1>15, <1>16 DEF FileInv

\* Names that are on file when nobody is in the store are carried.
LEMMA FoundIsCarried ==
    ASSUME SignInInv, Reads(Loop), ~tangled', NEW names, names \subseteq Readable
    PROVE  Carries(names)'
<1>1. \A u \in Threads : store'[u].at = "no"
  BY TokenCacheAssumption DEF Reads, Notes, Others
<1>2. names \subseteq file'
  BY DEF Reads, Readable
<1> QED
  BY <1>1, <1>2 DEF Carries

\* What a step of an attempt does to what FileInv speaks of.
RunEffects(r) ==
    /\ UNCHANGED <<file, torn, store, receiver, dropped>>
    /\ tangled => tangled'
    /\ LoopIsFree
    /\ \A u \in Threads : at'[u] = at[u] \/ (u = r /\ at[r] \in Over /\ at'[r] \notin Names \union InReceiver \union BeyondReceiver)
    /\ \A s \in Runs \ {r} : flow'[s] = flow[s] /\ final'[s] = final[s]
    /\ flow'[r] = "token" => flow[r] = "token" \/ (at[r] \in Over /\ at'[r] = "token")
    /\ flow'[r] = "key" /\ ~tangled' => Carries({"aas_token", "fcm_credentials"})'
    /\ final'[r] = "done" =>
         flow'[r] \in {"teardown", "stopped"} /\ (~tangled' => Carries(Kept)')

LEMMA RunEffectsKeepFile ==
    ASSUME SignInInv, FileInv, NEW r \in Runs, RunEffects(r)
    PROVE  FileInv'
<1> USE SignInAssumption
<1>0. /\ Placed /\ r \in Threads
      /\ UNCHANGED <<file, torn, store, receiver, dropped>> /\ (tangled => tangled')
      /\ LoopIsFree /\ LoopIsFree'
  BY DEF SignInInv, RunEffects, LoopIsFree
<1>1. \A names : Carries(names)' <=> Carries(names)
  BY <1>0 DEF Carries, HasOpen
<1>2. \A u \in Threads : at'[u] = at[u] \/ (u = r /\ at[r] \in Over /\ at'[r] \notin Names \union InReceiver \union BeyondReceiver)
  BY DEF RunEffects
<1>3. \A u \in Threads : at'[u] # at[u] => u \notin dropped /\ store[u].at = "no" /\ at[u] # "fcm_credentials"
  BY <1>0, <1>2 DEF FileInv, ReceiverIsThere, InReceiver, Placed, Over, Names, Kept
<1>4. Alone'
  BY <1>0 DEF FileInv, Alone
<1>5. ClearsAreAlone'
  BY <1>0 DEF ClearsAreAlone
<1>6. ReceiverIsThere'
  BY <1>0, <1>2, <1>3 DEF FileInv, ReceiverIsThere
<1>7. StoresItsValue'
  BY <1>0, <1>2, <1>3 DEF FileInv, StoresItsValue
<1>8. TornIsQuiet'
  BY <1>0 DEF FileInv, TornIsQuiet, Orderly
<1>9. ReadyCarries'
  <2>1. (\E u \in Threads : at[u] = "fcm_credentials") => \E u \in Threads : at'[u] = "fcm_credentials"
    BY <1>3
  <2> QED
    BY <1>0, <1>1, <2>1 DEF FileInv, ReadyCarries, Orderly
<1>10. TokenHasReceiver'
  <2> SUFFICES ASSUME NEW s \in Runs, flow'[s] = "token"
               PROVE  s \notin dropped /\ (at'[s] \in BeyondReceiver => receiver = "ready")
    BY <1>0 DEF TokenHasReceiver
  <2>1. CASE flow[s] = "token"
    BY <1>2, <2>1 DEF FileInv, TokenHasReceiver
  <2>2. CASE flow[s] # "token"
    <3>1. s = r /\ at[r] \in Over /\ at'[r] = "token"
      BY <2>2 DEF RunEffects
    <3> QED
      BY <1>0, <3>1 DEF FileInv, ReceiverIsThere, InReceiver, Over, BeyondReceiver
  <2> QED
    BY <2>1, <2>2
<1>11. KeyCarries'
  <2> SUFFICES ASSUME NEW s \in Runs, flow'[s] = "key", ~tangled'
               PROVE  Carries({"aas_token", "fcm_credentials"})'
    BY DEF KeyCarries
  <2>1. CASE s = r
    BY <2>1 DEF RunEffects
  <2>2. CASE s # r
    BY <1>0, <1>1, <2>2 DEF RunEffects, FileInv, KeyCarries
  <2> QED
    BY <2>1, <2>2
<1>12. DoneCarries'
  <2> SUFFICES ASSUME NEW s \in Runs, final'[s] = "done"
               PROVE  flow'[s] \in {"teardown", "stopped"} /\ (~tangled' => Carries(Kept)')
    BY DEF DoneCarries
  <2>1. CASE s = r
    BY <2>1 DEF RunEffects
  <2>2. CASE s # r
    BY <1>0, <1>1, <2>2 DEF RunEffects, FileInv, DoneCarries
  <2> QED
    BY <2>1, <2>2
<1> QED
  BY <1>4, <1>5, <1>6, <1>7, <1>8, <1>9, <1>10, <1>11, <1>12 DEF FileInv

LEMMA RunStepKeepsFile ==
    ASSUME SignInInv, FileInv, NEW r \in Runs, RunStep(r) \/ Start(r)
    PROVE  FileInv'
<1> SUFFICES RunEffects(r)
  BY RunEffectsKeepFile
<1> USE SignInAssumption
<1>0. /\ SignInTypeOK /\ r \in Threads
      /\ flow \in [Runs -> {"none", "provisioning", "token", "key", "teardown", "stopped"}]
      /\ final \in [Runs -> Finals] /\ at \in [Threads -> Places]
      /\ flow[r] = "provisioning" => at[r] = "none"
      /\ final[r] = "done" => flow[r] \in {"teardown", "stopped"} /\ (~tangled => Carries(Kept))
      /\ flow[r] # "none" => LoopIsFree
  BY DEF SignInInv, SignInTypeOK, Placed, FileInv, DoneCarries, ClearsAreAlone, RunsAreActive
<1>1. \A place \in {"none", "token", "key"} : place \notin Names \union InReceiver \union BeyondReceiver
  BY DEF Names, Kept, InReceiver, BeyondReceiver
<1>2. ASSUME NEW place, Goes(r, place)
      PROVE  at'[r] = place /\ \A u \in Threads \ {r} : at'[u] = at[u]
  BY <1>0, <1>2 DEF Goes
<1>3. ASSUME NEW stage, Advances(r, stage)
      PROVE  flow'[r] = stage /\ \A s \in Runs \ {r} : flow'[s] = flow[s]
  BY <1>0, <1>3 DEF Advances
<1>4. UNCHANGED cacheVars \/ Reads(Loop) => UNCHANGED <<file, torn, store>> /\ (tangled => tangled')
  BY LooksMixNothing DEF Reads, cacheVars
<1>5. \A names : UNCHANGED <<file, torn, store>> /\ Carries(names) => Carries(names)'
  BY DEF Carries, HasOpen
<1>t. ASSUME NEW outcome \in Finals, TearsDown(r, outcome), flow[r] # "none",
             UNCHANGED receiverVars, Reads(Loop) \/ UNCHANGED cacheVars,
             outcome = "done" /\ ~tangled' => Carries(Kept)'
      PROVE  RunEffects(r)
  <2>1. /\ flow'[r] = "teardown" /\ final'[r] = outcome
        /\ \A s \in Runs \ {r} : flow'[s] = flow[s] /\ final'[s] = final[s]
    BY <1>0, <1>3, <1>t DEF TearsDown
  <2>2. \A u \in Threads : at'[u] = at[u] \/ (u = r /\ at[r] \in Over /\ at'[r] = "none")
    BY <1>0, <1>t DEF TearsDown
  <2> QED
    BY <1>0, <1>1, <1>4, <1>t, <2>1, <2>2 DEF RunEffects, receiverVars
<1>6. CASE Start(r)
  <2>1. /\ UNCHANGED cacheVars /\ LoopIsFree /\ UNCHANGED <<final, at, receiver, dropped>>
        /\ flow[r] = "none" /\ Advances(r, "provisioning")
    BY <1>6 DEF Start, receiverVars
  <2> QED
    BY <1>0, <1>3, <1>4, <2>1 DEF RunEffects
<1>7. CASE Provisioned(r)
  <2>1. /\ UNCHANGED cacheVars /\ UNCHANGED <<final, receiver, dropped>>
        /\ flow[r] = "provisioning" /\ Advances(r, "token") /\ Goes(r, "token")
    BY <1>7 DEF Provisioned, receiverVars
  <2>2. at[r] \in Over
    BY <1>0, <2>1 DEF Over
  <2> QED
    BY <1>0, <1>1, <1>2, <1>3, <1>4, <2>1, <2>2 DEF RunEffects
<1>8. CASE ProvisionFails(r) \/ ThreadRaised(r) \/ WaitForEnds(r)
  BY <1>8, <1>t DEF ProvisionFails, ThreadRaised, WaitForEnds, Waiting, Finals
<1>9. CASE TokenOver(r)
  <2>1. CASE LoggedIn
    <3>1. /\ Reads(Loop) /\ UNCHANGED <<final, receiver, dropped>>
          /\ flow[r] = "token" /\ at[r] = "returned" /\ Advances(r, "key") /\ Goes(r, "key")
      BY <1>9, <2>1 DEF TokenOver, receiverVars
    <3>2. ~tangled' => Carries({"aas_token", "fcm_credentials"})'
      BY <2>1, <3>1, FoundIsCarried DEF LoggedIn
    <3>3. at[r] \in Over
      BY <3>1 DEF Over
    <3> QED
      BY <1>0, <1>1, <1>2, <1>3, <1>4, <3>1, <3>2, <3>3 DEF RunEffects
  <2>2. CASE ~LoggedIn
    BY <1>9, <1>t, <2>2 DEF TokenOver, Finals
  <2> QED
    BY <2>1, <2>2
<1>10. CASE KeyOver(r)
  <2> DEFINE outcome == IF "shared_key" \in Readable THEN "done" ELSE "failed"
  <2>1. flow[r] = "key" /\ Reads(Loop) /\ UNCHANGED receiverVars /\ TearsDown(r, outcome)
    BY <1>10 DEF KeyOver
  <2>2. ASSUME outcome = "done", ~tangled'
        PROVE  Carries(Kept)'
    <3>1. Carries({"aas_token", "fcm_credentials"})'
      BY <1>4, <1>5, <2>1, <2>2 DEF FileInv, KeyCarries
    <3>2. Carries({"shared_key"})'
      BY <2>1, <2>2, FoundIsCarried
    <3> QED
      BY <3>1, <3>2 DEF Carries, Kept
  <2>3. outcome \in Finals
    BY DEF Finals
  <2> HIDE DEF outcome
  <2> QED
    BY <1>t, <2>1, <2>2, <2>3
<1>11. CASE StackStops(r)
  <2>1. /\ UNCHANGED cacheVars /\ UNCHANGED <<final, at, receiver, dropped>>
        /\ flow[r] = "teardown" /\ Advances(r, "stopped")
    BY <1>11 DEF StackStops, receiverVars
  <2> QED
    BY <1>0, <1>3, <1>4, <1>5, <2>1 DEF RunEffects
<1>12. CASE RunEnds(r)
  <2>1. /\ UNCHANGED cacheVars /\ UNCHANGED <<at, receiver, dropped>>
        /\ flow[r] = "stopped" /\ Advances(r, "none")
        /\ final' = [final EXCEPT ![r] = "failed"]
    BY <1>12 DEF RunEnds, receiverVars
  <2>2. final'[r] = "failed" /\ \A s \in Runs \ {r} : final'[s] = final[s]
    BY <1>0, <2>1
  <2> QED
    BY <1>0, <1>3, <1>4, <2>1, <2>2 DEF RunEffects
<1> QED
  BY <1>6, <1>7, <1>8, <1>9, <1>10, <1>11, <1>12 DEF RunStep

\* A poll comes into the code, and leaves the file alone.
LEMMA PollKeepsFile ==
    ASSUME SignInInv, FileInv, NEW p \in Polls, Poll(p)
    PROVE  FileInv'
<1> USE SignInAssumption
<1>0. /\ Placed /\ p \in Threads /\ at \in [Threads -> Places]
      /\ UNCHANGED <<file, torn, store, phase, flow, final, receiver, dropped>>
      /\ (tangled => tangled') /\ at[p] = "none" /\ at' = [at EXCEPT ![p] = "receiver"]
  BY DEF SignInInv, SignInTypeOK, Poll, Goes, flowVars, receiverVars
<1>1. at'[p] = "receiver" /\ \A u \in Threads \ {p} : at'[u] = at[u]
  BY <1>0
<1>2. \A names : Carries(names)' <=> Carries(names)
  BY <1>0 DEF Carries, HasOpen
<1>3. store[p].at = "no"
  BY <1>0 DEF Placed, Names, Kept
<1>4. Alone' /\ ClearsAreAlone'
  BY <1>0 DEF FileInv, Alone, ClearsAreAlone, LoopIsFree, IsActive
<1>5. ReceiverIsThere' /\ StoresItsValue'
  BY <1>0, <1>1, <1>3 DEF FileInv, ReceiverIsThere, StoresItsValue, InReceiver, Kept
<1>6. TornIsQuiet'
  BY <1>0 DEF FileInv, TornIsQuiet, Orderly, LoopIsFree
<1>7. ReadyCarries'
  <2>1. (\E u \in Threads : at[u] = "fcm_credentials") => \E u \in Threads : at'[u] = "fcm_credentials"
    BY <1>0, <1>1
  <2> QED
    BY <1>0, <1>2, <2>1 DEF FileInv, ReadyCarries, Orderly, LoopIsFree
<1>8. TokenHasReceiver'
  BY <1>0, <1>1 DEF FileInv, TokenHasReceiver
<1>9. KeyCarries' /\ DoneCarries'
  BY <1>0, <1>2 DEF FileInv, KeyCarries, DoneCarries
<1> QED
  BY <1>4, <1>5, <1>6, <1>7, <1>8, <1>9 DEF FileInv

\* A clear goes from the wipe of the file to the drop of the receiver, while no attempt
\* is under way.
LEMMA ClearKeepsFile ==
    ASSUME SignInInv, FileInv, Clear \/ Cleared
    PROVE  FileInv'
<1> USE SignInAssumption, TokenCacheAssumption
<1>0. /\ CacheTypeOK /\ Loop \in Writers /\ Threads \subseteq Writers \ {Loop}
      /\ \A r \in Runs : flow[r] # "none" => IsActive
  BY DEF SignInInv, SignInTypeOK, Writers, RunsAreActive
<1>1. /\ UNCHANGED <<phase, flow, final, at>>
      /\ Truncates(Loop, {}) \/ Writes(Loop)
  BY DEF Clear, Cleared, Wipes, flowVars
<1>2. /\ \A v \in Threads :
           /\ store'[v].at = "no" <=> store[v].at = "no"
           /\ store'[v].data = store[v].data
      /\ tangled => tangled'
  BY <1>0, <1>1, StoreStep
<1>3. ~IsActive
  <2>1. CASE Clear
    BY <2>1 DEF Clear
  <2>2. CASE Cleared
    BY <2>2 DEF Cleared, Writes, HasOpen, LoopIsFree, FileInv, ClearsAreAlone
  <2> QED
    BY <2>1, <2>2
<1>4. ~LoopIsFree' \/ receiver' = "none"
  <2>1. CASE Clear
    BY <1>0, <2>1 DEF Clear, Wipes, Truncates, LoopIsFree, CacheTypeOK
  <2>2. CASE Cleared
    BY <2>2 DEF Cleared, DropReceiver
  <2> QED
    BY <2>1, <2>2
<1>5. Alone' /\ ClearsAreAlone'
  BY <1>1, <1>2, <1>3 DEF FileInv, Alone, ClearsAreAlone, IsActive
<1>6. ReceiverIsThere'
  <2>1. CASE Clear
    BY <1>1, <2>1 DEF FileInv, ReceiverIsThere, Clear, receiverVars
  <2>2. CASE Cleared
    BY <1>1, <2>2 DEF FileInv, ReceiverIsThere, Cleared, DropReceiver, InReceiver
  <2> QED
    BY <2>1, <2>2
<1>7. StoresItsValue'
  BY <1>1, <1>2 DEF FileInv, StoresItsValue
<1>8. TornIsQuiet' /\ ReadyCarries'
  BY <1>4 DEF TornIsQuiet, ReadyCarries, Orderly
<1>9. \A r \in Runs : flow'[r] = "none" /\ final'[r] # "done"
  BY <1>0, <1>1, <1>3 DEF FileInv, DoneCarries
<1>10. TokenHasReceiver' /\ KeyCarries' /\ DoneCarries'
  BY <1>9 DEF TokenHasReceiver, KeyCarries, DoneCarries
<1> QED
  BY <1>5, <1>6, <1>7, <1>8, <1>10 DEF FileInv

LEMMA NextKeepsFile ==
    ASSUME SignInInv, FileInv, [Next]_vars
    PROVE  FileInv'
<1>1. CASE \E r \in Runs : Start(r) \/ RunStep(r)
  BY <1>1, RunStepKeepsFile
<1>2. CASE \E p \in Polls : Poll(p)
  BY <1>2, PollKeepsFile
<1>3. CASE Clear \/ Cleared
  BY <1>3, ClearKeepsFile
<1>4. CASE \E t \in Threads : ThreadStep(t)
  BY <1>4, ThreadStepHasEffects, ThreadEffectsKeepFile
<1>5. CASE UNCHANGED vars
  <2>1. /\ UNCHANGED <<file, torn, store, tangled, phase, flow, final, at, receiver, dropped>>
    BY <1>5 DEF vars, cacheVars, flowVars, receiverVars
  <2>2. \A names : Carries(names)' <=> Carries(names)
    BY <2>1 DEF Carries, HasOpen
  <2> QED
    BY <2>1, <2>2 DEF FileInv, Alone, ClearsAreAlone, ReceiverIsThere, StoresItsValue, TornIsQuiet,
       ReadyCarries, TokenHasReceiver, KeyCarries, DoneCarries, Orderly, LoopIsFree, IsActive
<1> QED
  BY <1>1, <1>2, <1>3, <1>4, <1>5 DEF Next, Act

LEMMA FileInvHolds == Spec => []FileInv
<1>1. ASSUME Init
      PROVE  FileInv
  <2>1. \A w \in Writers : store[w].at = "no"
    BY <1>1 DEF Init, CacheInit, NoStore
  <2>2. \A t \in Threads : at[t] = "none" /\ t \in Writers
    BY <1>1 DEF Init, Writers
  <2>3. receiver = "none" /\ dropped = {} /\ LoopIsFree
    BY <1>1, <2>1 DEF Init, LoopIsFree, Writers
  <2>4. \A r \in Runs : flow[r] = "none" /\ final[r] = "failed"
    BY <1>1 DEF Init
  <2> QED
    BY <2>1, <2>2, <2>3, <2>4 DEF FileInv, Alone, ClearsAreAlone, ReceiverIsThere, StoresItsValue,
       TornIsQuiet, ReadyCarries, TokenHasReceiver, KeyCarries, DoneCarries, InReceiver
<1>2. SignInInv /\ FileInv /\ [Next]_vars => FileInv'
  BY NextKeepsFile
<1> QED
  BY <1>1, <1>2, SignInInvHolds, PTL DEF Spec

\* No attempt puts a token on file without push credentials beside it or on their way:
\* a clear comes before it or after it, and a receiver that is ready has stored them.
THEOREM TokenComesWithCredentialsHolds == Spec => TokenComesWithCredentials
<1>1. ASSUME SignInInv, FileInv,
             NEW r \in Runs, ~tangled, flow[r] = "token", at[r] = "aas_token", StoreWrites(r)
      PROVE  "fcm_credentials" \in file' \/ \E t \in Threads : at[t] = "fcm_credentials"
  <2>0. r \in Threads /\ r \in Writers
    BY SignInAssumption DEF Writers
  <2>1. HasOpen(r) /\ file' = store[r].data
    BY <1>1 DEF StoreWrites, Writes
  <2>2. Orderly /\ receiver = "ready"
    BY <1>1 DEF SignInInv, RunsAreActive, FileInv, ClearsAreAlone, Orderly, TokenHasReceiver, BeyondReceiver
  <2>3. ~torn
    BY <1>1, <2>0, <2>1, <2>2 DEF FileInv, TornIsQuiet, HasOpen
  <2>4. (\E t \in Threads : at[t] = "fcm_credentials") \/ Carries({"fcm_credentials"})
    BY <1>1, <2>2, <2>3 DEF FileInv, ReadyCarries
  <2> QED
    BY <2>0, <2>1, <2>4 DEF Carries, HasOpen
<1>2. SignInInv /\ FileInv /\ [Next]_vars =>
        [\A r \in Runs :
            ~tangled /\ flow[r] = "token" /\ at[r] = "aas_token" /\ StoreWrites(r)
               => "fcm_credentials" \in file' \/ \E t \in Threads : at[t] = "fcm_credentials"]_vars
  BY <1>1
<1> QED
  BY <1>2, SignInInvHolds, FileInvHolds, PTL DEF Spec, TokenComesWithCredentials

\* "done" is true: what the attempt found on file piece by piece, in three reads with
\* other threads' stores between them, is there together when it says so.
THEOREM DoneIsCompleteHolds == Spec => DoneIsComplete
<1>1. ASSUME SignInInv, FileInv, [Next]_vars, ~UNCHANGED vars,
             phase' = "done", phase # "done", ~tangled, \A w \in Writers : ~HasOpen(w)
      PROVE  {"aas_token", "fcm_credentials", "shared_key"} \subseteq file'
  <2>1. PICK r \in Runs : RunEnds(r)
    <3>1. phase' # phase
      BY <1>1
    <3>2. ASSUME NEW t \in Threads, ThreadStep(t)
          PROVE  phase' = phase
      BY <1>1, <3>2, ThreadStepHasEffects DEF ThreadEffects
    <3>3. ASSUME NEW r \in Runs, RunStep(r), ~RunEnds(r)
          PROVE  phase' # "done"
      BY <1>1, <3>3 DEF RunStep, Provisioned, ProvisionFails, TokenOver, KeyOver, ThreadRaised,
         WaitForEnds, StackStops, TearsDown
    <3>4. ASSUME NEW r \in Runs, Start(r)
          PROVE  phase' # "done"
      BY <3>4 DEF Start
    <3>5. ASSUME NEW p \in Polls, Poll(p)
          PROVE  phase' = phase
      BY <3>5 DEF Poll, flowVars
    <3>6. ASSUME Clear \/ Cleared
          PROVE  phase' = phase
      BY <3>6 DEF Clear, Cleared, flowVars
    <3> QED
      BY <1>1, <3>1, <3>2, <3>3, <3>4, <3>5, <3>6 DEF Next, Act
  <2>2. final[r] = "done" /\ file' = file
    BY <1>1, <2>1 DEF RunEnds, cacheVars
  <2>3. Carries(Kept)
    BY <1>1, <2>2 DEF FileInv, DoneCarries
  <2> QED
    BY <1>1, <2>2, <2>3 DEF Carries, Kept, Writers
<1>2. SignInInv /\ FileInv /\ [Next]_vars =>
        [phase' = "done" /\ phase # "done" /\ ~tangled /\ (\A w \in Writers : ~HasOpen(w))
           => {"aas_token", "fcm_credentials", "shared_key"} \subseteq file']_vars
  BY <1>1
<1> QED
  BY <1>2, SignInInvHolds, FileInvHolds, PTL DEF Spec, DoneIsComplete
=============================================================================
