---------------------------- MODULE AddOnBoot_proofs ----------------------------
(***************************************************************************)
(* For any options and any number of faults: no start from half a bundle   *)
(* or, within the wait, from a certificate that is not valid yet; what one *)
(* fault cannot do to the cache, and what two faults cannot.               *)
(***************************************************************************)
EXTENDS AddOnBoot, TLAPS

\* LaunchTimely speaks of the bridge that runs; what it needs is there from the
\* decision for the cache on, since nothing but the downloader, and the cleaning
\* in front of it, touches the documents.
TimelyInv ==
    /\ ahead \in Nat /\ lag \in Nat
    /\ pc \in {"await", "main", "launched"} /\ secdir = "cache" => Complete
    /\ pc \in {"main", "launched"} /\ secdir = "cache" => ahead = 0 \/ ahead > Quarter

LEMMA LagsAreNumbers == \A n \in Lags : n \in Nat /\ 0..n \subseteq Nat
  BY DEF Lags

\* The downloader dates a certificate by the lag and leads to no launch.
LEMMA DownloadTimely ==
    ASSUME TimelyInv, Downloader
    PROVE  TimelyInv'
<1>1. pc = "fetch" /\ pc' \in {"fetch", "judge", "down"} /\ lag' = lag
  BY DEF Downloader, Login, RelayJson, StaticDoc, NewCert, PrivateKey, Permissions, CutShort,
     Fetching, On, Over
<1>2. ahead' \in {ahead, lag, 0}
  BY DEF Downloader, Login, RelayJson, StaticDoc, NewCert, PrivateKey, Permissions, CutShort
<1> QED
  BY <1>1, <1>2 DEF TimelyInv

\* What is decided in front of the downloader.
LEMMA PrepareTimely ==
    ASSUME TimelyInv, LoadOptions \/ \E left \in SUBSET Files : Clean(left)
    PROVE  TimelyInv'
<1>1. lag' = lag /\ pc' \in {"down", "clean", "fetch", "judge"}
  BY DEF LoadOptions, Clean, Downloads
<1>2. ahead' \in Nat
  BY DEF LoadOptions, Clean, TimelyInv
<1> QED
  BY <1>1, <1>2 DEF TimelyInv

\* From the decision to the launch.
LEMMA LaunchStepTimely ==
    ASSUME TimelyInv, Judge \/ AwaitIdentity \/ Main
    PROVE  TimelyInv'
<1>1. CASE Judge
  <2>1. /\ pc' = "await" /\ ahead' = ahead /\ lag' = lag /\ file' = file
        /\ secdir' = "cache" => Complete
    BY <1>1 DEF Judge, UserBundle, CachedBundle
  <2> QED
    BY <2>1 DEF TimelyInv, Complete
<1>2. CASE AwaitIdentity
  <2>1. /\ pc = "await" /\ pc' = "main" /\ lag' = lag /\ file' = file /\ secdir' = secdir
        /\ ahead' = IF secdir = "cache" /\ ahead <= Quarter THEN 0 ELSE ahead
    BY <1>2 DEF AwaitIdentity, env
  <2> QED
    BY <2>1 DEF TimelyInv, Complete, Quarter
<1>3. CASE Main
  <2>1. /\ pc = "main" /\ pc' \in {"launched", "down"}
        /\ UNCHANGED <<ahead, lag, file, secdir>>
    BY <1>3 DEF Main, env
  <2> QED
    BY <2>1 DEF TimelyInv, Complete
<1> QED
  BY <1>1, <1>2, <1>3

\* The host and the Supervisor, and steps of neither.
LEMMA HostTimely ==
    ASSUME TimelyInv, Host \/ UNCHANGED vars
    PROVE  TimelyInv'
<1>1. file' = file /\ secdir' = secdir /\ pc' \in {pc, "down"}
  BY DEF Host, Sample, Watchdog, Stopped, ClockLost, ClockSet, vars, env
<1>2. CASE ClockLost
  <2>1. pc' = "down" /\ lag' \in Lags /\ (ahead' \in 0..lag' \/ ahead' = 0)
    BY <1>2 DEF ClockLost
  <2>2. lag' \in Nat /\ ahead' \in Nat
    BY <2>1, LagsAreNumbers
  <2> QED
    BY <2>1, <2>2 DEF TimelyInv
<1>3. CASE ClockSet
  BY <1>1, <1>3 DEF ClockSet, TimelyInv, Complete
<1>4. CASE Sample \/ Watchdog \/ Stopped \/ UNCHANGED vars
  <2>1. ahead' = ahead /\ lag' = lag
    BY <1>4 DEF Sample, Watchdog, Stopped, vars
  <2> QED
    BY <1>1, <2>1 DEF TimelyInv, Complete
<1> QED
  BY <1>2, <1>3, <1>4 DEF Host

\* Whatever fails, however often: a bridge started from the cache has six written
\* documents, and a certificate that is valid or would not have been in 900 seconds
\* (_bundle_complete, _resolve_security_dir, await_identity_valid).
THEOREM AlwaysTimely == Spec => []LaunchTimely
<1>1. Init => TimelyInv
  BY LagsAreNumbers DEF Init, TimelyInv
<1>2. TimelyInv /\ [Next]_vars => TimelyInv'
  BY DownloadTimely, PrepareTimely, LaunchStepTimely, HostTimely DEF Next, Boot
<1>3. TimelyInv => LaunchTimely
  BY DEF TimelyInv, LaunchTimely, Complete
<1> QED
  BY <1>1, <1>2, <1>3, PTL DEF Spec

-----------------------------------------------------------------------------
(* The types.                                                              *)

Documents ==
    /\ file \in [Files -> Nat]
    /\ \A f \in Files \ Signed : file[f] \in {Absent, Empty, Kept}
    /\ \A f \in Signed : file[f] \in {Absent, Empty} \cup Nonces

TypeInv == TypeOK /\ Documents

LEMMA Levels ==
    /\ Absent = 0 /\ Empty = 1 /\ Kept = 2 /\ Nonces \subseteq Nat
    /\ \A n \in Nonces : n > Empty
    /\ Signed \subseteq Needed /\ Static \subseteq Needed /\ Needed \subseteq Files
    /\ Signed \cap Static = {} /\ {"home", "relay"} \cap Needed = {}
    /\ {"home", "relay"} \subseteq Files /\ {"cert", "key", "perm"} = Signed
    /\ MaxFaults \in Nat
  BY BootAssumption DEF Absent, Empty, Kept, Nonces, Signed, Static, Needed, Files

\* Four nonces are enough: three documents hold at most three of them.
LEMMA FreshIsFresh == FreshNonce \in Nonces /\ \A f \in Signed : file[f] # FreshNonce
<1> DEFINE used(n) == \E f \in Signed : file[f] = n
           Least(n) == /\ \A f \in Signed : file[f] # n
                       /\ \A m \in Nonces : m < n => \E f \in Signed : file[f] = m
<1>1. Nonces = {2, 3, 4, 5}
  BY DEF Nonces
<1>2. ~used(2) \/ ~used(3) \/ ~used(4) \/ ~used(5)
  BY DEF Signed
<1>3. \E n \in Nonces : Least(n)
  <2>1. CASE ~used(2)
    <3>1. Least(2)
      BY <1>1, <2>1
    <3>. QED
      BY <1>1, <3>1
  <2>2. CASE used(2) /\ ~used(3)
    <3>1. Least(3)
      BY <1>1, <2>2
    <3>. QED
      BY <1>1, <3>1
  <2>3. CASE used(2) /\ used(3) /\ ~used(4)
    <3>1. Least(4)
      BY <1>1, <2>3
    <3>. QED
      BY <1>1, <3>1
  <2>4. CASE used(2) /\ used(3) /\ used(4) /\ ~used(5)
    <3>1. Least(5)
      BY <1>1, <2>4
    <3>. QED
      BY <1>1, <3>1
  <2>. QED
    BY <1>2, <2>1, <2>2, <2>3, <2>4
<1>4. FreshNonce \in Nonces /\ Least(FreshNonce)
  BY <1>3 DEF FreshNonce
<1>. QED
  BY <1>4

\* The documents that a write and a removal leave.
LEMMA WriteTyped ==
    ASSUME Documents, NEW f \in Files, NEW c \in Nat, Write(f, c),
           f \in Signed => c \in {Absent, Empty} \cup Nonces,
           f \notin Signed => c \in {Absent, Empty, Kept}
    PROVE  /\ Documents' /\ file'[f] = c
           /\ \A g \in Files : g # f => file'[g] = file[g]
<1>1. file' = [file EXCEPT ![f] = c] /\ file \in [Files -> Nat]
  BY DEF Write, Documents
<1>2. file'[f] = c /\ \A g \in Files : g # f => file'[g] = file[g]
  BY <1>1
<1>3. file' \in [Files -> Nat]
  BY <1>1
<1>4. \A g \in Files \ Signed : file'[g] \in {Absent, Empty, Kept}
  BY <1>2 DEF Documents
<1>5. \A g \in Signed : file'[g] \in {Absent, Empty} \cup Nonces
  BY <1>2, Levels DEF Documents
<1>. QED
  BY <1>2, <1>3, <1>4, <1>5 DEF Documents

LEMMA FaultsCounted ==
    ASSUME TypeInv, Faulty \/ Faultless
    PROVE  faults' \in 0..MaxFaults
  BY Levels DEF TypeInv, TypeOK, Faulty, Faultless

\* One step of the downloader: which documents it writes, and what with.
DownloadStep ==
    /\ pc = "fetch" /\ pc' \in {"fetch", "judge", "down"}
    /\ step' \in {"login", "relay", "newcert"} \cup Static \cup Signed
    /\ UNCHANGED <<nonce, lag, opts, env, beat, had>>
    /\ bound' \in BOOLEAN /\ (Faulty \/ Faultless)
    /\ Documents' /\ ahead' \in 0..lag /\ (ahead' > 0 => file'["cert"] > Empty)

LEMMA DownloadSteps == TypeInv /\ Downloader => DownloadStep
<1>. SUFFICES ASSUME TypeInv, Downloader PROVE DownloadStep
  OBVIOUS
<1>0. /\ Documents /\ nonce \in Nonces /\ bound \in BOOLEAN /\ lag \in Nat
      /\ ahead \in 0..lag /\ (ahead > 0 => file["cert"] > Empty)
      /\ step \in {"login", "relay", "newcert"} \cup Static \cup Signed
  BY LagsAreNumbers DEF TypeInv, TypeOK
<1>1. ASSUME NEW f \in Files \ Signed, Write(f, Kept) \/ Write(f, Empty), ahead' = ahead
      PROVE  Documents' /\ ahead' \in 0..lag /\ (ahead' > 0 => file'["cert"] > Empty)
  <2>1. Documents' /\ \A g \in Files : g # f => file'[g] = file[g]
    BY <1>0, <1>1, WriteTyped, Levels
  <2>2. "cert" \in Files /\ "cert" # f
    BY Levels
  <2>. QED
    BY <1>0, <1>1, <2>1, <2>2
<1>2. CASE Login
  <2>1. pc = "fetch" /\ pc' = pc /\ step' = "relay" /\ bound' = bound /\ ahead' = ahead
        /\ (Faulty \/ Faultless) /\ UNCHANGED <<nonce, lag, opts, env, beat, had>>
    BY <1>2 DEF Login, Fetching, On
  <2>2. Write("home", Kept) \/ file' = file
    BY <1>2 DEF Login
  <2>3. Documents' /\ ahead' \in 0..lag /\ (ahead' > 0 => file'["cert"] > Empty)
    <3>1. CASE Write("home", Kept)
      BY <1>1, <2>1, <3>1, Levels
    <3>2. CASE file' = file
      BY <1>0, <2>1, <3>2 DEF Documents
    <3>. QED
      BY <2>2, <3>1, <3>2
  <2>. QED
    BY <1>0, <2>1, <2>3 DEF DownloadStep
<1>3. CASE RelayJson
  <2>1. pc = "fetch" /\ pc' \in {pc, "judge"} /\ step' \in {step, "ca"} /\ bound' = bound
        /\ ahead' = ahead
        /\ Faultless /\ UNCHANGED <<nonce, lag, opts, env, beat, had>>
    BY <1>3 DEF RelayJson, Fetching, On, Over
  <2>2. Write("relay", Kept) \/ file' = file
    BY <1>3 DEF RelayJson
  <2>3. Documents' /\ ahead' \in 0..lag /\ (ahead' > 0 => file'["cert"] > Empty)
    <3>1. CASE Write("relay", Kept)
      BY <1>1, <2>1, <3>1, Levels
    <3>2. CASE file' = file
      BY <1>0, <2>1, <3>2 DEF Documents
    <3>. QED
      BY <2>2, <3>1, <3>2
  <2>4. "ca" \in Static
    BY DEF Static
  <2>. QED
    BY <1>0, <2>1, <2>3, <2>4 DEF DownloadStep
<1>4. ASSUME NEW f \in Static, StaticDoc(f)
      PROVE  DownloadStep
  <2>1. pc = "fetch" /\ pc' = pc /\ step' \in {"pca", "gov", "newcert"} /\ bound' = bound
        /\ ahead' = ahead /\ Write(f, Kept)
        /\ Faultless /\ UNCHANGED <<nonce, lag, opts, env, beat, had>>
    BY <1>4 DEF StaticDoc, Fetching, On
  <2>2. f \in Files \ Signed
    BY Levels
  <2>3. Documents' /\ ahead' \in 0..lag /\ (ahead' > 0 => file'["cert"] > Empty)
    BY <1>1, <2>1, <2>2
  <2>4. "pca" \in Static /\ "gov" \in Static
    BY DEF Static
  <2>. QED
    BY <1>0, <2>1, <2>3, <2>4 DEF DownloadStep
<1>5. CASE NewCert
  <2>1. PICK got \in SUBSET {"cert", "key"} :
        /\ IF got = {"cert", "key"} THEN Faultless ELSE Faulty
        /\ bound' \in IF got = {} THEN BOOLEAN ELSE {TRUE}
        /\ IF "cert" \in got THEN Write("cert", nonce) /\ ahead' = lag
                             ELSE UNCHANGED <<file, ahead>>
        /\ step' = IF "key" \in got THEN "key" ELSE "perm"
    BY <1>5 DEF NewCert
  <2>2. pc = "fetch" /\ pc' = pc /\ UNCHANGED <<nonce, lag, opts, env, beat, had>>
    BY <1>5 DEF NewCert, Fetching
  <2>3. Documents' /\ ahead' \in 0..lag /\ (ahead' > 0 => file'["cert"] > Empty)
    <3>1. CASE "cert" \in got
      <4>1. Documents' /\ file'["cert"] = nonce
        BY <1>0, <2>1, <3>1, WriteTyped, Levels
      <4>. QED
        BY <1>0, <2>1, <3>1, <4>1, Levels
    <3>2. CASE "cert" \notin got
      BY <1>0, <2>1, <3>2 DEF Documents
    <3>. QED
      BY <3>1, <3>2
  <2>4. step' \in Signed /\ bound' \in BOOLEAN /\ (Faulty \/ Faultless)
    BY <2>1, Levels
  <2>. QED
    BY <2>2, <2>3, <2>4 DEF DownloadStep
<1>6. CASE PrivateKey
  <2>1. pc = "fetch" /\ pc' = pc /\ step' = "perm" /\ bound' = bound /\ ahead' = ahead
        /\ Faultless /\ Write("key", nonce) /\ UNCHANGED <<nonce, lag, opts, env, beat, had>>
    BY <1>6 DEF PrivateKey, Fetching, On
  <2>2. Documents' /\ \A g \in Files : g # "key" => file'[g] = file[g]
    BY <1>0, <2>1, WriteTyped, Levels
  <2>3. "cert" \in Files /\ "perm" \in Signed
    BY Levels
  <2>. QED
    BY <1>0, <2>1, <2>2, <2>3 DEF DownloadStep
<1>7. CASE Permissions
  <2>1. pc = "fetch" /\ pc' = "judge" /\ step' = step /\ bound' = bound /\ ahead' = ahead
        /\ (Faulty \/ Faultless) /\ UNCHANGED <<nonce, lag, opts, env, beat, had>>
    BY <1>7 DEF Permissions, Fetching, Over
  <2>2. Write("perm", nonce) \/ file' = file
    BY <1>7 DEF Permissions
  <2>3. "cert" \in Files
    BY Levels
  <2>4. Documents' /\ file'["cert"] = file["cert"]
    <3>1. CASE Write("perm", nonce)
      BY <1>0, <2>3, <3>1, WriteTyped, Levels
    <3>2. CASE file' = file
      BY <1>0, <3>2 DEF Documents
    <3>. QED
      BY <2>2, <3>1, <3>2
  <2>. QED
    BY <1>0, <2>1, <2>4 DEF DownloadStep
<1>8. CASE CutShort
  <2>1. pc = "fetch" /\ pc' \in {"judge", "down"} /\ Faulty
        /\ UNCHANGED <<fetch, lag, opts, env, beat, had>>
    BY <1>8 DEF CutShort
  <2>2. Target \subseteq Files
    BY <1>0 DEF Target, Static, Signed, Files, Needed
  <2>3. Documents' /\ ahead' \in 0..lag /\ (ahead' > 0 => file'["cert"] > Empty)
    <3>1. CASE UNCHANGED <<file, ahead>>
      BY <1>0, <3>1 DEF Documents
    <3>2. ASSUME NEW f \in Target, Write(f, Empty), ahead' = IF f = "cert" THEN 0 ELSE ahead
          PROVE  Documents' /\ ahead' \in 0..lag /\ (ahead' > 0 => file'["cert"] > Empty)
      <4>1. Documents' /\ \A g \in Files : g # f => file'[g] = file[g]
        BY <1>0, <2>2, <3>2, WriteTyped, Levels
      <4>2. "cert" \in Files
        BY Levels
      <4>. QED
        BY <1>0, <3>2, <4>1, <4>2
    <3>. QED
      BY <1>8, <3>1, <3>2 DEF CutShort
  <2>. QED
    BY <1>0, <2>1, <2>3 DEF DownloadStep, fetch
<1>. QED
  BY <1>2, <1>3, <1>4, <1>5, <1>6, <1>7, <1>8 DEF Downloader

LEMMA BootInit == Init => TypeInv
<1>. SUFFICES ASSUME Init PROVE TypeInv
  OBVIOUS
<1>1. Documents
  BY Levels DEF Init, Documents
<1>2. lag \in Lags /\ ahead \in 0..lag /\ ~(ahead > 0)
  BY LagsAreNumbers DEF Init
<1>3. nonce \in Nonces /\ faults \in 0..MaxFaults /\ opts \in Options
  BY Levels DEF Init, Nonces
<1>. QED
  BY <1>1, <1>2, <1>3 DEF Init, TypeInv, TypeOK, Documents

\* The steps in front of the downloader.
LEMMA PrepareTyped ==
    TypeInv /\ (LoadOptions \/ \E left \in SUBSET Files : Clean(left)) => TypeInv'
<1>. SUFFICES ASSUME TypeInv, LoadOptions \/ \E left \in SUBSET Files : Clean(left)
              PROVE  TypeInv'
  OBVIOUS
<1>0. lag \in Nat /\ ahead \in 0..lag /\ (ahead > 0 => file["cert"] > Empty) /\ ~(beat /\ pc # "launched")
      /\ nonce \in Nonces /\ bound \in BOOLEAN
      /\ step \in {"login", "relay", "newcert"} \cup Static \cup Signed
  BY LagsAreNumbers DEF TypeInv, TypeOK
<1>1. /\ pc' \in {"down", "clean", "fetch", "judge"} /\ pc # "launched"
      /\ UNCHANGED <<lag, opts, env, beat, had>> /\ (Faulty \/ Faultless)
      /\ Downloads \/ UNCHANGED fetch
  <2>1. CASE LoadOptions
    BY <2>1 DEF LoadOptions, Downloads
  <2>2. ASSUME NEW left \in SUBSET Files, Clean(left)
        PROVE  /\ pc' \in {"down", "clean", "fetch", "judge"} /\ pc # "launched"
               /\ UNCHANGED <<lag, opts, env, beat, had>> /\ (Faulty \/ Faultless)
               /\ Downloads \/ UNCHANGED fetch
    BY <2>2 DEF Clean, Downloads
  <2>. QED
    BY <2>1, <2>2
<1>2. faults' \in 0..MaxFaults
  BY <1>1, FaultsCounted
<1>3. /\ step' \in {"login", "relay", "newcert"} \cup Static \cup Signed
      /\ nonce' \in Nonces /\ bound' \in BOOLEAN
  BY <1>0, <1>1, FreshIsFresh DEF Downloads, fetch
<1>4. Documents' /\ ahead' \in 0..lag /\ (ahead' > 0 => file'["cert"] > Empty)
  <2>1. CASE LoadOptions
    <3>1. ahead' \in 0..ahead /\ file' = file
      BY <2>1 DEF LoadOptions
    <3>2. ahead' \in 0..lag /\ (ahead' > 0 => ahead > 0)
      BY <1>0, <3>1
    <3>. QED
      BY <1>0, <3>1, <3>2 DEF TypeInv, Documents
  <2>2. ASSUME NEW left \in SUBSET Files, Clean(left)
        PROVE  Documents' /\ ahead' \in 0..lag /\ (ahead' > 0 => file'["cert"] > Empty)
    <3>1. /\ file' = [f \in Files |-> IF f \in left THEN file[f] ELSE Absent]
          /\ ahead' = IF "cert" \in left THEN ahead ELSE 0
      BY <2>2 DEF Clean
    <3>2. Documents'
      BY <3>1, Levels DEF TypeInv, Documents
    <3>. QED
      BY <1>0, <3>1, <3>2, Levels
  <2>. QED
    BY <2>1, <2>2
<1>. QED
  BY <1>0, <1>1, <1>2, <1>3, <1>4 DEF TypeInv, TypeOK, Documents, env

\* The bundle used, and the start.
LEMMA StartTyped == TypeInv /\ (Judge \/ AwaitIdentity \/ Main) => TypeInv'
<1>. SUFFICES ASSUME TypeInv, Judge \/ AwaitIdentity \/ Main PROVE TypeInv'
  OBVIOUS
<1>0. lag \in Nat /\ ahead \in 0..lag /\ pc \in {"judge", "await", "main"} /\ ~beat
  BY LagsAreNumbers DEF TypeInv, TypeOK, Judge, AwaitIdentity, Main
<1>1. /\ UNCHANGED <<file, lag, opts, beat, had>> /\ (Faulty \/ Faultless)
      /\ ahead' \in {0, ahead}
  BY DEF Judge, AwaitIdentity, Main, UserBundle, CachedBundle
<1>2. /\ faults' \in 0..MaxFaults /\ Documents'
      /\ ahead' \in 0..lag /\ (ahead' > 0 => file'["cert"] > Empty)
  BY <1>0, <1>1, FaultsCounted DEF TypeInv, TypeOK, Documents
<1>3. /\ pc' \in {"await", "main", "launched", "down"} /\ (pc' = "launched" => partition')
      /\ step' \in {"login", "relay", "newcert"} \cup Static \cup Signed
      /\ nonce' \in Nonces /\ bound' \in BOOLEAN
      /\ secdir' \in {"cache", "user", "runtime", "runtime_part", "missing"}
      /\ partition' \in BOOLEAN
  <2>1. CASE Judge
    <3>1. opts.home \in BOOLEAN
      BY BootAssumption DEF TypeInv, TypeOK
    <3>2. pc' = "await" /\ step' = "login" /\ nonce' = 2 /\ bound' = FALSE
      BY <2>1 DEF Judge
    <3>3. secdir' \in {"cache", "user", "runtime", "runtime_part", "missing"}
      BY <2>1 DEF Judge, UserBundle, CachedBundle
    <3>4. partition' = (file["home"] > Empty) \/ partition' = opts.home
      BY <2>1, Zenon DEF Judge, CachedBundle
    <3>5. partition' \in BOOLEAN
      <4>1. (file["home"] > Empty) \in BOOLEAN
        OBVIOUS
      <4>. QED
        BY <3>1, <3>4, <4>1, Zenon
    <3>6. 2 \in Nonces /\ step' = "login" /\ pc' # "launched"
      BY <3>2 DEF Nonces
    <3>. QED
      BY <3>2, <3>3, <3>5, <3>6
  <2>2. CASE AwaitIdentity
    BY <2>2 DEF AwaitIdentity, TypeInv, TypeOK, fetch, env
  <2>3. CASE Main
    BY <2>3 DEF Main, TypeInv, TypeOK, fetch, env
  <2>. QED
    BY <2>1, <2>2, <2>3
<1>. QED
  BY <1>0, <1>1, <1>2, <1>3 DEF TypeInv, TypeOK, Documents

LEMMA HostTyped == TypeInv /\ (Host \/ UNCHANGED vars) => TypeInv'
<1>. SUFFICES ASSUME TypeInv, Host \/ UNCHANGED vars PROVE TypeInv'
  OBVIOUS
<1>0. lag \in Nat /\ ahead \in 0..lag /\ Documents
  BY LagsAreNumbers DEF TypeInv, TypeOK
<1>1. /\ UNCHANGED <<fetch, file, opts, env>> /\ pc' \in {pc, "down"}
      /\ Faulty \/ Faultless \/ UNCHANGED faults
  BY DEF Host, Sample, Watchdog, Stopped, ClockLost, ClockSet, vars
<1>2. faults' \in 0..MaxFaults
  BY <1>1, FaultsCounted DEF Faultless
<1>3. /\ lag' \in Lags /\ ahead' \in 0..lag' /\ (ahead' > 0 => file'["cert"] > Empty)
  <2>1. CASE ClockLost
    <3>1. lag' \in Lags /\ ahead' \in (IF file["cert"] > Empty THEN 0..lag' ELSE {0})
      BY <2>1 DEF ClockLost
    <3>2. lag' \in Nat /\ 0 \in 0..lag'
      BY <3>1, LagsAreNumbers
    <3>. QED
      BY <1>1, <3>1, <3>2
  <2>2. CASE ClockSet
    BY <2>2 DEF ClockSet, Lags
  <2>3. CASE Sample \/ Watchdog \/ Stopped \/ UNCHANGED vars
    <3>1. lag' = lag /\ ahead' = ahead
      BY <2>3 DEF Sample, Watchdog, Stopped, vars
    <3>. QED
      BY <1>1, <3>1 DEF TypeInv, TypeOK
  <2>. QED
    BY <2>1, <2>2, <2>3 DEF Host
<1>4. beat' \in BOOLEAN /\ had' \in BOOLEAN /\ (beat' => pc' = "launched" /\ Works')
  <2>1. CASE Sample
    <3>1. pc' = "launched" /\ beat' = TRUE /\ had' \in BOOLEAN /\ ahead' = ahead /\ Works
      BY <2>1 DEF Sample, TypeInv, TypeOK
    <3>. QED
      BY <1>1, <3>1 DEF Works, Mixed, env
  <2>2. CASE Watchdog \/ Stopped
    <3>1. beat \in BOOLEAN /\ had \in BOOLEAN
      BY DEF TypeInv, TypeOK
    <3>2. had' = had /\ ((beat' = beat /\ ~beat) \/ beat' = FALSE)
      BY <2>2, Zenon DEF Watchdog, Stopped
    <3>3. had' \in BOOLEAN
      BY <3>1, <3>2, Zenon
    <3>4. beat' \in BOOLEAN
      <4>1. CASE beat' = beat
        BY <3>1, <4>1, Zenon
      <4>2. CASE beat' = FALSE
        BY <4>2
      <4>. QED
        BY <3>2, <4>1, <4>2
    <3>5. ~beat'
      BY <3>2
    <3>. QED
      BY <3>3, <3>4, <3>5
  <2>3. CASE ClockLost
    <3>1. pc = "down" /\ pc' = "down" /\ beat' = beat /\ had' = had
      BY <2>3 DEF ClockLost
    <3>. QED
      BY <3>1 DEF TypeInv, TypeOK
  <2>4. CASE ClockSet
    <3>1. pc' = pc /\ beat' = beat /\ had' = had /\ ahead' = 0
      BY <2>4 DEF ClockSet
    <3>. QED
      BY <1>1, <3>1 DEF TypeInv, TypeOK, Works, Mixed, env
  <2>5. CASE UNCHANGED vars
    BY <2>5 DEF vars, env, TypeInv, TypeOK, Works, Mixed
  <2>. QED
    BY <2>1, <2>2, <2>3, <2>4, <2>5 DEF Host
<1>5. pc' = "launched" => partition'
  BY <1>1 DEF TypeInv, TypeOK, env
<1>. QED
  BY <1>0, <1>1, <1>2, <1>3, <1>4, <1>5 DEF TypeInv, TypeOK, Documents, fetch, env

LEMMA FetchTyped == TypeInv /\ Downloader => TypeInv'
<1>. SUFFICES ASSUME TypeInv, Downloader PROVE TypeInv'
  OBVIOUS
<1>1. DownloadStep
  BY DownloadSteps
<1>2. faults' \in 0..MaxFaults
  BY <1>1, FaultsCounted DEF DownloadStep
<1>. QED
  BY <1>1, <1>2 DEF DownloadStep, TypeInv, TypeOK, Documents, env

LEMMA TypeStep == TypeInv /\ [Next]_vars => TypeInv'
  BY PrepareTyped, StartTyped, HostTyped, FetchTyped DEF Next, Boot

LEMMA TypeInvariant == Spec => []TypeInv
  BY BootInit, TypeStep, PTL DEF Spec

\* The boot stays typed: a certificate of the future is one that is there, and a
\* fresh heartbeat means a running bridge whose bundle works.
THEOREM BootTyped == Spec => []TypeOK
<1>1. TypeInv => TypeOK
  BY DEF TypeInv
<1>. QED
  BY <1>1, TypeInvariant, PTL

-----------------------------------------------------------------------------
(* One fault, at any step.                                                 *)

Early == {"login", "relay", "newcert"} \cup Static   \* no signed document is touched yet

OfOne      == \A f, g \in Signed : file[f] > Empty /\ file[g] > Empty => file[f] = file[g]
NoneSigned == \A f \in Signed : file[f] = Absent
FromNonce  == \A f \in Signed : file[f] \in {Absent, Empty, nonce}

\* The certificate of this download is there, and its grant will be given; so
\* what is left to be written makes all three of one download.
Minted == bound /\ file["cert"] = nonce /\ (step = "perm" => file["key"] = nonce)

\* What the download has laid down by its step.
Laid == CASE step = "pca" -> {"ca"} [] step = "gov" -> {"ca", "pca"}
          [] step \in {"newcert", "key", "perm"} -> Static [] OTHER -> {}

NoFault ==
    IF pc # "fetch" THEN NoneSigned \/ Complete
    ELSE /\ \A f \in Laid : file[f] > Empty
         /\ IF step \in Early THEN NoneSigned ELSE FromNonce /\ Minted

OneFault ==
    IF pc # "fetch" \/ step \in Early THEN OfOne ELSE FromNonce \/ Minted

SingleInv == (faults = 0 => NoFault) /\ (faults <= 1 => OneFault)

LEMMA Steps ==
    /\ Signed = {"cert", "key", "perm"} /\ Static = {"ca", "pca", "gov"}
    /\ Early = {"login", "relay", "newcert", "ca", "pca", "gov"}
    /\ Signed \subseteq Files /\ Static \subseteq Files \ Signed
    /\ {"home", "relay"} \subseteq Files \ Signed
  BY DEF Signed, Static, Early, Files, Needed

\* A step that leaves at most one fault either is the first or is none itself.
LEMMA CountOnce ==
    ASSUME TypeInv, Faulty \/ Faultless
    PROVE  /\ faults' = 0 => faults = 0 /\ Faultless
           /\ faults' <= 1 => faults = 0 \/ (faults <= 1 /\ Faultless)
           /\ faults \in Nat /\ faults' \in Nat
  BY Levels DEF TypeInv, TypeOK, Faulty, Faultless

LEMMA NoneIsOne == NoneSigned \/ FromNonce => OfOne
  BY Levels DEF NoneSigned, FromNonce, OfOne

LEMMA FullIsOne == FromNonce' => OfOne'
  BY NoneIsOne, PTL

LEMMA SinglePrepare ==
    TypeInv /\ SingleInv /\ (LoadOptions \/ \E left \in SUBSET Files : Clean(left)) => SingleInv'
<1>. SUFFICES ASSUME TypeInv, SingleInv,
                     LoadOptions \/ \E left \in SUBSET Files : Clean(left)
              PROVE  SingleInv'
  OBVIOUS
<1>1. ASSUME Downloads, faults' = 0 => NoneSigned', faults' <= 1 => OfOne'
      PROVE  SingleInv'
  <2>1. pc' = "fetch" /\ step' = "login" /\ step' \in Early
    BY <1>1, Steps DEF Downloads
  <2>2. Laid' = {}
    BY <2>1 DEF Laid
  <2>. QED
    BY <1>1, <2>1, <2>2 DEF SingleInv, NoFault, OneFault
<1>2. CASE LoadOptions
  <2>1. pc = "down" /\ file' = file /\ faults' = faults
    BY <1>2 DEF LoadOptions, Faultless
  <2>2. (faults = 0 => NoneSigned \/ Complete) /\ (faults <= 1 => OfOne)
    BY <2>1 DEF SingleInv, NoFault, OneFault
  <2>3. CASE Downloads
    <3>1. ~Complete
      BY <1>2, <2>3 DEF LoadOptions, Downloads
    <3>. QED
      BY <1>1, <2>1, <2>2, <2>3, <3>1 DEF NoneSigned, OfOne
  <2>4. CASE ~Downloads
    <3>1. pc' \in {"clean", "judge"}
      BY <1>2, <2>4 DEF LoadOptions
    <3>. QED
      BY <2>1, <2>2, <3>1 DEF SingleInv, NoFault, OneFault, NoneSigned, Complete, OfOne
  <2>. QED
    BY <2>3, <2>4
<1>3. ASSUME NEW left \in SUBSET Files, Clean(left)
      PROVE  SingleInv'
  <2>1. /\ pc = "clean" /\ (Faulty \/ Faultless)
        /\ left # {} => Faulty
        /\ \A f \in Files : file'[f] = IF f \in left THEN file[f] ELSE Absent
        /\ Downloads \/ (left # {} /\ pc' = "down")
    BY <1>3 DEF Clean
  <2>2. faults <= 1 => OfOne
    BY <2>1 DEF SingleInv, OneFault
  <2>3. faults \in Nat /\ (left # {} => faults' = faults + 1) /\ (left = {} => faults' = faults)
    <3>1. faults \in Nat
      BY <2>1, CountOnce
    <3>. QED
      BY <1>3, <3>1 DEF Clean, Faulty, Faultless
  <2>4. faults' <= 1 => faults <= 1
    BY <2>3
  <2>5. \A f \in Signed : file'[f] = file[f] \/ file'[f] = Absent
    BY <2>1, Steps
  <2>6. faults' <= 1 => OfOne'
    BY <2>2, <2>4, <2>5, Levels DEF OfOne
  <2>7. faults' = 0 => left = {} /\ NoneSigned'
    BY <2>1, <2>3, Steps DEF NoneSigned
  <2>8. CASE Downloads
    BY <1>1, <2>6, <2>7, <2>8
  <2>9. CASE left # {} /\ pc' = "down"
    BY <2>6, <2>7, <2>9 DEF SingleInv, NoFault, OneFault
  <2>. QED
    BY <2>1, <2>8, <2>9
<1>. QED
  BY <1>2, <1>3

LEMMA SingleStart ==
    TypeInv /\ SingleInv /\ (Judge \/ AwaitIdentity \/ Main \/ Host \/ UNCHANGED vars)
    => SingleInv'
<1>. SUFFICES ASSUME TypeInv, SingleInv,
                     Judge \/ AwaitIdentity \/ Main \/ Host \/ UNCHANGED vars
              PROVE  SingleInv'
  OBVIOUS
<1>1. file' = file
  BY DEF Judge, AwaitIdentity, Main, Host, Sample, Watchdog, Stopped, ClockLost, ClockSet, vars
<1>2. (pc # "fetch" /\ pc' # "fetch") \/ (pc' = pc /\ UNCHANGED fetch)
  <2>1. CASE Judge \/ AwaitIdentity \/ Main
    BY <2>1 DEF Judge, AwaitIdentity, Main
  <2>2. CASE Host \/ UNCHANGED vars
    BY <2>2 DEF Host, Sample, Watchdog, Stopped, ClockLost, ClockSet, vars
  <2>. QED
    BY <2>1, <2>2
<1>3. (Faulty \/ Faultless)
  BY DEF Judge, UserBundle, CachedBundle, AwaitIdentity, Main, Host, Sample, Watchdog, Stopped,
         ClockLost, ClockSet, vars, Faultless
<1>4. (faults' = 0 => faults = 0) /\ (faults' <= 1 => faults <= 1)
  BY <1>3, CountOnce
<1>5. CASE pc # "fetch" /\ pc' # "fetch"
  BY <1>1, <1>4, <1>5 DEF SingleInv, NoFault, OneFault, NoneSigned, Complete, OfOne
<1>6. CASE pc' = pc /\ UNCHANGED fetch
  BY <1>1, <1>4, <1>6 DEF SingleInv, NoFault, OneFault, NoneSigned, Complete, OfOne, fetch, Laid,
                          FromNonce, Minted
<1>. QED
  BY <1>2, <1>5, <1>6

\* In front of the first signed document nothing of the kind can go wrong.
LEMMA SingleEarly ==
    ASSUME TypeInv, SingleInv, pc = "fetch", step \in Early, pc' = "fetch" => step' \in Early,
           Faulty \/ Faultless, \A f \in Signed : file'[f] = file[f] \/ file'[f] = Empty,
           Faultless => /\ \A f \in Signed : file'[f] = file[f]
                        /\ pc' = "fetch" => \A f \in Laid' : f \in Laid \/ file'[f] > Empty
                        /\ \A f \in Laid : file[f] > Empty => file'[f] > Empty
    PROVE  SingleInv'
<1>1. faults <= 1 => OfOne
  BY DEF SingleInv, OneFault
<1>2. faults = 0 => NoneSigned /\ \A f \in Laid : file[f] > Empty
  BY DEF SingleInv, NoFault
<1>3. faults' <= 1 => OfOne'
  BY <1>1, CountOnce, Levels DEF OfOne
<1>4. faults' = 0 => NoneSigned'
  BY <1>2, CountOnce DEF NoneSigned
<1>5. faults' = 0 /\ pc' = "fetch" => \A f \in Laid' : file'[f] > Empty
  BY <1>2, CountOnce
<1>. QED
  BY <1>3, <1>4, <1>5 DEF SingleInv, NoFault, OneFault

LEMMA SingleFetch == TypeInv /\ SingleInv /\ Downloader => SingleInv'
<1>. SUFFICES ASSUME TypeInv, SingleInv, Downloader PROVE SingleInv'
  OBVIOUS
<1>0. Documents /\ nonce \in Nonces /\ nonce \in Nat /\ nonce > Empty
  BY Levels DEF TypeInv, TypeOK
<1>1. CASE Login
  <2>1. pc = "fetch" /\ pc' = pc /\ step = "login" /\ step' = "relay" /\ (Faulty \/ Faultless)
    BY <1>1 DEF Login, Fetching, On
  <2>2. Write("home", Kept) \/ file' = file
    BY <1>1 DEF Login
  <2>3. \A f \in Signed : file'[f] = file[f]
    BY <1>0, <2>2, WriteTyped, Levels, Steps
  <2>4. Laid = {} /\ Laid' = {} /\ step \in Early /\ step' \in Early
    BY <2>1, Steps DEF Laid
  <2>. QED
    BY <2>1, <2>3, <2>4, SingleEarly
<1>2. CASE RelayJson
  <2>1. pc = "fetch" /\ step = "relay" /\ Faultless /\ (step' = "ca" \/ pc' = "judge")
    BY <1>2 DEF RelayJson, Fetching, On, Over
  <2>2. Write("relay", Kept) \/ file' = file
    BY <1>2 DEF RelayJson
  <2>3. \A f \in Signed : file'[f] = file[f]
    BY <1>0, <2>2, WriteTyped, Levels, Steps
  <2>4. Laid = {} /\ (pc' = "fetch" => Laid' = {} /\ step' \in Early) /\ step \in Early
    BY <2>1, Steps DEF Laid
  <2>. QED
    BY <2>1, <2>3, <2>4, SingleEarly
<1>3. ASSUME NEW d \in Static, StaticDoc(d)
      PROVE  SingleInv'
  <2>1. pc = "fetch" /\ pc' = pc /\ step = d /\ Faultless /\ Write(d, Kept)
        /\ step' = CASE d = "ca" -> "pca" [] d = "pca" -> "gov" [] OTHER -> "newcert"
    BY <1>3 DEF StaticDoc, Fetching, On
  <2>2. file'[d] = Kept /\ \A g \in Files : g # d => file'[g] = file[g]
    BY <1>0, <2>1, WriteTyped, Levels, Steps
  <2>3. /\ step \in Early /\ step' \in Early
        /\ Laid' = Laid \cup {d} /\ Laid \subseteq Static
    BY <2>1, Steps DEF Laid
  <2>4. \A f \in Laid' : f \in Laid \/ file'[f] > Empty
    BY <2>2, <2>3, Levels
  <2>5. \A f \in Laid : file[f] > Empty => file'[f] > Empty
    BY <2>2, <2>3, Levels, Steps
  <2>6. \A f \in Signed : file'[f] = file[f]
    BY <2>2, Levels, Steps
  <2>. QED
    BY <2>1, <2>3, <2>4, <2>5, <2>6, SingleEarly
<1>4. CASE NewCert
  <2>1. PICK got \in SUBSET {"cert", "key"} :
        /\ IF got = {"cert", "key"} THEN Faultless ELSE Faulty
        /\ bound' \in IF got = {} THEN BOOLEAN ELSE {TRUE}
        /\ IF "cert" \in got THEN Write("cert", nonce) /\ ahead' = lag
                             ELSE UNCHANGED <<file, ahead>>
        /\ step' = IF "key" \in got THEN "key" ELSE "perm"
    BY <1>4 DEF NewCert
  <2>2. pc = "fetch" /\ pc' = pc /\ step = "newcert" /\ nonce' = nonce
    BY <1>4 DEF NewCert, Fetching
  <2>3. /\ file'["cert"] = IF "cert" \in got THEN nonce ELSE file["cert"]
        /\ \A g \in Files : g # "cert" => file'[g] = file[g]
    <3>1. CASE "cert" \in got
      BY <1>0, <2>1, <3>1, WriteTyped, Levels
    <3>2. CASE "cert" \notin got
      BY <2>1, <3>2
    <3>. QED
      BY <3>1, <3>2
  <2>4. step \in Early /\ step' \notin Early /\ Laid = Static /\ Laid' = Static
    BY <2>1, <2>2, Steps DEF Laid
  <2>5. (faults = 0 => NoneSigned /\ \A f \in Static : file[f] > Empty) /\ (faults <= 1 => OfOne)
    BY <2>2, <2>4 DEF SingleInv, NoFault, OneFault
  <2>6. \A f \in Static : file[f] > Empty => file'[f] > Empty
    BY <2>3, Steps
  <2>7. NoneSigned => FromNonce'
    BY <2>2, <2>3, Steps, Zenon DEF NoneSigned, FromNonce
  <2>8. got = {"cert", "key"} => Minted'
    BY <2>1, <2>2, <2>3 DEF Minted
  <2>9. Faultless => got = {"cert", "key"}
    <3>1. faults \in Nat
      BY Levels DEF TypeInv, TypeOK
    <3>. QED
      BY <2>1, <3>1 DEF Faulty, Faultless
  <2>10. Faulty \/ Faultless
    BY <2>1
  <2>11. faults' = 0 => NoFault'
    <3>1. faults' = 0 => /\ \A f \in Static : file'[f] > Empty
                         /\ FromNonce' /\ Minted'
      BY <2>5, <2>6, <2>7, <2>8, <2>9, <2>10, CountOnce
    <3>. QED
      BY <2>2, <2>4, <3>1 DEF NoFault
  <2>12. faults' <= 1 => OneFault'
    BY <2>2, <2>4, <2>5, <2>7, <2>8, <2>9, <2>10, CountOnce DEF OneFault
  <2>. QED
    BY <2>11, <2>12 DEF SingleInv
<1>5. CASE PrivateKey
  <2>1. pc = "fetch" /\ pc' = pc /\ step = "key" /\ step' = "perm" /\ bound' = bound
        /\ nonce' = nonce /\ faults' = faults /\ Write("key", nonce)
    BY <1>5 DEF PrivateKey, Fetching, On, Faultless
  <2>2. file'["key"] = nonce /\ \A g \in Files : g # "key" => file'[g] = file[g]
    BY <1>0, <2>1, WriteTyped, Levels
  <2>3. Laid = Static /\ Laid' = Static /\ step \notin Early /\ step' \notin Early
    BY <2>1, Steps DEF Laid
  <2>4. (FromNonce => FromNonce') /\ (Minted => Minted')
    BY <2>1, <2>2, Steps DEF FromNonce, Minted
  <2>5. \A f \in Static : file'[f] = file[f]
    BY <2>2, Steps
  <2>. QED
    BY <2>1, <2>3, <2>4, <2>5 DEF SingleInv, NoFault, OneFault
<1>6. CASE Permissions
  <2>1. pc = "fetch" /\ pc' = "judge" /\ step = "perm" /\ nonce' = nonce
        /\ (Faulty \/ Faultless)
        /\ ((bound /\ Write("perm", nonce) /\ Faultless) \/ file' = file)
        /\ (bound /\ Faultless => Write("perm", nonce))
    <3>1. faults \in Nat
      BY Levels DEF TypeInv, TypeOK
    <3>. QED
      BY <1>6, <3>1 DEF Permissions, Fetching, Over, Faulty, Faultless
  <2>2. Laid = Static /\ step \notin Early
    BY <2>1, Steps DEF Laid
  <2>3. (faults = 0 => FromNonce /\ Minted /\ \A f \in Static : file[f] > Empty)
        /\ (faults <= 1 => FromNonce \/ Minted)
    BY <2>1, <2>2 DEF SingleInv, NoFault, OneFault
  <2>4. CASE bound /\ Write("perm", nonce) /\ Faultless
    <3>1. file'["perm"] = nonce /\ \A g \in Files : g # "perm" => file'[g] = file[g]
      BY <1>0, <2>4, WriteTyped, Levels
    <3>2. FromNonce => FromNonce'
      BY <2>1, <3>1, Steps DEF FromNonce
    <3>3. Minted => FromNonce' /\ \A f \in Signed : file'[f] = nonce
      BY <2>1, <3>1, Steps DEF Minted, FromNonce
    <3>4. \A f \in Static : file'[f] = file[f]
      BY <3>1, Steps
    <3>5. faults' = 0 => Complete'
      <4>1. Needed = Static \cup Signed
        BY DEF Needed
      <4>. QED
        BY <1>0, <2>3, <2>4, <3>3, <3>4, <4>1 DEF Complete, Faultless
    <3>. QED
      BY <2>1, <2>3, <2>4, <3>2, <3>3, <3>5, FullIsOne DEF SingleInv, NoFault, OneFault, Faultless
  <2>5. CASE file' = file /\ ~(bound /\ Faultless)
    <3>1. faults' # 0
      BY <2>1, <2>3, <2>5, CountOnce DEF Minted
    <3>2. faults' <= 1 => FromNonce
      BY <2>1, <2>3, <2>5, CountOnce DEF Minted
    <3>3. faults' <= 1 => OfOne'
      BY <2>1, <2>5, <3>2, FullIsOne DEF FromNonce
    <3>. QED
      BY <2>1, <3>1, <3>3 DEF SingleInv, OneFault
  <2>. QED
    BY <2>1, <2>4, <2>5
<1>7. CASE CutShort
  <2>1. pc = "fetch" /\ pc' \in {"judge", "down"} /\ Faulty
    BY <1>7 DEF CutShort
  <2>2. faults \in Nat /\ faults' = faults + 1
    <3>1. faults \in Nat
      BY Levels DEF TypeInv, TypeOK
    <3>. QED
      BY <2>1, <3>1 DEF Faulty
  <2>3. faults = 0 => OfOne
    BY <2>1, NoneIsOne DEF SingleInv, NoFault
  <2>4. Target \subseteq Files
    BY DEF TypeInv, TypeOK, Target, Static, Signed, Files, Needed
  <2>5. \A f \in Signed : file'[f] = file[f] \/ file'[f] = Empty
    <3>1. CASE file' = file
      BY <3>1
    <3>2. ASSUME NEW d \in Target, Write(d, Empty)
          PROVE  \A f \in Signed : file'[f] = file[f] \/ file'[f] = Empty
      BY <1>0, <2>4, <3>2, WriteTyped, Levels
    <3>. QED
      BY <1>7, <3>1, <3>2 DEF CutShort
  <2>6. faults = 0 => OfOne'
    BY <2>3, <2>5, Levels DEF OfOne
  <2>. QED
    BY <2>1, <2>2, <2>6 DEF SingleInv, OneFault
<1>. QED
  BY <1>1, <1>2, <1>3, <1>4, <1>5, <1>6, <1>7 DEF Downloader

\* Whatever single step fails, and wherever it is cut: a complete cache holds the
\* certificate, the key and the permissions of one download.
THEOREM OneFaultIsHarmless == Spec => []SingleFaultNeverMixes
<1>1. Init => SingleInv
  BY Steps DEF Init, SingleInv, NoFault, OneFault, NoneSigned, OfOne, Absent, Empty
<1>2. TypeInv /\ SingleInv /\ [Next]_vars => SingleInv'
  BY SinglePrepare, SingleStart, SingleFetch DEF Next, Boot
<1>3. TypeInv /\ SingleInv => SingleFaultNeverMixes
  <2>. SUFFICES ASSUME TypeInv, SingleInv, Mixed, pc # "fetch" PROVE faults > 1
    BY DEF SingleFaultNeverMixes
  <2>1. ~OfOne
    BY Steps, Levels DEF Mixed, OfOne
  <2>2. faults \in Nat
    BY Levels DEF TypeInv, TypeOK
  <2>. QED
    BY <2>1, <2>2 DEF SingleInv, OneFault
<1>. QED
  BY <1>1, <1>2, <1>3, TypeInvariant, PTL DEF Spec

-----------------------------------------------------------------------------
(* Two faults, after samples have come with the cached bundle.             *)

\* What a download without a fault has laid down by its step.
Ready == CASE step = "login" -> {} [] step \in {"relay", "ca"} -> {"home"}
           [] step = "pca" -> {"home", "ca"} [] step = "gov" -> {"home", "ca", "pca"}
           [] step = "newcert" -> {"home"} \cup Static
           [] step = "key" -> {"home", "cert"} \cup Static
           [] OTHER -> {"home", "cert", "key"} \cup Static

\* The partition of the cache is that of the home it names.
CachedUse ==
    pc \in {"await", "main", "launched"} /\ secdir = "cache" =>
        opts.creds /\ (partition => file["home"] > Empty)

\* The first fault stops the bridge, the second one takes the clock, and only then
\* the cache is emptied: there is none left to spoil the download.
Spared ==
    /\ opts.creds
    /\ pc # "fetch" => Complete /\ file["home"] > Empty
    /\ pc = "fetch" => /\ file["relay"] # Empty /\ \A f \in Ready : file[f] > Empty
                       /\ step \in {"key", "perm"} => bound
    /\ pc \in {"await", "main", "launched"} => secdir = "cache"
    /\ faults = 0 => pc = "launched" /\ beat
    /\ faults <= 1 => ahead = 0 /\ pc \notin {"clean", "fetch"}

KeepInv == CachedUse /\ (had /\ faults <= 2 => Spared)

\* Steps that touch no document.
LEMMA KeepElsewhere ==
    TypeInv /\ KeepInv /\ (Judge \/ AwaitIdentity \/ Main \/ Host \/ UNCHANGED vars) => KeepInv'
<1>. SUFFICES ASSUME TypeInv, KeepInv, Judge \/ AwaitIdentity \/ Main \/ Host \/ UNCHANGED vars
              PROVE  KeepInv'
  OBVIOUS
<1>0. /\ CachedUse /\ (had /\ faults <= 2 => Spared) /\ faults \in Nat
      /\ ahead \in Nat /\ had \in BOOLEAN
  BY Levels, LagsAreNumbers DEF KeepInv, TypeInv, TypeOK
<1>1. file' = file /\ opts' = opts
  BY DEF Judge, AwaitIdentity, Main, Host, Sample, Watchdog, Stopped, ClockLost, ClockSet, vars
<1>2. CASE Judge
  <2>1. /\ pc = "judge" /\ pc' = "await" /\ ahead' = ahead /\ had' = had /\ beat' = beat
        /\ IF opts.creds /\ Complete THEN CachedBundle ELSE UserBundle
    BY <1>2 DEF Judge
  <2>2. faults' = faults \/ faults' = faults + 1
    BY <2>1 DEF CachedBundle, UserBundle, Faulty, Faultless
  <2>3. secdir' = "cache" => opts.creds /\ Complete /\ partition' = (file["home"] > Empty)
    BY <2>1 DEF CachedBundle, UserBundle
  <2>4. CachedUse'
    BY <1>1, <2>3 DEF CachedUse
  <2>5. ASSUME had', faults' <= 2
        PROVE  Spared'
    <3>1. Spared /\ opts.creds /\ Complete /\ faults # 0 /\ secdir' = "cache" /\ faults' = faults
      BY <1>0, <2>1, <2>2, <2>5 DEF Spared, CachedBundle, Faultless
    <3>. QED
      BY <1>1, <2>1, <3>1 DEF Spared, Complete
  <2>. QED
    BY <2>4, <2>5 DEF KeepInv
<1>3. CASE AwaitIdentity
  <2>1. /\ pc = "await" /\ pc' = "main" /\ had' = had /\ beat' = beat /\ faults' = faults
        /\ secdir' = secdir /\ partition' = partition /\ ahead' \in {0, ahead}
    BY <1>3 DEF AwaitIdentity, env, Faultless
  <2>. QED
    BY <1>0, <1>1, <2>1 DEF KeepInv, CachedUse, Spared, Complete
<1>4. CASE Main
  <2>1. /\ pc = "main" /\ pc' \in {"launched", "down"} /\ had' = had /\ faults' = faults
        /\ secdir' = secdir /\ partition' = partition /\ ahead' = ahead
    BY <1>4 DEF Main, env, Faultless
  <2>. QED
    BY <1>0, <1>1, <2>1 DEF KeepInv, CachedUse, Spared, Complete
<1>5. CASE Sample
  <2>1. /\ pc = "launched" /\ Works /\ beat' = TRUE /\ had' = (had \/ secdir = "cache")
        /\ pc' = pc /\ ahead' = ahead /\ faults' = faults
        /\ secdir' = secdir /\ partition' = partition
    BY <1>5 DEF Sample, env, Faultless
  <2>2. CachedUse'
    BY <1>0, <1>1, <2>1 DEF CachedUse
  <2>3. ASSUME secdir = "cache"
        PROVE  Spared'
    <3>1. opts.creds /\ Complete /\ file["home"] > Empty /\ ahead = 0
      BY <1>0, <2>1, <2>3 DEF CachedUse, Works, Complete
    <3>. QED
      BY <1>1, <2>1, <2>3, <3>1 DEF Spared, Complete
  <2>4. ASSUME had, faults <= 2
        PROVE  Spared'
    BY <1>0, <1>1, <2>1, <2>4 DEF Spared, Complete
  <2>. QED
    BY <2>1, <2>2, <2>3, <2>4 DEF KeepInv
<1>6. CASE Watchdog
  <2>1. /\ ~beat /\ pc' = "down" /\ pc \in {"launched", "await"} /\ ahead' = ahead
        /\ had' = had /\ faults' = faults
    BY <1>6 DEF Watchdog, Faultless
  <2>. QED
    BY <1>0, <1>1, <2>1 DEF KeepInv, CachedUse, Spared, Complete
<1>7. CASE Stopped
  <2>1. /\ pc \notin {"clean", "fetch"} /\ pc' = "down" /\ ahead' = ahead
        /\ had' = had /\ faults' = faults + 1
    BY <1>7 DEF Stopped, Faulty
  <2>2. CachedUse'
    BY <2>1 DEF CachedUse
  <2>3. ASSUME had', faults' <= 2
        PROVE  Spared'
    <3>1. Spared /\ faults <= 1 /\ faults' # 0
      BY <1>0, <2>1, <2>3
    <3>. QED
      BY <1>1, <2>1, <3>1 DEF Spared, Complete
  <2>. QED
    BY <2>2, <2>3 DEF KeepInv
<1>8. CASE ClockLost
  <2>1. pc = "down" /\ pc' = "down" /\ had' = had /\ faults' = faults + 1
    BY <1>8 DEF ClockLost, Faulty
  <2>2. CachedUse'
    BY <2>1 DEF CachedUse
  <2>3. ASSUME had', faults' <= 2
        PROVE  Spared'
    <3>1. Spared /\ faults <= 1 /\ faults # 0 /\ faults' = 2
      <4>1. Spared /\ faults <= 1
        BY <1>0, <2>1, <2>3
      <4>2. faults # 0
        BY <2>1, <4>1 DEF Spared
      <4>. QED
        BY <1>0, <2>1, <4>1, <4>2
    <3>. QED
      BY <1>1, <2>1, <3>1 DEF Spared, Complete
  <2>. QED
    BY <2>2, <2>3 DEF KeepInv
<1>9. CASE ClockSet
  <2>1. /\ ahead' = 0 /\ pc' = pc /\ UNCHANGED fetch /\ had' = had /\ beat' = beat
        /\ faults' = faults /\ secdir' = secdir /\ partition' = partition
    BY <1>9 DEF ClockSet, env, Faultless
  <2>. QED
    BY <1>0, <1>1, <2>1 DEF KeepInv, CachedUse, Spared, Complete, fetch, Ready
<1>10. CASE UNCHANGED vars
  BY <1>0, <1>10 DEF vars, env, fetch, KeepInv, CachedUse, Spared, Complete, Ready
<1>. QED
  BY <1>2, <1>3, <1>4, <1>5, <1>6, <1>7, <1>8, <1>9, <1>10 DEF Host

LEMMA KeepPrepare ==
    TypeInv /\ KeepInv /\ (LoadOptions \/ \E left \in SUBSET Files : Clean(left)) => KeepInv'
<1>. SUFFICES ASSUME TypeInv, KeepInv,
                     LoadOptions \/ \E left \in SUBSET Files : Clean(left)
              PROVE  KeepInv'
  OBVIOUS
<1>0. CachedUse /\ (had /\ faults <= 2 => Spared) /\ faults \in Nat /\ ahead \in Nat
  BY Levels, LagsAreNumbers DEF KeepInv, TypeInv, TypeOK
<1>1. CASE LoadOptions
  <2>1. /\ pc = "down" /\ ahead' \in 0..ahead /\ UNCHANGED <<file, opts, had, faults>>
        /\ pc' \in {"clean", "fetch", "judge"}
        /\ pc' = "fetch" => ~Complete
        /\ pc' = "clean" => ahead' > Minute
    <3>1. Minute \in Nat /\ (ahead' \in 0..ahead => ahead' \in Nat)
      BY <1>0 DEF Minute
    <3>. QED
      BY <1>1, <3>1 DEF LoadOptions, Downloads, Faultless, Minute
  <2>2. CachedUse'
    BY <2>1 DEF CachedUse
  <2>3. ASSUME had', faults' <= 2
        PROVE  Spared'
    <3>1. Spared /\ pc' \in {"clean", "judge"} /\ faults # 0
      BY <1>0, <2>1, <2>3 DEF Spared
    <3>2. faults <= 1 => ahead' = 0 /\ pc' # "clean"
      BY <2>1, <3>1 DEF Spared, Minute
    <3>. QED
      BY <2>1, <3>1, <3>2 DEF Spared, Complete
  <2>. QED
    BY <2>2, <2>3 DEF KeepInv
<1>2. ASSUME NEW left \in SUBSET Files, Clean(left)
      PROVE  KeepInv'
  <2>1. /\ pc = "clean" /\ UNCHANGED <<opts, had>>
        /\ left # {} => faults' = faults + 1
        /\ left = {} => faults' = faults /\ Downloads
        /\ \A f \in Files : file'[f] = IF f \in left THEN file[f] ELSE Absent
        /\ pc' \in {"fetch", "down"}
    BY <1>2 DEF Clean, Downloads, Faulty, Faultless
  <2>2. CachedUse'
    BY <2>1 DEF CachedUse
  <2>3. ASSUME had', faults' <= 2
        PROVE  Spared'
    <3>1. Spared /\ ~(faults <= 1)
      BY <1>0, <2>1, <2>3 DEF Spared
    <3>2. left = {} /\ faults' = faults /\ pc' = "fetch" /\ step' = "login"
      BY <1>0, <2>1, <2>3, <3>1 DEF Downloads
    <3>3. Ready' = {} /\ file'["relay"] = Absent
      BY <2>1, <3>2, Steps DEF Ready
    <3>4. ~(faults' <= 1) /\ faults' # 0
      BY <1>0, <3>1, <3>2
    <3>. QED
      BY <2>1, <3>1, <3>2, <3>3, <3>4, Levels DEF Spared
  <2>. QED
    BY <2>2, <2>3 DEF KeepInv
<1>. QED
  BY <1>1, <1>2

LEMMA KeepFetch == TypeInv /\ KeepInv /\ Downloader => KeepInv'
<1>. SUFFICES ASSUME TypeInv, KeepInv, Downloader PROVE KeepInv'
  OBVIOUS
<1>0. /\ CachedUse /\ (had /\ faults <= 2 => Spared) /\ faults \in Nat
      /\ Documents /\ nonce \in Nonces /\ nonce \in Nat /\ nonce > Empty
  BY Levels DEF KeepInv, TypeInv, TypeOK
<1>1. DownloadStep
  BY DownloadSteps
<1>2. pc = "fetch" /\ pc' \in {"fetch", "judge", "down"} /\ UNCHANGED <<opts, had>>
  BY <1>1 DEF DownloadStep
<1>3. CachedUse'
  BY <1>2 DEF CachedUse
<1>4. ASSUME had', faults' <= 2
      PROVE  Faultless /\ Spared /\ faults' = 2 /\ file["relay"] # Empty
             /\ (\A f \in Ready : file[f] > Empty) /\ (step \in {"key", "perm"} => bound)
  <2>1. Faulty \/ Faultless
    BY <1>1 DEF DownloadStep
  <2>2. faults \in Nat /\ faults <= 2
    BY <1>0, <1>4, <2>1 DEF Faulty, Faultless
  <2>3. Spared
    BY <1>0, <1>2, <1>4, <2>2
  <2>4. ~(faults <= 1)
    BY <1>2, <2>3 DEF Spared
  <2>5. Faultless /\ faults' = 2
    BY <1>4, <2>1, <2>2, <2>4 DEF Faulty, Faultless
  <2>. QED
    BY <1>2, <2>3, <2>5 DEF Spared
<1>5. ASSUME had', faults' <= 2, pc' = "fetch", file'["relay"] # Empty,
             \A f \in Ready' : file'[f] > Empty, step' \in {"key", "perm"} => bound'
      PROVE  Spared'
  BY <1>2, <1>4, <1>5 DEF Spared
<1>6. SUFFICES ASSUME had', faults' <= 2 PROVE Spared'
  BY <1>3 DEF KeepInv
<1>7. CASE Login
  <2>1. /\ step = "login" /\ step' = "relay" /\ pc' = "fetch"
        /\ Write("home", Kept) \/ Faulty
    BY <1>2, <1>7 DEF Login, Fetching, On
  <2>2. Write("home", Kept)
    BY <1>0, <1>4, <1>6, <2>1 DEF Faulty, Faultless
  <2>3. file'["home"] = Kept /\ file'["relay"] = file["relay"]
    BY <1>0, <2>2, WriteTyped, Levels
  <2>4. Ready' = {"home"}
    BY <2>1 DEF Ready
  <2>. QED
    BY <1>4, <1>5, <1>6, <2>1, <2>3, <2>4, Levels
<1>8. CASE RelayJson
  <2>1. file["relay"] # Empty
    BY <1>4, <1>6
  <2>2. /\ step = "relay" /\ step' = "ca" /\ pc' = "fetch"
        /\ Write("relay", Kept) \/ file' = file
    BY <1>2, <1>8, <2>1 DEF RelayJson, Fetching, On
  <2>3. file'["home"] = file["home"] /\ (file'["relay"] = Kept \/ file'["relay"] = file["relay"])
    BY <1>0, <2>2, WriteTyped, Levels
  <2>4. Ready = {"home"} /\ Ready' = {"home"}
    BY <2>2 DEF Ready
  <2>. QED
    BY <1>4, <1>5, <1>6, <2>1, <2>2, <2>3, <2>4, Levels
<1>9. ASSUME NEW d \in Static, StaticDoc(d)
      PROVE  Spared'
  <2>1. /\ step = d /\ pc' = "fetch" /\ Write(d, Kept)
        /\ step' = CASE d = "ca" -> "pca" [] d = "pca" -> "gov" [] OTHER -> "newcert"
    BY <1>2, <1>9 DEF StaticDoc, Fetching, On
  <2>2. file'[d] = Kept /\ \A g \in Files : g # d => file'[g] = file[g]
    BY <1>0, <2>1, WriteTyped, Levels, Steps
  <2>3. Ready' = Ready \cup {d} /\ Ready \subseteq Files /\ step' \notin {"key", "perm"}
    BY <2>1, Steps DEF Ready
  <2>4. file'["relay"] = file["relay"]
    BY <2>2, Steps
  <2>5. \A f \in Ready' : file'[f] > Empty
    BY <1>4, <1>6, <2>2, <2>3, Levels
  <2>. QED
    BY <1>4, <1>5, <1>6, <2>1, <2>3, <2>4, <2>5
<1>10. CASE NewCert
  <2>1. /\ step = "newcert" /\ pc' = "fetch" /\ step' = "key" /\ bound' = TRUE
        /\ Write("cert", nonce)
    <3>1. PICK got \in SUBSET {"cert", "key"} :
          /\ IF got = {"cert", "key"} THEN Faultless ELSE Faulty
          /\ bound' \in IF got = {} THEN BOOLEAN ELSE {TRUE}
          /\ IF "cert" \in got THEN Write("cert", nonce) /\ ahead' = lag
                               ELSE UNCHANGED <<file, ahead>>
          /\ step' = IF "key" \in got THEN "key" ELSE "perm"
      BY <1>10 DEF NewCert
    <3>2. got = {"cert", "key"}
      BY <1>0, <1>4, <1>6, <3>1 DEF Faulty, Faultless
    <3>. QED
      BY <1>2, <1>10, <3>1, <3>2 DEF NewCert, Fetching
  <2>2. file'["cert"] = nonce /\ \A g \in Files : g # "cert" => file'[g] = file[g]
    BY <1>0, <2>1, WriteTyped, Levels
  <2>3. Ready' = Ready \cup {"cert"} /\ Ready \subseteq Files
    BY <2>1, Steps DEF Ready
  <2>4. file'["relay"] = file["relay"]
    BY <2>2, Steps
  <2>5. \A f \in Ready' : file'[f] > Empty
    BY <1>0, <1>4, <1>6, <2>2, <2>3
  <2>. QED
    BY <1>4, <1>5, <1>6, <2>1, <2>4, <2>5
<1>11. CASE PrivateKey
  <2>1. step = "key" /\ pc' = "fetch" /\ step' = "perm" /\ bound' = bound /\ Write("key", nonce)
    BY <1>2, <1>11 DEF PrivateKey, Fetching, On
  <2>2. file'["key"] = nonce /\ \A g \in Files : g # "key" => file'[g] = file[g]
    BY <1>0, <2>1, WriteTyped, Levels
  <2>3. Ready' = Ready \cup {"key"} /\ Ready \subseteq Files
    BY <2>1, Steps DEF Ready
  <2>4. file'["relay"] = file["relay"]
    BY <2>2, Steps
  <2>5. \A f \in Ready' : file'[f] > Empty
    BY <1>0, <1>4, <1>6, <2>2, <2>3
  <2>. QED
    BY <1>4, <1>5, <1>6, <2>1, <2>4, <2>5
<1>12. CASE Permissions
  <2>1. step = "perm" /\ pc' = "judge" /\ bound
    BY <1>4, <1>6, <1>12 DEF Permissions, Fetching, Over
  <2>2. Write("perm", nonce)
    BY <1>0, <1>4, <1>6, <1>12, <2>1 DEF Permissions, Faulty, Faultless
  <2>3. file'["perm"] = nonce /\ \A g \in Files : g # "perm" => file'[g] = file[g]
    BY <1>0, <2>2, WriteTyped, Levels
  <2>4. Ready = {"home", "cert", "key"} \cup Static
    BY <2>1 DEF Ready
  <2>5. Needed = Static \cup {"cert", "key", "perm"}
    BY DEF Needed, Signed
  <2>6. Complete' /\ file'["home"] > Empty
    BY <1>0, <1>4, <1>6, <2>3, <2>4, <2>5, Steps DEF Complete
  <2>. QED
    BY <1>2, <1>4, <1>6, <2>1, <2>6 DEF Spared
<1>13. CASE CutShort
  BY <1>0, <1>4, <1>6, <1>13 DEF CutShort, Faulty, Faultless
<1>. QED
  BY <1>7, <1>8, <1>9, <1>10, <1>11, <1>12, <1>13 DEF Downloader

\* No two failures lose a bundle that samples have come with.
THEOREM TwoFaultsAreSurvived == Spec => []TwoFaultsKeepCache
<1>1. Init => KeepInv
  BY DEF Init, KeepInv, CachedUse
<1>2. TypeInv /\ KeepInv /\ [Next]_vars => KeepInv'
  BY KeepElsewhere, KeepPrepare, KeepFetch DEF Next, Boot
<1>3. KeepInv => TwoFaultsKeepCache
  BY DEF KeepInv, Spared, TwoFaultsKeepCache
<1>. QED
  BY <1>1, <1>2, <1>3, TypeInvariant, PTL DEF Spec

=============================================================================
