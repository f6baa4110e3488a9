------------------------------- MODULE AddOnBoot -------------------------------
(***************************************************************************)
(* How the add-on comes to its DDS-Security bundle: _load_addon_options,   *)
(* await_identity_valid and main of bridge_server.py, the downloader it    *)
(* runs (fetch_security_docs.py over m30_prod4.py), and the health check   *)
(* by which the Supervisor's watchdog restarts it.                         *)
(*                                                                         *)
(* Only /data/security outlives a restart.  What the Lennox cloud signs    *)
(* belongs together only within one download, under one nonce, so the      *)
(* content of such a document is the nonce of its download.  Times are     *)
(* classes of lags behind the clock that dates the certificates.           *)
(***************************************************************************)
EXTENDS Naturals, FiniteSets

CONSTANTS
    Options,     \* the add-on options users have
    MaxFaults    \* bound: steps that fail, restarts unasked for, clocks lost

ASSUME BootAssumption ==
    /\ MaxFaults \in Nat
    /\ Options \subseteq [creds : BOOLEAN, home : BOOLEAN, bundle : {"none", "plain", "b64"}]

VARIABLES
    pc,         \* where the container is
    step,       \* where the downloader is
    file,       \* file[f]: what /data/security holds of document f
    nonce,      \* of this download
    bound,      \* the cloud has minted an identity for nonce
    lag,        \* how far the clock is behind the issuer's
    ahead,      \* how far the notBefore of identity.pem is in the future
    opts,       \* /data/options.json
    secdir,     \* LENNOX_SECURITY_DIR
    partition,  \* LENNOX_PARTITION is set
    beat,       \* the heartbeat file is fresh
    had,        \* history: samples have come with the cached bundle
    faults      \* so far

fetch == <<step, nonce, bound>>
env   == <<secdir, partition>>
vars  == <<pc, fetch, file, ahead, lag, opts, env, beat, had, faults>>

-----------------------------------------------------------------------------
Static == {"ca", "pca", "gov"}      \* the same whoever downloads them
Signed == {"cert", "key", "perm"}   \* identity.pem, identity.key, permissions.xml.p7s
Needed == Static \cup Signed
Files  == Needed \cup {"home", "relay"}

Absent == 0
Empty  == 1        \* created, and cut off before it was written
Kept   == 2
Nonces == 2..5     \* a download's nonce is in no file of an earlier one

Lags   == 0..4
Minute == 1        \* more than 0, up to the 60 s of _provision_from_creds
Probes == 2        \* up to what the health check waits for a first sample
Quarter == 3       \* up to the 900 s of await_identity_valid

M_WithoutPermissions == \A f \in Needed \ {"perm"} : file[f] > Empty

\* _bundle_complete: every document is there and has more than no bytes.
Complete == \A f \in Needed : file[f] > Empty

Mixed == /\ \A f \in Needed : file[f] > Empty
         /\ ~(file["cert"] = file["key"] /\ file["key"] = file["perm"])

\* What the participant can join the relay with.
Works == /\ partition
         /\ CASE secdir = "cache" -> /\ \A f \in Needed : file[f] > Empty
                                     /\ ~Mixed /\ ahead = 0
              [] OTHER            -> secdir \in {"user", "runtime"}

Faulty   == faults < MaxFaults /\ faults' = faults + 1
Faultless == UNCHANGED faults

-----------------------------------------------------------------------------
(* _load_addon_options and _provision_from_creds.                          *)

\* gen_nonce: one of no earlier download.
FreshNonce == CHOOSE n \in Nonces : /\ \A f \in Signed : file[f] # n
                                    /\ \A m \in Nonces : m < n => \E f \in Signed : file[f] = m

Downloads ==
    /\ pc' = "fetch" /\ step' = "login" /\ bound' = FALSE
    /\ nonce' = FreshNonce

M_MintsAtEveryStart ==
    /\ pc = "down"
    /\ ahead' \in 0..ahead
    /\ IF opts.creds
       THEN IF Complete THEN pc' = "clean" /\ UNCHANGED fetch ELSE Downloads
       ELSE pc' = "judge" /\ UNCHANGED fetch
    /\ UNCHANGED <<file, lag, opts, env, beat, had>> /\ Faultless

\* The container starts; a certificate comes of age while it is down.
LoadOptions ==
    /\ pc = "down"
    /\ ahead' \in 0..ahead
    /\ IF opts.creds /\ ~(Complete /\ ahead' <= Minute)
       THEN IF Complete THEN pc' = "clean" /\ UNCHANGED fetch ELSE Downloads
       ELSE pc' = "judge" /\ UNCHANGED fetch
    /\ UNCHANGED <<file, lag, opts, env, beat, had>> /\ Faultless

\* An identity in the future: the cache is emptied, document by document; some
\* cannot be removed, or the container ends before they are.
Clean(left) ==
    /\ pc = "clean"
    /\ IF left = {} THEN Faultless ELSE Faulty
    /\ file' = [f \in Files |-> IF f \in left THEN file[f] ELSE Absent]
    /\ ahead' = IF "cert" \in left THEN ahead ELSE 0
    /\ \/ Downloads
       \/ left # {} /\ pc' = "down" /\ UNCHANGED fetch
    /\ UNCHANGED <<lag, opts, env, beat, had>>

-----------------------------------------------------------------------------
(* fetch_security_docs.py, one action per document.                        *)

Fetching(s) ==
    /\ pc = "fetch" /\ step = s
    /\ UNCHANGED <<nonce, lag, opts, env, beat, had>>

Over == pc' = "judge" /\ UNCHANGED <<step, bound>>

On(s) == step' = s /\ UNCHANGED <<pc, bound>>

Write(f, content) == file' = [file EXCEPT ![f] = content]

\* authenticate, login, registerLCCOwner; the account may list no system.
Login ==
    /\ Fetching("login") /\ On("relay")
    /\ \/ Write("home", Kept) /\ Faultless
       \/ Faulty /\ UNCHANGED file
    /\ UNCHANGED ahead

\* An answer other than 200 is expected here: an older relay.json will do, and
\* so will none, but one that json.loads refuses ends the download.
RelayJson ==
    /\ Fetching("relay") /\ Faultless /\ UNCHANGED ahead
    /\ \/ Write("relay", Kept) /\ On("ca")
       \/ file["relay"] # Empty /\ On("ca") /\ UNCHANGED file
       \/ file["relay"] = Empty /\ Over /\ UNCHANGED file

StaticDoc(f) ==
    /\ Fetching(f)
    /\ Write(f, Kept)
    /\ On(CASE f = "ca" -> "pca" [] f = "pca" -> "gov" [] OTHER -> "newcert")
    /\ Faultless /\ UNCHANGED ahead

\* newcert: both halves, or one of them, or an error that is only printed -
\* behind which the cloud may or may not have minted the identity.
NewCert ==
    /\ Fetching("newcert") /\ UNCHANGED pc
    /\ \E got \in SUBSET {"cert", "key"} :
        /\ IF got = {"cert", "key"} THEN Faultless ELSE Faulty
        /\ bound' \in IF got = {} THEN BOOLEAN ELSE {TRUE}
        /\ IF "cert" \in got THEN Write("cert", nonce) /\ ahead' = lag
                             ELSE UNCHANGED <<file, ahead>>
        /\ step' = IF "key" \in got THEN "key" ELSE "perm"

M_KeyKept ==
    /\ Fetching("key") /\ On("perm")
    /\ Write("key", IF file["key"] > Empty THEN file["key"] ELSE nonce)
    /\ Faultless /\ UNCHANGED ahead

PrivateKey ==
    /\ Fetching("key") /\ On("perm")
    /\ Write("key", nonce)
    /\ Faultless /\ UNCHANGED ahead

\* The grant for the identity minted under this nonce, or an answer printed.
Permissions ==
    /\ Fetching("perm") /\ Over /\ UNCHANGED ahead
    /\ \/ bound /\ Write("perm", nonce) /\ Faultless
       \/ bound /\ Faulty /\ UNCHANGED file
       \/ ~bound /\ Faultless /\ UNCHANGED file

Target == CASE step = "login" -> {"home"} [] step = "newcert" -> {"cert"}
            [] OTHER -> {step}

\* An exception, the end of the 180 seconds, or the end of the container; what
\* was being written may be left empty.
CutShort ==
    /\ pc = "fetch" /\ Faulty
    /\ pc' \in {"judge", "down"}
    /\ \/ UNCHANGED <<file, ahead>>
       \/ \E f \in Target :
            /\ Write(f, Empty)
            /\ ahead' = IF f = "cert" THEN 0 ELSE ahead
    /\ UNCHANGED <<fetch, lag, opts, env, beat, had>>

Downloader == \/ Login \/ RelayJson \/ NewCert \/ PrivateKey \/ Permissions \/ CutShort
              \/ \E f \in Static : StaticDoc(f)

-----------------------------------------------------------------------------
(* The bundle used, and the start of the bridge.                           *)

\* _resolve_security_dir and _materialize_bundle: the configured directory if
\* none holds a bundle; decoding goes on without a file that fails.
UserBundle ==
    CASE opts.bundle = "none"  -> secdir' = "missing" /\ Faultless
      [] opts.bundle = "plain" -> secdir' = "user" /\ Faultless
      [] OTHER -> \/ secdir' = "runtime" /\ Faultless
                  \/ secdir' = "runtime_part" /\ Faulty

\* The home of the cache's download, if it is known.
CachedBundle == secdir' = "cache" /\ partition' = (file["home"] > Empty) /\ Faultless

\* Whatever the downloader said, the cache is used if it is complete.
Judge ==
    /\ pc = "judge" /\ pc' = "await"
    /\ IF opts.creds /\ Complete THEN CachedBundle ELSE UserBundle /\ partition' = opts.home
    /\ step' = "login" /\ nonce' = 2 /\ bound' = FALSE
    /\ UNCHANGED <<file, ahead, lag, opts, beat, had>>

M_WaitsFiveMinutes ==
    /\ pc = "await" /\ pc' = "main"
    /\ ahead' = IF secdir = "cache" /\ ahead <= Probes THEN 0 ELSE ahead
    /\ UNCHANGED <<fetch, file, lag, opts, env, beat, had>> /\ Faultless

\* await_identity_valid: a sleep of 900 seconds at most.
AwaitIdentity ==
    /\ pc = "await" /\ pc' = "main"
    /\ ahead' = IF secdir = "cache" /\ ahead <= Quarter THEN 0 ELSE ahead
    /\ UNCHANGED <<fetch, file, lag, opts, env, beat, had>> /\ Faultless

M_AnyPartition ==
    /\ pc = "main"
    /\ pc' = "launched"
    /\ UNCHANGED <<fetch, file, ahead, lag, opts, env, beat, had>> /\ Faultless

Main ==
    /\ pc = "main"
    /\ pc' = IF partition THEN "launched" ELSE "down"
    /\ UNCHANGED <<fetch, file, ahead, lag, opts, env, beat, had>> /\ Faultless

\* _touch_heartbeat.
Sample ==
    /\ pc = "launched" /\ Works /\ ~beat
    /\ beat' = TRUE /\ had' = (had \/ secdir = "cache")
    /\ UNCHANGED <<pc, fetch, file, ahead, lag, opts, env>> /\ Faultless

-----------------------------------------------------------------------------
(* The Supervisor, the host.                                               *)

\* healthcheck.sh finds no heartbeat, three times after the start period: no
\* samples will come, or the identity is waited for too long.
Watchdog ==
    /\ ~beat
    /\ \/ pc = "launched" /\ ~Works
       \/ pc = "await" /\ secdir = "cache" /\ ahead > Probes
    /\ pc' = "down"
    /\ UNCHANGED <<fetch, file, ahead, lag, opts, env, beat, had>> /\ Faultless

Stopped ==
    /\ pc \notin {"down", "clean", "fetch"} /\ Faulty
    /\ pc' = "down" /\ beat' = FALSE
    /\ UNCHANGED <<fetch, file, ahead, lag, opts, env, had>>

\* The host comes up with its clock in the past.
ClockLost ==
    /\ pc = "down" /\ lag = 0 /\ Faulty
    /\ lag' \in Lags \ {0}
    /\ ahead' \in IF file["cert"] > Empty THEN 0..lag' ELSE {0}
    /\ UNCHANGED <<pc, fetch, file, opts, env, beat, had>>

ClockSet ==
    /\ lag > 0
    /\ lag' = 0 /\ ahead' = 0
    /\ UNCHANGED <<pc, fetch, file, opts, env, beat, had>> /\ Faultless

-----------------------------------------------------------------------------
Init ==
    /\ pc = "down" /\ step = "login" /\ nonce = 2 /\ bound = FALSE
    /\ file = [f \in Files |-> Absent] /\ ahead = 0
    /\ lag \in Lags
    /\ opts \in Options
    /\ secdir = "missing" /\ partition = FALSE
    /\ beat = FALSE /\ had = FALSE /\ faults = 0

Boot == LoadOptions \/ Downloader \/ Judge \/ AwaitIdentity \/ Main
        \/ \E left \in SUBSET Files : Clean(left)
Host == Sample \/ Watchdog \/ Stopped \/ ClockLost \/ ClockSet

Next == Boot \/ Host

Spec == Init /\ [][Next]_vars

\* The process runs on, the clock is set in the end, samples come if they can;
\* the watchdog is switched on.
FairSpec == Spec /\ WF_vars(Boot) /\ WF_vars(ClockSet) /\ WF_vars(Sample) /\ WF_vars(Watchdog)

-----------------------------------------------------------------------------
\* Values of the right kinds; the bridge is never launched without a partition, and
\* only one whose bundle works has a heartbeat (main 673-686, healthcheck.sh).
TypeOK ==
    /\ pc \in {"down", "clean", "fetch", "judge", "await", "main", "launched"}
    /\ step \in {"login", "relay", "newcert"} \cup Static \cup Signed
    /\ \A f \in Files \ Signed : file[f] \in {Absent, Empty, Kept}
    /\ \A f \in Signed : file[f] \in {Absent, Empty} \cup Nonces
    /\ nonce \in Nonces /\ bound \in BOOLEAN
    /\ opts \in Options
    /\ lag \in Lags /\ ahead \in 0..lag /\ (ahead > 0 => file["cert"] > Empty)
    /\ secdir \in {"cache", "user", "runtime", "runtime_part", "missing"}
    /\ partition \in BOOLEAN /\ (pc = "launched" => partition)
    /\ beat \in BOOLEAN /\ (beat => pc = "launched" /\ Works)
    /\ had \in BOOLEAN /\ faults \in 0..MaxFaults

\* No single failure - of a request, of a removal, of the process, at any byte -
\* leaves a complete cache whose certificate, key and permissions are of
\* different downloads; such a cache would be used for good (run, "ONE nonce
\* threads through newcert + permissions").
SingleFaultNeverMixes == Mixed /\ pc # "fetch" => faults > 1

\* Over cuts in the middle of a document and clocks that lag: the bridge is
\* started from the cache only with six written documents, and before the
\* certificate is valid only if it is not so in the 900 seconds waited.
LaunchTimely ==
    pc = "launched" /\ secdir = "cache" =>
        /\ \A f \in Needed : file[f] > Empty
        /\ ahead = 0 \/ ahead > Quarter

\* A cache no start repairs: judged complete but of two downloads or without a
\* home, or a torn relay.json in front of the download.
Stuck == \/ Complete /\ (Mixed \/ file["home"] <= Empty)
         \/ ~Complete /\ file["relay"] = Empty

\* With credentials, whatever has failed and however wrong the clock was, the
\* bridge comes to receive samples; the three kinds of Stuck are all there is
\* in the way (_provision_from_creds, the watchdog of container/README.md).
SettlesUnlessStuck == opts.creds => <>[](beat \/ Stuck)

\* "fetch the DDS-Security bundle into the add-on's persistent /data/security
\* (cached across restarts)" (_provision_from_creds, 200-201): no two failures lose
\* a bundle that samples have come with.  Three do: a restart, with a clock that
\* lags by some minutes, and a download that is cut, since an identity in the
\* future is deleted before another one is there, also when waiting would do.
TwoFaultsKeepCache == had /\ pc = "launched" /\ faults <= 2 => secdir = "cache"
=============================================================================
