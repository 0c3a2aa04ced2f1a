---------------------------- MODULE IdentityKeys ----------------------------
(***************************************************************************)
(* The private key of the node and what opens it.  The key is stored in    *)
(* table local_identity, in the clear or boxed under a passphrase; the     *)
(* passphrase is in .env, and config.yaml says whether there is one.  The  *)
(* security page changes all three, one after the other; the identity page *)
(* replaces the key; both go by copies in memory that only part of the     *)
(* code guards by a lock.  Steps fail, requests overlap, and the process   *)
(* is killed and started again.                                            *)
(*                                                                         *)
(* Writing a file truncates it first: a file cut off there is Torn, and    *)
(* is read as an empty one.  What two writers of one file at once leave is *)
(* the text of the last.  The settings and secrets that have nothing to do *)
(* with the key share the two files with it.                               *)
(*                                                                         *)
(* "trouble" is history: "raced" when a request that changes the           *)
(* protection met another one, "crossed" when one that replaces the key    *)
(* met another, or had saved the new key when the protection of the old    *)
(* one was changed, "failed" when a step failed that others depend on,     *)
(* "torn" when a file was left so, and "cut" when the process ended in the *)
(* middle of such a request or after such a failure.                       *)
(***************************************************************************)
CONSTANTS
  Key,      \* node IDs, each with its key pair
  Typed,    \* passphrases the administrator types
  Random,   \* passphrases made by EnsureRandom, which nobody has seen
  NoPass,   \* no passphrase; of a stored key: in the clear
  Torn,     \* the content of a file that was truncated and not written
  Request   \* bound: the requests of the web UI, one each

ASSUME ConstantsAssumption ==
  /\ Typed \cap Random = {}
  /\ NoPass \notin Typed \cup Random \cup {Torn}
  /\ Torn \notin Typed \cup Random \cup BOOLEAN

Pass == Typed \cup Random
Stored == [key : Key, box : Pass \cup {NoPass}]
Options == [encrypt : BOOLEAN, pass : Pass \cup {NoPass}]

VARIABLES
  record,     \* the row of local_identity: {} before there is one
  envFile,    \* MESHBAN_KEY_PASSPHRASE in .env
  configFile, \* security.encrypt_private_key in config.yaml
  process,    \* where main is
  env, config,       \* what the secret manager and the config have in memory
  current, options,  \* the identity service; current is {} until it is loaded
  pc, want, text, hand, \* the requests: passphrase, config.yaml and identity
  trouble

files == <<record, envFile, configFile>>
memory == <<env, config, current, options>>
requests == <<pc, want, text, hand>>
vars == <<record, envFile, configFile, process, env, config, current, options,
          pc, want, text, hand, trouble>>

Nothing == [encrypt |-> FALSE, pass |-> NoPass]

\* decodeStoredPrivateKey
Opens(o, k) == k.box = NoPass \/ k.box = o.pass
\* protectPrivateKey
Box(o) == IF o.encrypt THEN o.pass ELSE NoPass

Init ==
  /\ record = {} /\ envFile = NoPass /\ configFile \in BOOLEAN
  /\ process = "down" /\ env = NoPass /\ config = FALSE
  /\ current = {} /\ options = Nothing
  /\ pc = [r \in Request |-> "due"]
  /\ want = [r \in Request |-> NoPass] /\ text = [r \in Request |-> FALSE]
  /\ hand = [r \in Request |-> {}]
  /\ trouble = {}

\* What requests do: change the protection, write other things, replace the key.
Protecting == {"env", "open env", "write env", "config", "write config"}
Writing == {"write env", "write other", "write config", "write settings"}
Replacing == {"replace", "current"}
At(places) == {r \in Request : pc[r] \in places}
Busy == At({"due", "done"}) # Request
\* A file is truncated that the key may depend on.
MidFile == At(Writing) # {} \/ process = "token"

-----------------------------------------------------------------------------
(* Starting: main and LoadOrCreate.                                        *)

Boot ==
  /\ process = "down"
  /\ process' = "boot"
  /\ config' = (configFile = TRUE)
  /\ env' = IF envFile = Torn THEN NoPass ELSE envFile
  /\ UNCHANGED <<files, current, options, requests, trouble>>

\* Without a web token in .env, the first thing a start does is to write one there,
\* along with what it has read.
EnsureWebToken ==
  /\ process = "boot"
  /\ process' = "token" /\ envFile' = Torn
  /\ UNCHANGED <<record, configFile, memory, requests, trouble>>

WriteWebToken ==
  /\ process = "token"
  /\ process' = "boot" /\ envFile' = env
  /\ UNCHANGED <<record, configFile, memory, requests, trouble>>

Boxed == \E k \in record : k.box # NoPass
Ready(p) == options' = [encrypt |-> config, pass |-> p] /\ process' = "load"

ReadAnyPassphrase ==
  /\ process = "boot"
  /\ Ready(IF config THEN env ELSE NoPass)
  /\ UNCHANGED <<files, env, config, current, requests, trouble>>

\* Without encryption the passphrase in .env is not even looked at.
ReadPassphrase ==
  /\ process = "boot" /\ (config => env # NoPass)
  /\ Ready(IF config THEN env ELSE NoPass)
  /\ UNCHANGED <<files, env, config, current, requests, trouble>>

\* .env is truncated as by any other write, and the process may end there.
MakePassphrase ==
  /\ process = "boot" /\ config /\ env = NoPass /\ ~Boxed
  /\ process' = "save" /\ envFile' = Torn
  /\ \E p \in Random : env' = p
  /\ UNCHANGED <<record, configFile, config, current, options, requests, trouble>>

SavePassphrase ==
  /\ process = "save"
  /\ envFile' = env /\ Ready(env)
  /\ UNCHANGED <<record, configFile, env, config, current, requests, trouble>>

LoadIdentityOnly ==
  /\ process = "load"
  /\ \E k \in record :
       LET box == IF options.encrypt /\ k.box = NoPass THEN options.pass ELSE k.box
       IN  current' = {[k EXCEPT !.box = box]}
  /\ process' = "up"
  /\ UNCHANGED <<files, env, config, options, requests, trouble>>

\* A key that is stored in the clear is boxed, and only then are requests served.
LoadIdentity ==
  /\ process = "load"
  /\ \E k \in record :
       LET box == IF options.encrypt /\ k.box = NoPass THEN options.pass ELSE k.box
       IN  current' = {[k EXCEPT !.box = box]}
  /\ record' = current' /\ process' = "up"
  /\ UNCHANGED <<envFile, configFile, env, config, options, requests, trouble>>

CreateIdentity ==
  /\ process = "load" /\ record = {}
  /\ \E k \in Key : current' = {[key |-> k, box |-> Box(options)]}
  /\ record' = current' /\ process' = "up"
  /\ UNCHANGED <<envFile, configFile, env, config, options, requests, trouble>>

\* The process is killed, or exits because a step of its start failed. It does
\* exit when a passphrase is missing and the stored key is boxed under one.
End ==
  /\ process # "down"
  /\ process' = "down"
  /\ current' = {} /\ options' = Nothing /\ env' = NoPass /\ config' = FALSE
  /\ pc' = [r \in Request |-> IF pc[r] = "due" THEN "due" ELSE "done"]
  /\ want' = [r \in Request |-> NoPass] /\ text' = [r \in Request |-> FALSE]
  /\ hand' = [r \in Request |-> {}]
  /\ trouble' = trouble
       \cup (IF MidFile THEN {"torn", "cut"} ELSE {})
       \cup (IF At(Protecting) # {} \/ "failed" \in trouble THEN {"cut"} ELSE {})
  /\ UNCHANGED files

-----------------------------------------------------------------------------
(* Requests.                                                               *)

Go(r, to) == pc' = [pc EXCEPT ![r] = to]

\* A request begins, and meets those of the given kinds.
Begin(r, to) ==
  /\ process = "up" /\ pc[r] = "due"
  /\ Go(r, to)
Meets(trace, places) ==
  trouble' = trouble \cup IF At(places) # {} THEN {trace} ELSE {}

Finish(r, outcome) ==
  /\ Go(r, "done")
  /\ want' = [want EXCEPT ![r] = NoPass] /\ text' = [text EXCEPT ![r] = FALSE]
  /\ hand' = [hand EXCEPT ![r] = {}]
  /\ trouble' = trouble \cup outcome

\* A change of the protection meets any other request, and a key that is saved and
\* not yet current.
Overtakes ==
  trouble' = trouble \cup (IF Busy THEN {"raced"} ELSE {})
                     \cup (IF At({"current"}) # {} THEN {"crossed"} ELSE {})

ProtectKeyOnly(r, o) ==
  /\ Begin(r, "env") /\ Overtakes
  /\ \E k \in current : Opens(options, k) /\ current' = {[k EXCEPT !.box = Box(o)]}
  /\ record' = current'
  /\ want' = [want EXCEPT ![r] = Box(o)]
  /\ UNCHANGED <<envFile, configFile, process, env, config, options, text, hand>>

\* UpdateKeyProtection, under its lock: the key in memory first, then the row.
Protect(r, o) ==
  /\ Begin(r, "env") /\ Overtakes
  /\ \E k \in current : Opens(options, k) /\ current' = {[k EXCEPT !.box = Box(o)]}
  /\ options' = o /\ record' = current'
  /\ want' = [want EXCEPT ![r] = Box(o)]
  /\ UNCHANGED <<envFile, configFile, process, env, config, text, hand>>

ProtectFailsSilently(r, o) ==
  /\ Begin(r, "env")
  /\ \E k \in current : Opens(options, k) /\ current' = {[k EXCEPT !.box = Box(o)]}
  /\ options' = o
  /\ want' = [want EXCEPT ![r] = Box(o)]
  /\ trouble' = trouble \cup {"failed"} \cup IF Busy THEN {"raced"} ELSE {}
  /\ UNCHANGED <<files, process, env, config, text, hand>>

\* The row cannot be saved: memory is ahead of it, and the request ends.
ProtectFails(r, o) ==
  /\ Begin(r, "done")
  /\ \E k \in current : Opens(options, k) /\ current' = {[k EXCEPT !.box = Box(o)]}
  /\ options' = o
  /\ trouble' = trouble \cup {"failed"} \cup IF Busy THEN {"raced"} ELSE {}
  /\ UNCHANGED <<files, process, env, config, want, text, hand>>

Protection ==
  {[encrypt |-> TRUE, pass |-> p] : p \in Typed} \cup {[encrypt |-> FALSE, pass |-> env]}

SetSecretInMemory(r) ==
  /\ pc[r] = "env"
  /\ env' = want[r]
  /\ Go(r, "config")
  /\ UNCHANGED <<files, process, config, current, options, want, text, hand, trouble>>

\* Set, or Delete: memory, then the file.
SetSecret(r) ==
  /\ pc[r] = "env"
  /\ env' = want[r]
  /\ Go(r, "open env")
  /\ UNCHANGED <<files, process, config, current, options, want, text, hand, trouble>>

\* A web token or an RCON password is saved along with what is in memory.
SetOtherSecret(r) ==
  /\ Begin(r, "open other") /\ Meets("raced", Protecting)
  /\ want' = [want EXCEPT ![r] = env]
  /\ UNCHANGED <<files, process, memory, text, hand>>

OpenEnv(r) ==
  /\ \/ pc[r] = "open env" /\ Go(r, "write env")
     \/ pc[r] = "open other" /\ Go(r, "write other")
  /\ envFile' = Torn
  /\ UNCHANGED <<record, configFile, process, memory, want, text, hand, trouble>>

WriteEnv(r) ==
  /\ \/ pc[r] = "write env" /\ Go(r, "config") /\ UNCHANGED <<want, text, hand, trouble>>
     \/ pc[r] = "write other" /\ Finish(r, {})
  /\ envFile' = want[r]
  /\ UNCHANGED <<record, configFile, process, memory>>

\* h.config is changed; its text is made, and config.yaml opened for writing.
SetConfig(r) ==
  /\ pc[r] = "config"
  /\ config' = (want[r] # NoPass)
  /\ \/ /\ Go(r, "write config")
        /\ text' = [text EXCEPT ![r] = config'] /\ configFile' = Torn
        /\ UNCHANGED <<want, hand, trouble>>
     \/ Finish(r, {"failed"}) /\ UNCHANGED configFile
  /\ UNCHANGED <<record, envFile, process, env, current, options>>

\* Any other page that saves the settings.
SaveSettings(r) ==
  /\ Begin(r, "write settings") /\ Meets("raced", Protecting)
  /\ text' = [text EXCEPT ![r] = config] /\ configFile' = Torn
  /\ UNCHANGED <<record, envFile, process, memory, want, hand>>

WriteConfig(r) ==
  /\ pc[r] \in {"write config", "write settings"}
  /\ configFile' = text[r]
  /\ Finish(r, {})
  /\ UNCHANGED <<record, envFile, process, memory>>

\* A file that cannot be opened keeps its content.
OpenFails(r) ==
  /\ \/ pc[r] = "open env" /\ Finish(r, {"failed"})
     \/ pc[r] = "open other" /\ Finish(r, {})
  /\ UNCHANGED <<files, process, memory>>

WriteFails(r) ==
  /\ pc[r] \in Writing
  /\ Finish(r, {"failed", "torn"})
  /\ UNCHANGED <<files, process, memory>>

\* CreateNewIdentity, and ImportKeyPairJSON with a key of another node.
Generate(r, k) ==
  /\ Begin(r, "replace")
  /\ trouble' = trouble \cup (IF At(Protecting) # {} THEN {"raced"} ELSE {})
                         \cup (IF At(Replacing) # {} THEN {"crossed"} ELSE {})
  /\ hand' = [hand EXCEPT ![r] = {[key |-> k, box |-> Box(options)]}]
  /\ UNCHANGED <<files, process, memory, want, text>>

SaveIdentity(r) ==
  /\ pc[r] = "replace"
  /\ record' = hand[r]
  /\ Go(r, "current")
  /\ UNCHANGED <<envFile, configFile, process, memory, want, text, hand, trouble>>

SaveIdentityFails(r) ==
  /\ pc[r] = "replace"
  /\ Finish(r, {})
  /\ UNCHANGED <<files, process, memory>>

SetCurrent(r) ==
  /\ pc[r] = "current"
  /\ current' = hand[r]
  /\ Finish(r, {})
  /\ UNCHANGED <<files, process, env, config, options>>

Next ==
  \/ Boot \/ EnsureWebToken \/ WriteWebToken \/ ReadPassphrase \/ MakePassphrase \/ SavePassphrase
  \/ LoadIdentity \/ CreateIdentity \/ End
  \/ \E r \in Request :
       \/ \E o \in Protection : Protect(r, o) \/ ProtectFails(r, o)
       \/ SetSecret(r) \/ SetOtherSecret(r) \/ OpenEnv(r) \/ WriteEnv(r)
       \/ SetConfig(r) \/ SaveSettings(r) \/ WriteConfig(r)
       \/ OpenFails(r) \/ WriteFails(r)
       \/ \E k \in Key : Generate(r, k)
       \/ SaveIdentity(r) \/ SaveIdentityFails(r) \/ SetCurrent(r)

Spec == Init /\ [][Next]_vars

-----------------------------------------------------------------------------
(* Properties.                                                             *)

Requesting ==
  {"due", "open env", "open other", "env", "config", "done"} \cup Writing \cup Replacing

\* Memory and files hold what they can hold; while requests are served there is
\* an identity, and encryption is on only with a passphrase.
TypeOK ==
  /\ record \in {{}} \cup {{k} : k \in Stored} /\ current \in {{}} \cup {{k} : k \in Stored}
  /\ envFile \in Pass \cup {NoPass, Torn} /\ configFile \in BOOLEAN \cup {Torn}
  /\ process \in {"down", "boot", "token", "save", "load", "up"}
  /\ env \in Pass \cup {NoPass} /\ config \in BOOLEAN
  /\ options \in Options /\ (options.encrypt => options.pass # NoPass)
  /\ current # {} <=> process = "up"
  /\ process = "up" => record # {}
  /\ pc \in [Request -> Requesting]
  /\ want \in [Request -> Pass \cup {NoPass}]
  /\ text \in [Request -> BOOLEAN]
  /\ hand \in [Request -> {{}} \cup {{k} : k \in Stored}]
  /\ trouble \subseteq {"raced", "crossed", "failed", "torn", "cut"}

\* Whenever no protection or file is being written the stored key can be opened
\* with what .env and config.yaml hold: a process that is killed starts again and
\* signs. Not so after a change of the protection has met another request, or a step
\* has failed, left a file torn or been cut off.
RestartOpensKey ==
  /\ trouble \subseteq {"crossed"}
  /\ At(Protecting) = {} /\ ~MidFile
  => \A k \in record : k.box # NoPass => configFile = TRUE /\ envFile = k.box

\* The identity service can open its own key, in the middle of any request and
\* after failed ones, until a change of the protection meets another request, or the
\* process is restarted on what a request has left half done.
SigningWorks ==
  trouble \cap {"raced", "cut"} = {} => \A k \in current : Opens(options, k)

NodeIDs(keys) == {k.key : k \in keys}

\* However requests follow and overlap, fail and are cut off, the row holds the node
\* ID in memory, and as long as no step has failed the key boxed as in memory, too.
\* Excepted are the moment between the two assignments of a replacement, and the time
\* after two replacements have met, or a change of the protection and that moment: the
\* row may then be that of the node's old ID, and memory that of the new one.
RecordIsCurrent ==
  process = "up" /\ "crossed" \notin trouble /\ At({"current"}) = {}
  => /\ NodeIDs(record) = NodeIDs(current)
     /\ "failed" \in trouble \/ record = current

\* A passphrase that nobody has seen stays in .env while the stored key needs it,
\* whatever fails and wherever the process is killed, short of a file being torn and
\* of a change of the protection that meets another request.
RandomPassphraseKept ==
  trouble \cap {"raced", "torn"} = {} /\ ~MidFile
  => \A k \in record : k.box \in Random => envFile = k.box
=============================================================================
