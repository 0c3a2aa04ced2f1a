------------------------- MODULE IdentityKeysProofs -------------------------
(* Proofs about IdentityKeys for any keys, passphrases and number of       *)
(* requests.                                                               *)
EXTENDS IdentityKeys, TLAPS

\* What the process holds of a file that it reads.
ReadEnv == IF envFile = Torn THEN NoPass ELSE envFile

\* What a start has found, and what becomes of trouble: a torn file is the work of a
\* failed step or of an end, and the next end makes a failure a cut.
PlaceInv ==
  /\ process # "up" => \A r \in Request : pc[r] \in {"due", "done"}
  /\ \A r \in At(Replacing) : hand[r] # {}
  /\ process \in {"boot", "load"} => env = ReadEnv
  /\ process \in {"boot", "token", "save", "load"} => config = (configFile = TRUE)
  /\ process = "token" => envFile = Torn
  /\ process = "save" => config /\ env \in Random /\ ~Boxed
  /\ process = "load" => options = [encrypt |-> config, pass |-> IF config THEN env ELSE NoPass]
  /\ "torn" \in trouble => trouble \cap {"failed", "cut"} # {}
  /\ "failed" \in trouble => process = "up" \/ "cut" \in trouble

\* A request that changes the protection is alone.
AloneInv ==
  "raced" \notin trouble =>
    \A r \in At(Protecting), q \in Request : q # r => pc[q] \in {"due", "done"}

\* What the other requests hold of passphrase, settings and options is still so.
HeldInv ==
  "raced" \notin trouble =>
    /\ \A r \in At(Replacing) : \A k \in hand[r] : k.box = Box(options)
    /\ \A r \in At({"open other", "write other"}) : want[r] = env
    /\ \A r \in At({"write settings"}) : text[r] = config

\* The row is that of the identity in memory.
RowIsCurrent == NodeIDs(record) = NodeIDs(current) /\ ("failed" \in trouble \/ record = current)

\* One identity at a time replaces the other, first in the row.
ReplaceInv ==
  "crossed" \notin trouble =>
    /\ \A q, r \in At(Replacing) : q = r
    /\ process = "up" =>
         /\ At({"current"}) = {} => RowIsCurrent
         /\ \A r \in At({"current"}) : record = hand[r]

\* The files open the stored key.
FilesOpen == \A k \in record : k.box # NoPass => configFile = TRUE /\ envFile = k.box

\* Memory and files agree, but for what a request is about to write.
MemoryAgrees ==
  /\ config = options.encrypt
  /\ config => env = options.pass
  /\ env = ReadEnv \/ At({"write other"}) # {}
  /\ config = (configFile = TRUE) \/ At({"write settings"}) # {}

\* How far a change of the protection has got.
Progress(r) ==
  /\ want[r] = Box(options)
  /\ pc[r] # "env" => env = want[r]
  /\ pc[r] \in {"config", "write config"} => envFile = want[r]
  /\ pc[r] = "write config" => config = text[r] /\ config = (want[r] # NoPass)

\* As long as nothing went wrong the key is boxed as the options say, and the options
\* are those of the files and of memory, except inside a change of the protection.
CleanInv ==
  trouble \subseteq {"crossed"} =>
    /\ process \notin {"up", "token"} => FilesOpen
    /\ process = "token" => \A k \in record : k.box # NoPass => configFile = TRUE /\ env = k.box
    /\ process = "up" =>
         /\ \A k \in record \cup current : k.box = Box(options)
         /\ At(Protecting) = {} => MemoryAgrees
         /\ \A r \in At(Protecting) : Progress(r)

\* A passphrase that nobody has seen is in .env, or about to be written back.
Kept(p) ==
  /\ envFile = p \/ At({"write other"}) # {} \/ (process = "token" /\ env = p)
  /\ At(Protecting) = {}
  /\ process \in {"load", "up"} => env = p
RandomInv ==
  trouble \cap {"raced", "torn"} = {} =>
    /\ \A k \in record : k.box \in Random => Kept(k.box)
    /\ process \in {"load", "up"} /\ Box(options) \in Random => Kept(Box(options))

IInv ==
  /\ TypeOK
  /\ PlaceInv /\ AloneInv /\ HeldInv
  /\ ReplaceInv /\ CleanInv /\ SigningWorks /\ RandomInv

-----------------------------------------------------------------------------
(* Helpers.                                                                *)

\* A key boxed otherwise is a key, and opens with the options that boxed it.
LEMMA BoxedType ==
  ASSUME NEW k \in Stored, NEW o \in Options
  PROVE  /\ Box(o) \in Pass \cup {NoPass}
         /\ [k EXCEPT !.box = Box(o)] \in Stored
         /\ [k EXCEPT !.box = Box(o)].box = Box(o)
         /\ \A x \in Stored : x.box = Box(o) => Opens(o, x)
         /\ o.encrypt /\ o.pass # NoPass => Box(o) # NoPass
BY DEF Box, Opens, Options, Stored

\* What an administrator asks for is possible, and never a random passphrase.
LEMMA ProtectionType ==
  ASSUME TypeOK, NEW o \in Protection
  PROVE  o \in Options /\ (o.encrypt => o.pass # NoPass) /\ Box(o) \notin Random
<1>1. ASSUME NEW p \in Typed, o = [encrypt |-> TRUE, pass |-> p]
      PROVE  o \in Options /\ o.pass # NoPass /\ Box(o) \notin Random
  BY <1>1, ConstantsAssumption DEF Options, Pass, Box
<1>2. ASSUME o = [encrypt |-> FALSE, pass |-> env]
      PROVE  o \in Options /\ ~o.encrypt /\ Box(o) \notin Random
  BY <1>2, ConstantsAssumption DEF TypeOK, Options, Pass, Box
<1> QED  BY <1>1, <1>2 DEF Protection

-----------------------------------------------------------------------------
(* Types.                                                                  *)

LEMMA InitType == Init => TypeOK
<1> SUFFICES ASSUME Init
             PROVE  TypeOK
  OBVIOUS
<1> USE DEF Init
<1>1. options \in Options /\ ~options.encrypt
  BY DEF Nothing, Options
<1>2. pc \in [Request -> Requesting]
  BY DEF Requesting
<1>3. /\ want \in [Request -> Pass \cup {NoPass}] /\ text \in [Request -> BOOLEAN]
      /\ hand \in [Request -> {{}} \cup {{k} : k \in Stored}]
  OBVIOUS
<1> QED  BY <1>1, <1>2, <1>3 DEF TypeOK

LEMMA StartType ==
  ASSUME TypeOK, PlaceInv,
         \/ Boot \/ EnsureWebToken \/ WriteWebToken
         \/ ReadPassphrase \/ MakePassphrase \/ SavePassphrase
         \/ LoadIdentity \/ CreateIdentity \/ End
  PROVE  TypeOK'
<1> USE DEF TypeOK, files, requests
<1>1. CASE Boot
  BY <1>1 DEF Boot
<1>2. CASE ReadPassphrase
  BY <1>2 DEF ReadPassphrase, Ready, Options
<1>3. CASE MakePassphrase
  BY <1>3 DEF MakePassphrase, Pass
<1>4. CASE SavePassphrase
  BY <1>4, ConstantsAssumption DEF SavePassphrase, Ready, Options, PlaceInv, Pass
<1>5. CASE LoadIdentity
  <2>1. PICK k \in record :
          current' = {[k EXCEPT !.box = IF options.encrypt /\ k.box = NoPass
                                        THEN options.pass ELSE k.box]}
    BY <1>5 DEF LoadIdentity
  <2>2. [k EXCEPT !.box = IF options.encrypt /\ k.box = NoPass
                          THEN options.pass ELSE k.box] \in Stored
    BY <2>1 DEF Stored, Options
  <2> QED  BY <1>5, <2>1, <2>2 DEF LoadIdentity
<1>6. CASE CreateIdentity
  <2>1. PICK k \in Key : current' = {[key |-> k, box |-> Box(options)]}
    BY <1>6 DEF CreateIdentity
  <2>2. [key |-> k, box |-> Box(options)] \in Stored
    BY DEF Stored, Box, Options
  <2> QED  BY <1>6, <2>1, <2>2 DEF CreateIdentity
<1>7. CASE End
  BY <1>7 DEF End, Nothing, Options, Requesting, Pass
<1>8. CASE EnsureWebToken \/ WriteWebToken
  BY <1>8 DEF EnsureWebToken, WriteWebToken, memory
<1> QED  BY <1>1, <1>2, <1>3, <1>4, <1>5, <1>6, <1>7, <1>8

LEMMA ProtectType ==
  ASSUME TypeOK, NEW r \in Request, NEW o \in Protection, Protect(r, o) \/ ProtectFails(r, o)
  PROVE  TypeOK'
<1> USE DEF TypeOK, files
<1>1. /\ process = "up" /\ record # {} /\ current # {}
      /\ options' = o /\ o \in Options /\ (o.encrypt => o.pass # NoPass)
  BY ProtectionType DEF Protect, ProtectFails, Begin
<1>2. PICK k \in current : current' = {[k EXCEPT !.box = Box(o)]}
  BY DEF Protect, ProtectFails
<1>3. [k EXCEPT !.box = Box(o)] \in Stored /\ Box(o) \in Pass \cup {NoPass}
  BY <1>1, BoxedType
<1>4. current' \in {{}} \cup {{x} : x \in Stored} /\ current' # {}
  BY <1>2, <1>3
<1>5. CASE Protect(r, o)
  BY <1>1, <1>3, <1>4, <1>5 DEF Protect, Overtakes, Begin, Go, Requesting, Protecting
<1>6. CASE ProtectFails(r, o)
  BY <1>1, <1>3, <1>4, <1>6 DEF ProtectFails, Begin, Go, Requesting
<1> QED  BY <1>5, <1>6

LEMMA RequestType ==
  ASSUME TypeOK, PlaceInv, NEW r \in Request,
         \/ SetSecret(r) \/ SetOtherSecret(r) \/ OpenEnv(r) \/ WriteEnv(r)
         \/ SetConfig(r) \/ SaveSettings(r) \/ WriteConfig(r)
         \/ OpenFails(r) \/ WriteFails(r)
  PROVE  TypeOK'
<1> USE DEF TypeOK, files, memory, Go, Finish, Meets, Begin, Requesting, Writing
<1>1. CASE SetSecret(r) \/ SetOtherSecret(r)
  BY ZenonT(40), <1>1 DEF SetSecret, SetOtherSecret
<1>2. CASE OpenEnv(r)
  BY <1>2 DEF OpenEnv
<1>3. CASE WriteEnv(r)
  BY ZenonT(40), <1>3 DEF WriteEnv
<1>4. CASE SetConfig(r)
  BY ZenonT(40), <1>4 DEF SetConfig
<1>5. CASE SaveSettings(r) \/ WriteConfig(r)
  BY <1>5 DEF SaveSettings, WriteConfig
<1>6. CASE OpenFails(r) \/ WriteFails(r)
  BY ZenonT(40), <1>6 DEF OpenFails, WriteFails
<1> QED  BY <1>1, <1>2, <1>3, <1>4, <1>5, <1>6

LEMMA ReplaceType ==
  ASSUME TypeOK, PlaceInv, NEW r \in Request,
         (\E k \in Key : Generate(r, k)) \/ SaveIdentity(r) \/ SaveIdentityFails(r) \/ SetCurrent(r)
  PROVE  TypeOK'
<1> USE DEF TypeOK, files, memory, Go, Finish, Begin, Requesting, Replacing
<1>1. ASSUME NEW k \in Key, Generate(r, k)
      PROVE  TypeOK'
  <2>1. [key |-> k, box |-> Box(options)] \in Stored
    BY DEF Stored, Box, Options
  <2> QED  BY <1>1, <2>1 DEF Generate
<1>2. CASE SaveIdentity(r)
  BY <1>2 DEF SaveIdentity, PlaceInv, At
<1>3. CASE SaveIdentityFails(r)
  BY <1>3 DEF SaveIdentityFails
<1>4. CASE SetCurrent(r)
  <2>1. process = "up" /\ hand[r] # {}
    BY <1>4 DEF SetCurrent, PlaceInv, At
  <2> QED  BY <1>4, <2>1 DEF SetCurrent
<1> QED  BY <1>1, <1>2, <1>3, <1>4

LEMMA TypeStep == TypeOK /\ PlaceInv /\ [Next]_vars => TypeOK'
<1> SUFFICES ASSUME TypeOK, PlaceInv, [Next]_vars
             PROVE  TypeOK'
  OBVIOUS
<1>1. CASE UNCHANGED vars
  BY <1>1 DEF vars, TypeOK
<1> QED  BY <1>1, StartType, ProtectType, RequestType, ReplaceType DEF Next
-----------------------------------------------------------------------------
(* Starting and ending.                                                    *)

LEMMA InitInv == Init => IInv
<1> SUFFICES ASSUME Init
             PROVE  IInv
  OBVIOUS
<1>1. TypeOK
  BY InitType
<1>2. record = {} /\ current = {} /\ process = "down" /\ trouble = {}
      /\ options = Nothing /\ \A r \in Request : pc[r] = "due"
  BY DEF Init
<1>3. PlaceInv
  BY <1>2 DEF PlaceInv, At, Replacing
<1>4. AloneInv /\ HeldInv
  BY <1>2 DEF AloneInv, HeldInv, At, Protecting, Replacing
<1>5. ReplaceInv
  BY <1>2 DEF ReplaceInv, At, Replacing
<1>6. CleanInv /\ SigningWorks /\ RandomInv
  BY <1>2 DEF CleanInv, FilesOpen, SigningWorks, RandomInv
<1> QED  BY <1>1, <1>3, <1>4, <1>5, <1>6 DEF IInv

\* While no request is being served there is nobody to be alone with, nothing is held
\* and nobody replaces the key.
LEMMA IdleStep ==
  ASSUME \A r \in Request : pc'[r] \in {"due", "done"}, process' # "up" \/ record' = current'
  PROVE  AloneInv' /\ HeldInv' /\ ReplaceInv'
<1> USE DEF At
<1>1. AloneInv' /\ HeldInv'
  BY DEF AloneInv, HeldInv, Protecting, Replacing
<1>2. ReplaceInv'
  BY DEF ReplaceInv, RowIsCurrent, NodeIDs, Replacing
<1> QED  BY <1>1, <1>2

LEMMA BootStep == ASSUME IInv, Boot PROVE IInv'
<1> USE DEF IInv, Boot, files, requests
<1>1. TypeOK'
  BY StartType
<1>2. \A r \in Request : pc[r] \in {"due", "done"} /\ pc'[r] = pc[r]
  BY DEF PlaceInv
<1>3. PlaceInv'
  BY <1>2 DEF PlaceInv, ReadEnv, At, Replacing
<1>4. AloneInv' /\ HeldInv' /\ ReplaceInv'
  BY <1>2, IdleStep
<1>5. CleanInv' /\ SigningWorks'
  BY DEF CleanInv, FilesOpen, SigningWorks, TypeOK
<1>6. RandomInv'
  BY DEF RandomInv, Kept, At
<1> QED  BY <1>1, <1>3, <1>4, <1>5, <1>6

LEMMA WebTokenStep == ASSUME IInv, EnsureWebToken \/ WriteWebToken PROVE IInv'
<1> USE DEF IInv, EnsureWebToken, WriteWebToken, memory, requests
<1>1. TypeOK'
  BY StartType
<1>2. /\ \A r \in Request : pc[r] \in {"due", "done"} /\ pc'[r] = pc[r]
      /\ process \in {"boot", "token"} /\ process' \in {"boot", "token"}
      /\ UNCHANGED <<record, configFile, env, config, current, options, trouble>>
  BY DEF PlaceInv
<1>3. env # Torn
  BY ConstantsAssumption DEF TypeOK, Pass
<1>4. PlaceInv'
  BY <1>2, <1>3 DEF PlaceInv, ReadEnv, At, Replacing
<1>5. AloneInv' /\ HeldInv' /\ ReplaceInv'
  BY <1>2, IdleStep
<1>6. \A k \in record : k.box # Torn
  BY ConstantsAssumption DEF TypeOK, Stored, Pass
<1>7. CleanInv'
  BY <1>2, <1>3, <1>6 DEF CleanInv, FilesOpen, PlaceInv, ReadEnv
<1>8. SigningWorks'
  BY <1>2 DEF SigningWorks, TypeOK
<1>9. RandomInv'
  <2>1. At({"write other"}) = {} /\ At({"write other"})' = {} /\ At(Protecting)' = {}
    BY <1>2 DEF At, Protecting
  <2>2. ASSUME NEW p \in Random, Kept(p)
        PROVE  Kept(p)'
    <3>1. p # Torn
      BY ConstantsAssumption
    <3>2. CASE EnsureWebToken
      <4>1. process = "boot" /\ process' = "token" /\ env' = env
        BY <3>2
      <4>2. env = p
        BY <2>1, <2>2, <3>1, <4>1 DEF Kept, PlaceInv, ReadEnv
      <4> QED  BY <2>1, <4>1, <4>2 DEF Kept
    <3>3. CASE WriteWebToken
      <4>1. process = "token" /\ process' = "boot" /\ envFile' = env
        BY <3>3
      <4>2. env = p
        BY <2>1, <2>2, <3>1, <4>1 DEF Kept, PlaceInv
      <4> QED  BY <2>1, <4>1, <4>2 DEF Kept
    <3> QED  BY <3>2, <3>3
  <2> QED  BY <1>2, <2>2 DEF RandomInv
<1> QED  BY <1>1, <1>4, <1>5, <1>7, <1>8, <1>9

LEMMA ReadPassphraseStep == ASSUME IInv, ReadPassphrase PROVE IInv'
<1> USE DEF IInv, ReadPassphrase, Ready, files, requests
<1>1. TypeOK'
  BY StartType
<1>2. \A r \in Request : pc[r] \in {"due", "done"} /\ pc'[r] = pc[r]
  BY DEF PlaceInv
<1>3. PlaceInv'
  BY <1>2 DEF PlaceInv, ReadEnv, At, Replacing
<1>4. AloneInv' /\ HeldInv' /\ ReplaceInv'
  BY <1>2, IdleStep
<1>5. CleanInv' /\ SigningWorks'
  BY DEF CleanInv, FilesOpen, SigningWorks, TypeOK
<1>6. RandomInv'
  <2>1. env = ReadEnv /\ At({"write other"}) = {} /\ At(Protecting) = {}
    BY <1>2 DEF PlaceInv, At, Protecting
  <2>2. At({"write other"})' = {} /\ At(Protecting)' = {}
    BY <1>2 DEF At, Protecting
  <2>3. \A p \in Random : p # Torn /\ p # NoPass
    BY ConstantsAssumption
  <2>4. ASSUME NEW k \in record, k.box \in Random, trouble \cap {"raced", "torn"} = {}
        PROVE  Kept(k.box)'
    BY <2>1, <2>2, <2>3, <2>4 DEF RandomInv, Kept, ReadEnv
  <2>5. ASSUME Box(options)' \in Random
        PROVE  Kept(Box(options))'
    BY <2>1, <2>2, <2>3, <2>5 DEF Box, Kept, ReadEnv
  <2> QED  BY <2>4, <2>5 DEF RandomInv
<1> QED  BY <1>1, <1>3, <1>4, <1>5, <1>6

LEMMA MakePassphraseStep == ASSUME IInv, MakePassphrase PROVE IInv'
<1> USE DEF IInv, MakePassphrase, requests
<1>1. TypeOK'
  BY StartType
<1>2. \A r \in Request : pc[r] \in {"due", "done"} /\ pc'[r] = pc[r]
  BY DEF PlaceInv
<1>3. PlaceInv'
  BY <1>2 DEF PlaceInv, ReadEnv, At, Replacing, Boxed
<1>4. AloneInv' /\ HeldInv' /\ ReplaceInv'
  BY <1>2, IdleStep
<1>5. CleanInv' /\ SigningWorks'
  BY DEF CleanInv, FilesOpen, SigningWorks, TypeOK, Boxed
<1>6. RandomInv'
  BY ConstantsAssumption DEF RandomInv, Boxed
<1> QED  BY <1>1, <1>3, <1>4, <1>5, <1>6

LEMMA SavePassphraseStep == ASSUME IInv, SavePassphrase PROVE IInv'
<1> USE DEF IInv, SavePassphrase, Ready, requests
<1>1. TypeOK'
  BY StartType
<1>2. \A r \in Request : pc[r] \in {"due", "done"} /\ pc'[r] = pc[r]
  BY DEF PlaceInv
<1>3. env \in Random /\ env # Torn /\ config = TRUE /\ ~Boxed
  BY ConstantsAssumption DEF PlaceInv, TypeOK
<1>4. PlaceInv'
  BY <1>2, <1>3 DEF PlaceInv, ReadEnv, At, Replacing
<1>5. AloneInv' /\ HeldInv' /\ ReplaceInv'
  BY <1>2, IdleStep
<1>6. CleanInv' /\ SigningWorks'
  BY <1>3 DEF CleanInv, FilesOpen, SigningWorks, TypeOK, Boxed
<1>7. RandomInv'
  <2>1. At(Protecting)' = {}
    BY <1>2 DEF At, Protecting
  <2> QED  BY <1>3, <2>1, ConstantsAssumption DEF RandomInv, Boxed, Kept, Box
<1> QED  BY <1>1, <1>4, <1>5, <1>6, <1>7

\* What the files open, a start boxes as its options say.
LEMMA LoadedBox ==
  ASSUME TypeOK, PlaceInv, process = "load", FilesOpen, NEW k \in record
  PROVE  (IF options.encrypt /\ k.box = NoPass THEN options.pass ELSE k.box) = Box(options)
<1>1. options = [encrypt |-> config, pass |-> IF config THEN env ELSE NoPass]
      /\ env = ReadEnv /\ config = (configFile = TRUE)
  BY DEF PlaceInv
<1>2. CASE k.box = NoPass
  BY <1>1, <1>2 DEF Box
<1>3. CASE k.box # NoPass
  <2>1. k.box # Torn
    BY <1>3, ConstantsAssumption DEF TypeOK, Stored, Pass
  <2>2. config /\ env = k.box
    BY <1>1, <1>3, <2>1 DEF FilesOpen, ReadEnv
  <2> QED  BY <1>1, <1>3, <2>2 DEF Box
<1> QED  BY <1>2, <1>3

\* When a start has its options they are those of the files and of memory.
LEMMA LoadedMemory ==
  ASSUME TypeOK, PlaceInv, process = "load",
         UNCHANGED <<envFile, configFile, env, config, options>>
  PROVE  MemoryAgrees'
<1>1. /\ config \in BOOLEAN
      /\ options = [encrypt |-> config, pass |-> IF config THEN env ELSE NoPass]
      /\ env = ReadEnv /\ config = (configFile = TRUE)
  BY DEF TypeOK, PlaceInv
<1>2. config = options.encrypt /\ (config => env = options.pass)
  BY <1>1
<1>3. env' = ReadEnv' /\ config' = (configFile' = TRUE)
  BY <1>1 DEF ReadEnv
<1> QED  BY <1>2, <1>3 DEF MemoryAgrees

LEMMA LoadIdentityStep == ASSUME IInv, LoadIdentity PROVE IInv'
<1> USE DEF IInv, requests
<1>1. TypeOK'
  BY StartType
<1>2. /\ \A r \in Request : pc[r] \in {"due", "done"} /\ pc'[r] = pc[r]
      /\ process = "load" /\ process' = "up" /\ record' = current' /\ trouble' = trouble
      /\ UNCHANGED <<envFile, configFile, env, config, options>>
  BY DEF PlaceInv, LoadIdentity
<1>3. PICK k \in record :
        current' = {[k EXCEPT !.box = IF options.encrypt /\ k.box = NoPass
                                      THEN options.pass ELSE k.box]}
  BY DEF LoadIdentity
<1>4. PICK box \in Pass \cup {NoPass} :
        box = IF options.encrypt /\ k.box = NoPass THEN options.pass ELSE k.box
  <2>1. k \in Stored
    BY <1>3 DEF TypeOK
  <2> QED  BY <2>1 DEF TypeOK, Stored, Options
<1>5. \A x \in current' : x.box = box
  BY <1>3, <1>4 DEF TypeOK, Stored
<1>6. PlaceInv'
  BY <1>2 DEF PlaceInv, At, Replacing
<1>7. AloneInv' /\ HeldInv' /\ ReplaceInv'
  BY <1>2, IdleStep
<1>8. At(Protecting)' = {}
  BY <1>2 DEF At, Protecting
<1>9. CleanInv'
  <2> SUFFICES ASSUME trouble \subseteq {"crossed"}
               PROVE  (\A x \in current : x.box = Box(options))' /\ MemoryAgrees'
    BY <1>2, <1>8 DEF CleanInv
  <2>1. box = Box(options)
    BY <1>2, <1>4, LoadedBox DEF CleanInv
  <2> QED  BY <1>2, <1>5, <2>1, LoadedMemory DEF Box
<1>10. SigningWorks'
  <2> SUFFICES ASSUME trouble \cap {"raced", "cut"} = {}, NEW x \in current'
               PROVE  Opens(options, x)'
    BY <1>2 DEF SigningWorks
  <2>1. trouble \subseteq {"crossed"}
    BY <1>2 DEF PlaceInv, TypeOK
  <2>2. box = Box(options)
    BY <1>2, <1>4, <2>1, LoadedBox DEF CleanInv
  <2> QED  BY <1>2, <1>5, <2>2 DEF Opens, Box
<1>11. RandomInv'
  <2>1. \A p : Kept(p) => Kept(p)'
    BY <1>2, <1>8 DEF Kept, At
  <2>2. box \in Random => box = k.box \/ box = Box(options)
    BY <1>4 DEF Box
  <2> QED  BY <1>2, <1>3, <1>5, <2>1, <2>2 DEF RandomInv, Box
<1> QED  BY <1>1, <1>6, <1>7, <1>9, <1>10, <1>11

LEMMA CreateIdentityStep == ASSUME IInv, CreateIdentity PROVE IInv'
<1> USE DEF IInv, requests
<1>1. TypeOK'
  BY StartType
<1>2. /\ \A r \in Request : pc[r] \in {"due", "done"} /\ pc'[r] = pc[r]
      /\ process = "load" /\ process' = "up" /\ record' = current' /\ trouble' = trouble
      /\ UNCHANGED <<envFile, configFile, env, config, options>>
  BY DEF PlaceInv, CreateIdentity
<1>3. \A x \in current' : x.box = Box(options)
  BY DEF CreateIdentity
<1>4. PlaceInv'
  BY <1>2 DEF PlaceInv, At, Replacing
<1>5. AloneInv' /\ HeldInv' /\ ReplaceInv'
  BY <1>2, IdleStep
<1>6. At(Protecting)' = {}
  BY <1>2 DEF At, Protecting
<1>7. CleanInv'
  BY <1>2, <1>3, <1>6, LoadedMemory DEF CleanInv, Box
<1>8. SigningWorks'
  BY <1>2, <1>3 DEF SigningWorks, Opens, Box
<1>9. RandomInv'
  <2>1. \A p : Kept(p) => Kept(p)'
    BY <1>2, <1>6 DEF Kept, At
  <2> QED  BY <1>2, <1>3, <2>1 DEF RandomInv, Box
<1> QED  BY <1>1, <1>4, <1>5, <1>7, <1>8, <1>9

LEMMA EndStep == ASSUME IInv, End PROVE IInv'
<1> USE DEF IInv
<1>1. TypeOK'
  BY StartType
<1>2. /\ \A r \in Request : pc'[r] \in {"due", "done"}
      /\ process' = "down" /\ current' = {} /\ record' = record
      /\ envFile' = envFile /\ configFile' = configFile
  BY DEF End, TypeOK, files
<1>3. /\ trouble \subseteq trouble'
      /\ "cut" \notin trouble' => At(Writing) = {} /\ At(Protecting) = {} /\ "failed" \notin trouble
      /\ "torn" \notin trouble' => At(Writing) = {} /\ process # "token"
      /\ "torn" \in trouble' => "torn" \in trouble \/ "cut" \in trouble'
      /\ "failed" \in trouble' => "failed" \in trouble
  BY DEF End, MidFile
<1>4. PlaceInv'
  BY <1>2, <1>3 DEF PlaceInv, At, Replacing
<1>5. AloneInv' /\ HeldInv' /\ ReplaceInv'
  BY <1>2, IdleStep
<1>6. CleanInv'
  <2> SUFFICES ASSUME trouble' \subseteq {"crossed"}, process = "up",
                      NEW k \in record, k.box # NoPass
               PROVE  configFile = TRUE /\ envFile = k.box
    BY <1>2, <1>3 DEF CleanInv, FilesOpen
  <2>1. At(Writing) = {} /\ At(Protecting) = {} /\ trouble \subseteq {"crossed"}
    BY <1>3
  <2>2. At({"write other"}) = {} /\ At({"write settings"}) = {}
    BY <2>1 DEF At, Writing
  <2>3. k.box = Box(options) /\ MemoryAgrees
    BY <2>1 DEF CleanInv
  <2>4. config /\ env = k.box
    BY <2>3 DEF MemoryAgrees, Box
  <2> QED  BY <2>2, <2>3, <2>4 DEF MemoryAgrees, ReadEnv
<1>7. SigningWorks'
  BY <1>2 DEF SigningWorks
<1>8. RandomInv'
  <2>1. At({"write other"}) = {} \/ "torn" \in trouble'
    BY <1>3 DEF At, Writing
  <2>2. At(Protecting)' = {}
    BY <1>2 DEF At, Protecting
  <2> QED  BY <1>2, <1>3, <2>1, <2>2 DEF RandomInv, Kept
<1> QED  BY <1>1, <1>4, <1>5, <1>6, <1>7, <1>8
-----------------------------------------------------------------------------
(* Changes of the protection.                                              *)

LEMMA ProtectStep ==
  ASSUME IInv, NEW r \in Request, NEW o \in Protection, Protect(r, o)
  PROVE  IInv'
<1> USE DEF IInv
<1>1. TypeOK'
  BY ProtectType
<1>2. /\ process = "up" /\ process' = "up" /\ pc[r] = "due" /\ pc'[r] = "env"
      /\ \A q \in Request : q # r => pc'[q] = pc[q]
      /\ want'[r] = Box(o) /\ options' = o /\ record' = current'
      /\ UNCHANGED <<envFile, configFile, env, config, text, hand>>
  BY DEF Protect, Begin, Go, TypeOK
<1>3. /\ trouble \subseteq trouble' /\ trouble' \subseteq trouble \cup {"raced", "crossed"}
      /\ "raced" \notin trouble' => \A q \in Request : pc[q] \in {"due", "done"}
      /\ "crossed" \notin trouble' => At({"current"}) = {}
  BY DEF Protect, Overtakes, Busy, At
<1>4. o \in Options /\ Box(o) \notin Random
  BY ProtectionType
<1>5. PICK k \in current : current' = {[k EXCEPT !.box = Box(o)]}
  BY DEF Protect
<1>6. \A x \in current' : x.box = Box(o)
  <2>1. k \in Stored
    BY <1>5 DEF TypeOK
  <2>2. [k EXCEPT !.box = Box(o)].box = Box(o)
    BY <1>4, <2>1, BoxedType
  <2> QED  BY <1>5, <2>2
<1>7. PlaceInv'
  BY <1>2, <1>3 DEF PlaceInv, At, Replacing
<1>8. AloneInv' /\ HeldInv'
  BY <1>2, <1>3 DEF AloneInv, HeldInv, At, Protecting, Replacing
<1>9. ReplaceInv'
  <2>1. RowIsCurrent'
    BY <1>2 DEF RowIsCurrent
  <2>2. At(Replacing)' = At(Replacing) /\ At({"current"})' = At({"current"})
    BY <1>2 DEF At, Replacing
  <2> QED  BY <1>3, <2>1, <2>2 DEF ReplaceInv
<1>10. CleanInv'
  BY <1>2, <1>3, <1>6 DEF CleanInv, Progress, At, Protecting
<1>11. SigningWorks'
  BY <1>2, <1>6 DEF SigningWorks, Opens, Box
<1>12. RandomInv'
  BY <1>2, <1>4, <1>6 DEF RandomInv, Box
<1> QED  BY <1>1, <1>7, <1>8, <1>9, <1>10, <1>11, <1>12

LEMMA ProtectFailsStep ==
  ASSUME IInv, NEW r \in Request, NEW o \in Protection, ProtectFails(r, o)
  PROVE  IInv'
<1> USE DEF IInv
<1>1. TypeOK'
  BY ProtectType
<1>2. /\ process = "up" /\ process' = "up" /\ pc[r] = "due" /\ pc'[r] = "done"
      /\ \A q \in Request : q # r => pc'[q] = pc[q]
      /\ options' = o
      /\ UNCHANGED <<record, envFile, configFile, env, config, want, text, hand>>
  BY DEF ProtectFails, Begin, Go, TypeOK, files
<1>3. /\ trouble \cup {"failed"} \subseteq trouble'
      /\ trouble' \subseteq trouble \cup {"failed", "raced"}
      /\ "raced" \notin trouble' => \A q \in Request : pc[q] \in {"due", "done"}
  BY DEF ProtectFails, Busy, At
<1>4. o \in Options /\ Box(o) \notin Random
  BY ProtectionType
<1>5. PICK k \in current : current' = {[k EXCEPT !.box = Box(o)]}
  BY DEF ProtectFails
<1>6. \A x \in current' : x.box = Box(o)
  <2>1. k \in Stored
    BY <1>5 DEF TypeOK
  <2>2. [k EXCEPT !.box = Box(o)].box = Box(o)
    BY <1>4, <2>1, BoxedType
  <2> QED  BY <1>5, <2>2
<1>7. PlaceInv'
  BY <1>2, <1>3 DEF PlaceInv, At, Replacing
<1>8. AloneInv' /\ HeldInv'
  BY <1>2, <1>3 DEF AloneInv, HeldInv, At, Protecting, Replacing
<1>9. ReplaceInv'
  <2>1. NodeIDs(current') = NodeIDs(current)
    <3>1. k \in Stored /\ current = {k}
      BY <1>5 DEF TypeOK
    <3>2. [k EXCEPT !.box = Box(o)].key = k.key
      BY <3>1 DEF Stored
    <3> QED  BY <1>5, <3>1, <3>2 DEF NodeIDs
  <2>2. At(Replacing)' = At(Replacing) /\ At({"current"})' = At({"current"})
    BY <1>2 DEF At, Replacing
  <2>3. RowIsCurrent => RowIsCurrent'
    BY <1>2, <1>3, <2>1 DEF RowIsCurrent, NodeIDs
  <2> QED  BY <1>2, <1>3, <2>2, <2>3 DEF ReplaceInv
<1>10. CleanInv'
  BY <1>3 DEF CleanInv
<1>11. SigningWorks'
  BY <1>2, <1>6 DEF SigningWorks, Opens, Box
<1>12. RandomInv'
  <2>1. "raced" \notin trouble' => At(Protecting)' = {} /\ At({"write other"}) = {}
    BY <1>2, <1>3 DEF At, Protecting
  <2>2. \A p : "raced" \notin trouble' /\ Kept(p) => Kept(p)'
    BY <1>2, <2>1 DEF Kept
  <2> QED  BY <1>2, <1>3, <1>4, <2>2 DEF RandomInv, Box
<1> QED  BY <1>1, <1>7, <1>8, <1>9, <1>10, <1>11, <1>12

\* While a change of the protection is alone the others are due or done, the process
\* is up, and no random passphrase is in use.
LEMMA ProtectingAlone ==
  ASSUME IInv, NEW r \in Request, pc[r] \in Protecting
  PROVE  /\ process = "up"
         /\ "raced" \notin trouble => \A q \in Request : q # r => pc[q] \in {"due", "done"}
         /\ trouble \cap {"raced", "torn"} = {} =>
              (\A k \in record : k.box \notin Random) /\ Box(options) \notin Random
         /\ trouble \subseteq {"crossed"} => Progress(r)
<1> USE DEF IInv
<1>1. process = "up"
  BY DEF PlaceInv, Protecting
<1>2. r \in At(Protecting)
  BY DEF At
<1>3. "raced" \notin trouble => \A q \in Request : q # r => pc[q] \in {"due", "done"}
  BY <1>2 DEF AloneInv
<1>4. trouble \cap {"raced", "torn"} = {} =>
              (\A k \in record : k.box \notin Random) /\ Box(options) \notin Random
  BY <1>1, <1>2 DEF RandomInv, Kept
<1>5. trouble \subseteq {"crossed"} => Progress(r)
  BY <1>1, <1>2 DEF CleanInv
<1> QED  BY <1>1, <1>3, <1>4, <1>5

\* A step of a change of the protection that does not fail, by what it leaves alone.
LEMMA ProtectingStep ==
  ASSUME IInv, TypeOK', NEW r \in Request, pc[r] \in Protecting,
         pc'[r] \in Protecting \cup {"done"},
         \A q \in Request : q # r => pc'[q] = pc[q] /\ hand'[q] = hand[q],
         UNCHANGED <<process, record, current, options>>,
         trouble \subseteq trouble', trouble' \subseteq trouble \cup {"failed", "torn"},
         trouble' = trouble \/ "failed" \in trouble',
         trouble' \subseteq {"crossed"} =>
           IF pc'[r] = "done" THEN MemoryAgrees' ELSE Progress(r)'
  PROVE  IInv'
<1> USE DEF IInv
<1>1. /\ process = "up"
      /\ "raced" \notin trouble => \A q \in Request : q # r => pc[q] \in {"due", "done"}
      /\ trouble \cap {"raced", "torn"} = {} =>
           (\A k \in record : k.box \notin Random) /\ Box(options) \notin Random
  BY ProtectingAlone
<1>2. PlaceInv'
  BY <1>1 DEF PlaceInv, At, Replacing, Protecting
<1>3. AloneInv' /\ HeldInv'
  BY <1>1 DEF AloneInv, HeldInv, At, Protecting, Replacing
<1>4. ReplaceInv'
  <2>1. At(Replacing)' = At(Replacing) /\ At({"current"})' = At({"current"})
    BY DEF At, Replacing, Protecting
  <2>2. RowIsCurrent => RowIsCurrent'
    BY DEF RowIsCurrent, NodeIDs
  <2>3. \A q \in At({"current"}) : hand'[q] = hand[q]
    BY DEF At, Protecting
  <2> QED  BY <2>1, <2>2, <2>3 DEF ReplaceInv
<1>5. CleanInv'
  <2> SUFFICES ASSUME trouble' \subseteq {"crossed"}
               PROVE  /\ At(Protecting)' = {} => MemoryAgrees'
                      /\ \A q \in At(Protecting)' : Progress(q)'
    BY <1>1 DEF CleanInv, Box
  <2>1. At(Protecting)' = IF pc'[r] = "done" THEN {} ELSE {r}
    BY <1>1 DEF At, Protecting
  <2> QED  BY <2>1
<1>6. SigningWorks'
  BY DEF SigningWorks, Opens
<1>7. RandomInv'
  BY <1>1 DEF RandomInv, Box
<1> QED  BY <1>2, <1>3, <1>4, <1>5, <1>6, <1>7

LEMMA SetSecretStep == ASSUME IInv, NEW r \in Request, SetSecret(r) PROVE IInv'
<1>1. /\ pc[r] \in Protecting /\ pc'[r] = "open env" /\ pc'[r] \in Protecting
      /\ \A q \in Request : q # r => pc'[q] = pc[q]
      /\ UNCHANGED <<process, record, current, options, hand, trouble, want>>
      /\ env' = want[r]
  BY DEF SetSecret, Go, IInv, TypeOK, files, Protecting
<1>2. TypeOK'
  BY RequestType DEF IInv
<1>3. trouble' \subseteq {"crossed"} => Progress(r)'
  BY <1>1, ProtectingAlone DEF Progress, Box
<1> QED  BY <1>1, <1>2, <1>3, ProtectingStep

LEMMA OpenKeyStep ==
  ASSUME IInv, NEW r \in Request, OpenEnv(r), pc[r] = "open env"
  PROVE  IInv'
<1>1. /\ pc[r] \in Protecting /\ pc'[r] = "write env" /\ pc'[r] \in Protecting
      /\ \A q \in Request : q # r => pc'[q] = pc[q]
      /\ UNCHANGED <<process, record, current, options, hand, trouble, want, env>>
  BY DEF OpenEnv, Go, IInv, TypeOK, memory, Protecting
<1>2. TypeOK'
  BY RequestType DEF IInv
<1>3. trouble' \subseteq {"crossed"} => Progress(r)'
  BY <1>1, ProtectingAlone DEF Progress, Box
<1> QED  BY <1>1, <1>2, <1>3, ProtectingStep

LEMMA WriteKeyStep ==
  ASSUME IInv, NEW r \in Request, WriteEnv(r), pc[r] = "write env"
  PROVE  IInv'
<1>1. /\ pc[r] \in Protecting /\ pc'[r] = "config" /\ pc'[r] \in Protecting
      /\ \A q \in Request : q # r => pc'[q] = pc[q]
      /\ UNCHANGED <<process, record, current, options, hand, trouble, want, env>>
      /\ envFile' = want[r]
  BY DEF WriteEnv, Go, IInv, TypeOK, memory, Protecting
<1>2. TypeOK'
  BY RequestType DEF IInv
<1>3. trouble' \subseteq {"crossed"} => Progress(r)'
  BY <1>1, ProtectingAlone DEF Progress, Box
<1> QED  BY <1>1, <1>2, <1>3, ProtectingStep

\* The last steps of a request leave the others alone.
LEMMA FinishFacts ==
  ASSUME TypeOK, NEW r \in Request, NEW outcome, Finish(r, outcome)
  PROVE  /\ pc'[r] = "done" /\ trouble' = trouble \cup outcome
         /\ \A q \in Request : q # r =>
              pc'[q] = pc[q] /\ want'[q] = want[q] /\ text'[q] = text[q] /\ hand'[q] = hand[q]
BY DEF Finish, Go, TypeOK

LEMMA OpenKeyFailsStep ==
  ASSUME IInv, NEW r \in Request, OpenFails(r), pc[r] = "open env"
  PROVE  IInv'
<1>1. /\ pc[r] \in Protecting /\ UNCHANGED <<process, record, current, options>>
      /\ Finish(r, {"failed"})
  BY DEF OpenFails, files, memory, Protecting
<1>2. /\ pc'[r] = "done" /\ trouble' = trouble \cup {"failed"}
      /\ \A q \in Request : q # r => pc'[q] = pc[q] /\ hand'[q] = hand[q]
  BY <1>1, FinishFacts DEF IInv
<1>3. TypeOK'
  BY RequestType DEF IInv
<1> QED  BY <1>1, <1>2, <1>3, ProtectingStep

LEMMA WriteKeyFailsStep ==
  ASSUME IInv, NEW r \in Request, WriteFails(r), pc[r] \in Protecting
  PROVE  IInv'
<1>1. UNCHANGED <<process, record, current, options>> /\ Finish(r, {"failed", "torn"})
  BY DEF WriteFails, files, memory
<1>2. /\ pc'[r] = "done" /\ trouble' = trouble \cup {"failed", "torn"}
      /\ \A q \in Request : q # r => pc'[q] = pc[q] /\ hand'[q] = hand[q]
  BY <1>1, FinishFacts DEF IInv
<1>3. TypeOK'
  BY RequestType DEF IInv
<1> QED  BY <1>1, <1>2, <1>3, ProtectingStep

LEMMA SetConfigStep == ASSUME IInv, NEW r \in Request, SetConfig(r) PROVE IInv'
<1>1. /\ pc[r] = "config" /\ pc[r] \in Protecting
      /\ UNCHANGED <<process, record, current, options, env, envFile>>
      /\ config' = (want[r] # NoPass)
  BY DEF SetConfig, Protecting
<1>2. TypeOK'
  BY RequestType DEF IInv
<1>3. CASE Go(r, "write config") /\ text' = [text EXCEPT ![r] = config'] /\ UNCHANGED <<want, hand, trouble>>
  <2>1. /\ pc'[r] = "write config" /\ pc'[r] \in Protecting /\ text'[r] = config'
        /\ \A q \in Request : q # r => pc'[q] = pc[q]
    BY <1>3 DEF Go, IInv, TypeOK, Protecting
  <2>2. trouble' \subseteq {"crossed"} => Progress(r)'
    BY <1>1, <1>3, <2>1, ProtectingAlone DEF Progress, Box
  <2> QED  BY <1>1, <1>2, <1>3, <2>1, <2>2, ProtectingStep
<1>4. CASE Finish(r, {"failed"})
  <2>1. /\ pc'[r] = "done" /\ trouble' = trouble \cup {"failed"}
        /\ \A q \in Request : q # r => pc'[q] = pc[q] /\ hand'[q] = hand[q]
    BY <1>4, FinishFacts DEF IInv
  <2> QED  BY <1>1, <1>2, <2>1, ProtectingStep
<1> QED  BY <1>3, <1>4 DEF SetConfig

LEMMA WriteProtectionStep ==
  ASSUME IInv, NEW r \in Request, WriteConfig(r), pc[r] = "write config"
  PROVE  IInv'
<1>1. /\ pc[r] \in Protecting /\ Finish(r, {}) /\ configFile' = text[r]
      /\ UNCHANGED <<process, record, current, options, env, envFile, config>>
  BY DEF WriteConfig, memory, Protecting
<1>2. /\ pc'[r] = "done" /\ trouble' = trouble \cup {}
      /\ \A q \in Request : q # r => pc'[q] = pc[q] /\ hand'[q] = hand[q]
  BY <1>1, FinishFacts DEF IInv
<1>3. TypeOK'
  BY RequestType DEF IInv
<1>4. ASSUME trouble \subseteq {"crossed"}
      PROVE  MemoryAgrees'
  <2>1. /\ want[r] = Box(options) /\ env = want[r] /\ envFile = want[r]
        /\ config = text[r] /\ config = (want[r] # NoPass)
    BY <1>1, <1>4, ProtectingAlone DEF Progress
  <2>2. /\ config \in BOOLEAN /\ options \in Options
        /\ (options.encrypt => options.pass # NoPass) /\ env # Torn
    BY ConstantsAssumption DEF IInv, TypeOK, Pass
  <2>3. config = options.encrypt /\ (config => env = options.pass)
    BY <2>1, <2>2 DEF Box, Options
  <2>4. env' = ReadEnv' /\ config' = (configFile' = TRUE)
    BY <1>1, <2>1, <2>2 DEF ReadEnv
  <2> QED  BY <1>1, <2>3, <2>4 DEF MemoryAgrees
<1> QED  BY <1>1, <1>2, <1>3, <1>4, ProtectingStep
-----------------------------------------------------------------------------
(* Other saves.                                                            *)

\* While another page saves the protection is not being changed, or they have raced.
LEMMA SavingAlone ==
  ASSUME IInv, NEW r \in Request, pc[r] \in {"open other", "write other", "write settings"}
  PROVE  /\ process = "up" /\ r \notin At(Protecting) /\ r \notin At(Replacing)
         /\ "raced" \notin trouble => At(Protecting) = {}
<1>1. process = "up"
  BY DEF IInv, PlaceInv
<1>2. r \notin At(Protecting) /\ r \notin At(Replacing)
  BY DEF At, Protecting, Replacing
<1>3. ASSUME NEW q \in At(Protecting)
      PROVE  "raced" \in trouble
  BY <1>2, <1>3 DEF IInv, AloneInv, At
<1> QED  BY <1>1, <1>2, <1>3

\* A step of another save, by what it leaves alone; it may begin only while the
\* protection is not being changed, or they race.
LEMMA SavingStep ==
  ASSUME IInv, TypeOK', NEW r \in Request, process = "up",
         pc[r] \in {"due", "open other", "write other", "write settings"},
         pc'[r] \in {"open other", "write other", "write settings", "done"},
         \A q \in Request : q # r =>
           pc'[q] = pc[q] /\ want'[q] = want[q] /\ text'[q] = text[q] /\ hand'[q] = hand[q],
         UNCHANGED <<process, record, env, config, current, options>>,
         trouble' \in {trouble, trouble \cup {"raced"}, trouble \cup {"failed", "torn"}},
         "raced" \notin trouble' => At(Protecting) = {},
         "raced" \notin trouble' /\ pc'[r] \in {"open other", "write other"} => want'[r] = env,
         "raced" \notin trouble' /\ pc'[r] = "write settings" => text'[r] = config,
         trouble' \subseteq {"crossed"} /\ MemoryAgrees => MemoryAgrees',
         trouble' \cap {"raced", "torn"} = {} => \A p : Kept(p) => Kept(p)'
  PROVE  IInv'
<1> USE DEF IInv
<1>1. PlaceInv'
  BY DEF PlaceInv, At, Replacing
<1>2. AloneInv' /\ ("raced" \notin trouble' => At(Protecting)' = {})
  BY DEF AloneInv, At, Protecting
<1>3. HeldInv'
  BY DEF HeldInv, At, Replacing, Box
<1>4. ReplaceInv'
  <2>1. At(Replacing)' = At(Replacing) /\ At({"current"})' = At({"current"})
    BY DEF At, Replacing
  <2>2. RowIsCurrent => RowIsCurrent'
    BY DEF RowIsCurrent, NodeIDs
  <2>3. \A q \in At({"current"}) : hand'[q] = hand[q]
    BY DEF At
  <2> QED  BY <2>1, <2>2, <2>3 DEF ReplaceInv
<1>5. CleanInv'
  BY <1>2 DEF CleanInv, Box
<1>6. SigningWorks'
  BY DEF SigningWorks, Opens
<1>7. RandomInv'
  BY DEF RandomInv, Box
<1> QED  BY <1>1, <1>2, <1>3, <1>4, <1>5, <1>6, <1>7

LEMMA SetOtherSecretStep == ASSUME IInv, NEW r \in Request, SetOtherSecret(r) PROVE IInv'
<1>1. /\ process = "up" /\ pc[r] = "due" /\ pc'[r] = "open other" /\ want'[r] = env
      /\ \A q \in Request : q # r =>
           pc'[q] = pc[q] /\ want'[q] = want[q] /\ text'[q] = text[q] /\ hand'[q] = hand[q]
      /\ UNCHANGED <<process, record, envFile, configFile, env, config, current, options>>
  BY DEF SetOtherSecret, Begin, Go, IInv, TypeOK, files, memory
<1>2. /\ trouble' \in {trouble, trouble \cup {"raced"}}
      /\ "raced" \notin trouble' => At(Protecting) = {}
  BY DEF SetOtherSecret, Meets
<1>3. TypeOK'
  BY RequestType DEF IInv
<1>4. At({"write other"})' = At({"write other"}) /\ At({"write settings"})' = At({"write settings"})
  BY <1>1 DEF At
<1>5. MemoryAgrees => MemoryAgrees'
  BY <1>1, <1>4 DEF MemoryAgrees, ReadEnv
<1>6. "raced" \notin trouble' => \A p : Kept(p) => Kept(p)'
  BY <1>1, <1>2, <1>4 DEF Kept, At, Protecting
<1> QED  BY <1>1, <1>2, <1>3, <1>5, <1>6, SavingStep

LEMMA OpenOtherStep ==
  ASSUME IInv, NEW r \in Request, OpenEnv(r), pc[r] = "open other"
  PROVE  IInv'
<1>1. /\ pc'[r] = "write other" /\ trouble' = trouble
      /\ \A q \in Request : q # r =>
           pc'[q] = pc[q] /\ want'[q] = want[q] /\ text'[q] = text[q] /\ hand'[q] = hand[q]
      /\ UNCHANGED <<process, record, configFile, env, config, current, options, want>>
  BY DEF OpenEnv, Go, IInv, TypeOK, memory
<1>2. process = "up" /\ ("raced" \notin trouble => At(Protecting) = {})
  BY SavingAlone
<1>3. TypeOK'
  BY RequestType DEF IInv
<1>4. At({"write other"})' # {} /\ At({"write settings"})' = At({"write settings"})
  BY <1>1 DEF At
<1>5. "raced" \notin trouble => want'[r] = env
  BY <1>1 DEF IInv, HeldInv, At
<1>6. MemoryAgrees => MemoryAgrees'
  BY <1>1, <1>4 DEF MemoryAgrees
<1>7. "raced" \notin trouble' => \A p : Kept(p) => Kept(p)'
  BY <1>1, <1>2, <1>4 DEF Kept, At, Protecting
<1> QED  BY <1>1, <1>2, <1>3, <1>5, <1>6, <1>7, SavingStep

LEMMA WriteOtherStep ==
  ASSUME IInv, NEW r \in Request, WriteEnv(r), pc[r] = "write other"
  PROVE  IInv'
<1>1. /\ Finish(r, {}) /\ envFile' = want[r]
      /\ UNCHANGED <<process, record, configFile, env, config, current, options>>
  BY DEF WriteEnv, memory
<1>2. /\ pc'[r] = "done" /\ trouble' = trouble \cup {}
      /\ \A q \in Request : q # r =>
           pc'[q] = pc[q] /\ want'[q] = want[q] /\ text'[q] = text[q] /\ hand'[q] = hand[q]
  BY <1>1, FinishFacts DEF IInv
<1>3. process = "up" /\ ("raced" \notin trouble => At(Protecting) = {})
  BY SavingAlone
<1>4. TypeOK'
  BY RequestType DEF IInv
<1>5. At({"write settings"})' = At({"write settings"})
  BY <1>2 DEF At
<1>6. "raced" \notin trouble => envFile' = env /\ ReadEnv' = env'
  <2>1. env # Torn
    BY ConstantsAssumption DEF IInv, TypeOK, Pass
  <2>2. "raced" \notin trouble => want[r] = env
    BY DEF IInv, HeldInv, At
  <2> QED  BY <1>1, <2>1, <2>2 DEF ReadEnv
<1>7. "raced" \notin trouble /\ MemoryAgrees => MemoryAgrees'
  BY <1>1, <1>5, <1>6 DEF MemoryAgrees
<1>8. "raced" \notin trouble => \A p : Kept(p) => Kept(p)'
  BY <1>1, <1>2, <1>3, <1>6 DEF Kept, At, Protecting
<1> QED  BY <1>1, <1>2, <1>3, <1>4, <1>7, <1>8, SavingStep

LEMMA SaveSettingsStep == ASSUME IInv, NEW r \in Request, SaveSettings(r) PROVE IInv'
<1>1. /\ process = "up" /\ pc[r] = "due" /\ pc'[r] = "write settings" /\ text'[r] = config
      /\ \A q \in Request : q # r =>
           pc'[q] = pc[q] /\ want'[q] = want[q] /\ text'[q] = text[q] /\ hand'[q] = hand[q]
      /\ UNCHANGED <<process, record, envFile, env, config, current, options>>
  BY DEF SaveSettings, Begin, Go, IInv, TypeOK, memory
<1>2. /\ trouble' \in {trouble, trouble \cup {"raced"}}
      /\ "raced" \notin trouble' => At(Protecting) = {}
  BY DEF SaveSettings, Meets
<1>3. TypeOK'
  BY RequestType DEF IInv
<1>4. At({"write other"})' = At({"write other"}) /\ At({"write settings"})' # {}
  BY <1>1 DEF At
<1>5. MemoryAgrees => MemoryAgrees'
  BY <1>1, <1>4 DEF MemoryAgrees, ReadEnv
<1>6. "raced" \notin trouble' => \A p : Kept(p) => Kept(p)'
  BY <1>1, <1>2, <1>4 DEF Kept, At, Protecting
<1> QED  BY <1>1, <1>2, <1>3, <1>5, <1>6, SavingStep

LEMMA WriteSettingsStep ==
  ASSUME IInv, NEW r \in Request, WriteConfig(r), pc[r] = "write settings"
  PROVE  IInv'
<1>1. /\ Finish(r, {}) /\ configFile' = text[r]
      /\ UNCHANGED <<process, record, envFile, env, config, current, options>>
  BY DEF WriteConfig, memory
<1>2. /\ pc'[r] = "done" /\ trouble' = trouble \cup {}
      /\ \A q \in Request : q # r =>
           pc'[q] = pc[q] /\ want'[q] = want[q] /\ text'[q] = text[q] /\ hand'[q] = hand[q]
  BY <1>1, FinishFacts DEF IInv
<1>3. process = "up" /\ ("raced" \notin trouble => At(Protecting) = {})
  BY SavingAlone
<1>4. TypeOK'
  BY RequestType DEF IInv
<1>5. At({"write other"})' = At({"write other"})
  BY <1>2 DEF At
<1>6. "raced" \notin trouble => config' = (configFile' = TRUE)
  <2>1. config \in BOOLEAN
    BY DEF IInv, TypeOK
  <2>2. "raced" \notin trouble => text[r] = config
    BY DEF IInv, HeldInv, At
  <2> QED  BY <1>1, <2>1, <2>2
<1>7. "raced" \notin trouble /\ MemoryAgrees => MemoryAgrees'
  BY <1>1, <1>5, <1>6 DEF MemoryAgrees, ReadEnv
<1>8. "raced" \notin trouble => \A p : Kept(p) => Kept(p)'
  BY <1>1, <1>2, <1>3, <1>5 DEF Kept, At, Protecting
<1> QED  BY <1>1, <1>2, <1>3, <1>4, <1>7, <1>8, SavingStep

LEMMA OpenOtherFailsStep ==
  ASSUME IInv, NEW r \in Request, OpenFails(r), pc[r] = "open other"
  PROVE  IInv'
<1>1. /\ Finish(r, {})
      /\ UNCHANGED <<process, record, envFile, configFile, env, config, current, options>>
  BY DEF OpenFails, files, memory
<1>2. /\ pc'[r] = "done" /\ trouble' = trouble \cup {}
      /\ \A q \in Request : q # r =>
           pc'[q] = pc[q] /\ want'[q] = want[q] /\ text'[q] = text[q] /\ hand'[q] = hand[q]
  BY <1>1, FinishFacts DEF IInv
<1>3. process = "up" /\ ("raced" \notin trouble => At(Protecting) = {})
  BY SavingAlone
<1>4. TypeOK'
  BY RequestType DEF IInv
<1>5. At({"write other"})' = At({"write other"}) /\ At({"write settings"})' = At({"write settings"})
  BY <1>2 DEF At
<1>6. MemoryAgrees => MemoryAgrees'
  BY <1>1, <1>5 DEF MemoryAgrees, ReadEnv
<1>7. "raced" \notin trouble => \A p : Kept(p) => Kept(p)'
  BY <1>1, <1>2, <1>3, <1>5 DEF Kept, At, Protecting
<1> QED  BY <1>1, <1>2, <1>3, <1>4, <1>6, <1>7, SavingStep

LEMMA WriteOtherFailsStep ==
  ASSUME IInv, NEW r \in Request, WriteFails(r), pc[r] \notin Protecting
  PROVE  IInv'
<1>1. /\ Finish(r, {"failed", "torn"}) /\ pc[r] \in {"write other", "write settings"}
      /\ UNCHANGED <<process, record, envFile, configFile, env, config, current, options>>
  BY DEF WriteFails, files, memory, Writing, Protecting
<1>2. /\ pc'[r] = "done" /\ trouble' = trouble \cup {"failed", "torn"}
      /\ \A q \in Request : q # r =>
           pc'[q] = pc[q] /\ want'[q] = want[q] /\ text'[q] = text[q] /\ hand'[q] = hand[q]
  BY <1>1, FinishFacts DEF IInv
<1>3. process = "up" /\ ("raced" \notin trouble => At(Protecting) = {})
  BY <1>1, SavingAlone
<1>4. TypeOK'
  BY RequestType DEF IInv
<1> QED  BY <1>1, <1>2, <1>3, <1>4, SavingStep
-----------------------------------------------------------------------------
(* Replacing the key.                                                      *)

LEMMA GenerateStep ==
  ASSUME IInv, NEW r \in Request, NEW k \in Key, Generate(r, k)
  PROVE  IInv'
<1> USE DEF IInv
<1>1. TypeOK'
  BY ReplaceType
<1>2. /\ process = "up" /\ process' = "up" /\ pc[r] = "due" /\ pc'[r] = "replace"
      /\ \A q \in Request : q # r => pc'[q] = pc[q] /\ hand'[q] = hand[q]
      /\ hand'[r] = {[key |-> k, box |-> Box(options)]}
      /\ UNCHANGED <<record, envFile, configFile, env, config, current, options, want, text>>
  BY DEF Generate, Begin, Go, TypeOK, files, memory
<1>3. /\ trouble \subseteq trouble' /\ trouble' \subseteq trouble \cup {"raced", "crossed"}
      /\ "raced" \notin trouble' => At(Protecting) = {}
      /\ "crossed" \notin trouble' => At(Replacing) = {}
  BY DEF Generate
<1>4. At(Protecting)' = At(Protecting) /\ At({"current"})' = At({"current"})
      /\ At({"write other"})' = At({"write other"})
      /\ At({"write settings"})' = At({"write settings"})
      /\ At({"open other", "write other"})' = At({"open other", "write other"})
      /\ At(Replacing)' = At(Replacing) \cup {r}
  BY <1>2 DEF At, Protecting, Replacing
<1>5. PlaceInv'
  BY ZenonT(40), <1>2, <1>3 DEF PlaceInv, At, Replacing
<1>6. AloneInv'
  BY <1>3, <1>4 DEF AloneInv
<1>7. HeldInv'
  <2> SUFFICES ASSUME "raced" \notin trouble'
               PROVE  /\ \A q \in At(Replacing)' : \A x \in hand'[q] : x.box = Box(options)
                      /\ \A q \in At({"open other", "write other"}) : want[q] = env
                      /\ \A q \in At({"write settings"}) : text[q] = config
    BY <1>2, <1>4 DEF HeldInv, Box
  <2>1. \A x \in hand'[r] : x.box = Box(options)
    BY <1>2
  <2>2. \A q \in At(Replacing) : q \in Request /\ q # r
    BY <1>2 DEF At, Replacing
  <2> QED  BY <1>2, <1>3, <1>4, <2>1, <2>2 DEF HeldInv
<1>8. ReplaceInv'
  <2>1. \A q \in At({"current"}) : q \in Request /\ q # r
    BY <1>2 DEF At
  <2>2. "crossed" \notin trouble' => \A p, q \in At(Replacing)' : p = q
    BY <1>3, <1>4
  <2>3. RowIsCurrent => RowIsCurrent'
    BY <1>2, <1>3 DEF RowIsCurrent, NodeIDs
  <2> QED  BY <1>2, <1>3, <1>4, <2>1, <2>2, <2>3 DEF ReplaceInv
<1>9. CleanInv'
  <2>1. MemoryAgrees => MemoryAgrees'
    BY <1>2, <1>4 DEF MemoryAgrees, ReadEnv
  <2>2. trouble' \subseteq {"crossed"} => At(Protecting) = {}
    BY <1>3
  <2> QED  BY ZenonT(40), <1>2, <1>3, <1>4, <2>1, <2>2 DEF CleanInv, Box
<1>10. SigningWorks'
  BY <1>2, <1>3 DEF SigningWorks, Opens
<1>11. RandomInv'
  <2>1. \A p : Kept(p) => Kept(p)'
    BY <1>2, <1>4 DEF Kept
  <2> QED  BY <1>2, <1>3, <2>1 DEF RandomInv, Box
<1> QED  BY <1>1, <1>5, <1>6, <1>7, <1>8, <1>9, <1>10, <1>11

\* What a step that goes on replacing the key leaves as it was.
LEMMA ReplacingStep ==
  ASSUME IInv, TypeOK', NEW r \in Request, pc[r] \in Replacing,
         pc'[r] \in {"current", "done"}, trouble' = trouble,
         \A q \in Request : q # r =>
           pc'[q] = pc[q] /\ want'[q] = want[q] /\ text'[q] = text[q] /\ hand'[q] = hand[q],
         pc'[r] = "current" => hand'[r] = hand[r],
         UNCHANGED <<process, envFile, configFile, env, config, options>>,
         record' \in {record, hand[r]}, current' \in {current, hand[r]}
  PROVE  /\ process = "up" /\ PlaceInv' /\ AloneInv' /\ HeldInv'
         /\ CleanInv' /\ SigningWorks' /\ RandomInv'
<1> USE DEF IInv
<1>1. process = "up"
  BY DEF PlaceInv, Replacing
<1>2. r \in At(Replacing)
  BY DEF At
<1>3. "raced" \notin trouble => \A k \in hand[r] : k.box = Box(options)
  BY <1>2 DEF HeldInv
<1>4. At(Protecting)' = At(Protecting) /\ At({"write other"})' = At({"write other"})
      /\ At({"write settings"})' = At({"write settings"})
      /\ At({"open other", "write other"})' = At({"open other", "write other"})
  BY DEF At, Protecting, Replacing
<1>5. PlaceInv'
  BY <1>1 DEF PlaceInv, At, Replacing
<1>6. AloneInv'
  BY DEF AloneInv, At, Protecting, Replacing
<1>7. HeldInv'
  <2>1. \A q \in At(Replacing)' : q \in At(Replacing) /\ hand'[q] = hand[q]
    BY DEF At, Replacing
  <2>2. \A q \in At({"open other", "write other", "write settings"}) : q # r
    BY DEF At, Replacing
  <2> QED  BY <1>4, <2>1, <2>2 DEF HeldInv, Box, At
<1>8. CleanInv'
  <2> SUFFICES ASSUME trouble \subseteq {"crossed"}
               PROVE  /\ \A k \in record' \cup current' : k.box = Box(options)
                      /\ At(Protecting) = {} => MemoryAgrees'
                      /\ \A q \in At(Protecting) : Progress(q)'
    BY <1>1, <1>4 DEF CleanInv, Box
  <2>1. \A k \in record' \cup current' : k.box = Box(options)
    BY <1>1, <1>3 DEF CleanInv
  <2>2. At(Protecting) = {} => MemoryAgrees'
    BY <1>1, <1>4 DEF CleanInv, MemoryAgrees, ReadEnv
  <2>3. ASSUME NEW q \in At(Protecting)
        PROVE  Progress(q)'
    BY <1>1 DEF AloneInv, At, Replacing, Protecting
  <2> QED  BY <2>1, <2>2, <2>3
<1>9. SigningWorks'
  BY <1>3 DEF SigningWorks, Opens, Box
<1>10. RandomInv'
  <2>1. \A p : Kept(p) => Kept(p)'
    BY <1>4 DEF Kept
  <2> QED  BY <1>1, <1>3, <2>1 DEF RandomInv, Box
<1> QED  BY <1>1, <1>5, <1>6, <1>7, <1>8, <1>9, <1>10

LEMMA SaveIdentityStep == ASSUME IInv, NEW r \in Request, SaveIdentity(r) PROVE IInv'
<1>1. /\ pc[r] = "replace" /\ pc[r] \in Replacing /\ pc'[r] = "current" /\ record' = hand[r]
      /\ \A q \in Request : q # r => pc'[q] = pc[q]
      /\ UNCHANGED <<process, envFile, configFile, env, config, current, options,
                     want, text, hand, trouble>>
  BY DEF SaveIdentity, Go, IInv, TypeOK, memory, Replacing
<1>2. TypeOK'
  BY ReplaceType DEF IInv
<1>3. /\ PlaceInv' /\ AloneInv' /\ HeldInv' /\ CleanInv' /\ SigningWorks' /\ RandomInv'
  BY <1>1, <1>2, ReplacingStep
<1>4. ReplaceInv'
  <2>1. At(Replacing)' = At(Replacing) /\ r \in At(Replacing) /\ r \in At({"current"})'
    BY <1>1 DEF At, Replacing
  <2>2. \A q \in At({"current"})' : q \in At(Replacing)'
    BY DEF At, Replacing
  <2> QED  BY <1>1, <2>1, <2>2 DEF IInv, ReplaceInv
<1> QED  BY <1>2, <1>3, <1>4 DEF IInv

LEMMA SaveIdentityFailsStep == ASSUME IInv, NEW r \in Request, SaveIdentityFails(r) PROVE IInv'
<1>1. /\ pc[r] = "replace" /\ pc[r] \in Replacing /\ Finish(r, {})
      /\ UNCHANGED <<process, record, envFile, configFile, env, config, current, options>>
  BY DEF SaveIdentityFails, files, memory, Replacing
<1>2. /\ pc'[r] = "done" /\ trouble' = trouble \cup {}
      /\ \A q \in Request : q # r =>
           pc'[q] = pc[q] /\ want'[q] = want[q] /\ text'[q] = text[q] /\ hand'[q] = hand[q]
  BY <1>1, FinishFacts DEF IInv
<1>3. TypeOK'
  BY ReplaceType DEF IInv
<1>4. /\ PlaceInv' /\ AloneInv' /\ HeldInv' /\ CleanInv' /\ SigningWorks' /\ RandomInv'
  BY <1>1, <1>2, <1>3, ReplacingStep
<1>5. ReplaceInv'
  <2>1. At({"current"})' = At({"current"})
    BY <1>1, <1>2 DEF At
  <2>2. \A q \in At(Replacing)' : q \in At(Replacing)
    BY <1>2 DEF At, Replacing
  <2>3. \A q \in At({"current"}) : hand'[q] = hand[q]
    BY <1>1, <1>2 DEF At
  <2>4. RowIsCurrent => RowIsCurrent'
    BY <1>1, <1>2 DEF RowIsCurrent, NodeIDs
  <2> QED  BY <1>1, <1>2, <2>1, <2>2, <2>3, <2>4 DEF IInv, ReplaceInv
<1> QED  BY <1>3, <1>4, <1>5 DEF IInv

LEMMA SetCurrentStep == ASSUME IInv, NEW r \in Request, SetCurrent(r) PROVE IInv'
<1>1. /\ pc[r] = "current" /\ pc[r] \in Replacing /\ Finish(r, {}) /\ current' = hand[r]
      /\ UNCHANGED <<process, record, envFile, configFile, env, config, options>>
  BY DEF SetCurrent, files, Replacing
<1>2. /\ pc'[r] = "done" /\ trouble' = trouble \cup {}
      /\ \A q \in Request : q # r =>
           pc'[q] = pc[q] /\ want'[q] = want[q] /\ text'[q] = text[q] /\ hand'[q] = hand[q]
  BY <1>1, FinishFacts DEF IInv
<1>3. TypeOK'
  BY ReplaceType DEF IInv
<1>4. /\ process = "up" /\ PlaceInv' /\ AloneInv' /\ HeldInv'
      /\ CleanInv' /\ SigningWorks' /\ RandomInv'
  BY <1>1, <1>2, <1>3, ReplacingStep
<1>5. ReplaceInv'
  <2>1. r \in At({"current"}) /\ r \in At(Replacing)
    BY <1>1 DEF At
  <2>2. \A q \in At(Replacing)' : q \in At(Replacing) /\ q # r
    BY <1>2 DEF At, Replacing
  <2>3. At({"current"})' \subseteq At(Replacing)'
    BY DEF At, Replacing
  <2>4. "crossed" \notin trouble => At(Replacing)' = {}
    BY <2>1, <2>2 DEF IInv, ReplaceInv
  <2>5. "crossed" \notin trouble => record = hand[r] /\ At({"current"})' = {}
    BY <1>4, <2>1, <2>3, <2>4 DEF IInv, ReplaceInv
  <2>6. "crossed" \notin trouble => RowIsCurrent'
    BY <1>1, <2>5 DEF RowIsCurrent
  <2> QED  BY <1>1, <1>2, <2>4, <2>5, <2>6 DEF ReplaceInv
<1> QED  BY <1>3, <1>4, <1>5 DEF IInv

-----------------------------------------------------------------------------
(* The invariant.                                                          *)

LEMMA StutterStep == IInv /\ UNCHANGED vars => IInv'
<1> SUFFICES ASSUME IInv, UNCHANGED vars
             PROVE  IInv'
  OBVIOUS
<1> USE DEF IInv, vars
<1>1. TypeOK'
  BY DEF TypeOK
<1>2. PlaceInv' /\ AloneInv'
  BY DEF PlaceInv, AloneInv, At, ReadEnv, Boxed
<1>3. HeldInv' /\ ReplaceInv'
  BY DEF HeldInv, ReplaceInv, RowIsCurrent, NodeIDs, At, Box
<1>4. CleanInv'
  BY DEF CleanInv, FilesOpen, MemoryAgrees, Progress, At, Box, ReadEnv
<1>5. SigningWorks' /\ RandomInv'
  BY DEF SigningWorks, Opens, RandomInv, Kept, At, Box
<1> QED  BY <1>1, <1>2, <1>3, <1>4, <1>5

LEMMA RequestStep ==
  ASSUME IInv, NEW r \in Request,
         \/ \E o \in Protection : Protect(r, o) \/ ProtectFails(r, o)
         \/ SetSecret(r) \/ SetOtherSecret(r) \/ OpenEnv(r) \/ WriteEnv(r)
         \/ SetConfig(r) \/ SaveSettings(r) \/ WriteConfig(r)
         \/ OpenFails(r) \/ WriteFails(r)
         \/ \E k \in Key : Generate(r, k)
         \/ SaveIdentity(r) \/ SaveIdentityFails(r) \/ SetCurrent(r)
  PROVE  IInv'
<1>1. CASE \E o \in Protection : Protect(r, o) \/ ProtectFails(r, o)
  BY <1>1, ProtectStep, ProtectFailsStep
<1>2. CASE OpenEnv(r)
  <2>1. pc[r] \in {"open env", "open other"}
    BY <1>2 DEF OpenEnv
  <2> QED  BY <1>2, <2>1, OpenKeyStep, OpenOtherStep
<1>3. CASE WriteEnv(r)
  <2>1. pc[r] \in {"write env", "write other"}
    BY <1>3 DEF WriteEnv
  <2> QED  BY <1>3, <2>1, WriteKeyStep, WriteOtherStep
<1>4. CASE WriteConfig(r)
  <2>1. pc[r] \in {"write config", "write settings"}
    BY <1>4 DEF WriteConfig
  <2> QED  BY <1>4, <2>1, WriteProtectionStep, WriteSettingsStep
<1>5. CASE OpenFails(r)
  <2>1. pc[r] \in {"open env", "open other"}
    BY <1>5 DEF OpenFails
  <2> QED  BY <1>5, <2>1, OpenKeyFailsStep, OpenOtherFailsStep
<1>6. CASE WriteFails(r)
  BY <1>6, WriteKeyFailsStep, WriteOtherFailsStep
<1> QED
  BY <1>1, <1>2, <1>3, <1>4, <1>5, <1>6, SetSecretStep, SetOtherSecretStep, SetConfigStep,
     SaveSettingsStep, GenerateStep, SaveIdentityStep, SaveIdentityFailsStep, SetCurrentStep

LEMMA Invariance == Spec => []IInv
<1>1. IInv /\ [Next]_vars => IInv'
  <2> SUFFICES ASSUME IInv, [Next]_vars
               PROVE  IInv'
    OBVIOUS
  <2>1. CASE UNCHANGED vars
    BY <2>1, StutterStep
  <2>2. CASE Next
    BY <2>2, BootStep, WebTokenStep, ReadPassphraseStep, MakePassphraseStep, SavePassphraseStep,
       LoadIdentityStep, CreateIdentityStep, EndStep, RequestStep DEF Next
  <2> QED  BY <2>1, <2>2
<1> QED  BY InitInv, <1>1, PTL DEF Spec

-----------------------------------------------------------------------------
(* Theorems.                                                               *)

\* Memory and files hold what they can hold; an identity is there exactly while
\* requests are served, and encryption is on only with a passphrase.
THEOREM TypeCorrect == Spec => []TypeOK
<1>1. IInv => TypeOK
  BY DEF IInv
<1> QED  BY <1>1, Invariance, PTL

\* Between the requests that save something, .env and config.yaml open the stored key,
\* so that a process killed there starts again with the same identity: whichever
\* passphrases were chosen and however often key and protection were replaced, as long
\* as no change of the protection met another request, and no step failed, left a file
\* torn or was cut off.
THEOREM RestartOpens == Spec => []RestartOpensKey
<1>1. IInv => RestartOpensKey
  <2> SUFFICES ASSUME IInv, trouble \subseteq {"crossed"}, At(Protecting) = {}, ~MidFile,
                      NEW k \in record, k.box # NoPass
               PROVE  configFile = TRUE /\ envFile = k.box
    BY DEF RestartOpensKey
  <2>1. CASE process # "up"
    BY <2>1 DEF IInv, CleanInv, FilesOpen, MidFile
  <2>2. CASE process = "up"
    <3>1. At(Protecting) = {} /\ At({"write other"}) = {} /\ At({"write settings"}) = {}
      BY DEF MidFile, At, Writing
    <3>2. k.box = Box(options) /\ MemoryAgrees
      BY <2>2, <3>1 DEF IInv, CleanInv
    <3> QED  BY <3>1, <3>2 DEF MemoryAgrees, ReadEnv, Box
  <2> QED  BY <2>1, <2>2
<1> QED  BY <1>1, Invariance, PTL

\* The identity service can always open its own key, even after failed steps, short of
\* a race of a change of the protection or of a start on what was left half done.
THEOREM SigningAlwaysWorks == Spec => []SigningWorks
<1>1. IInv => SigningWorks
  BY DEF IInv
<1> QED  BY <1>1, Invariance, PTL

\* While requests are served the row of local_identity holds the node ID in memory, and
\* the key boxed as in memory if no step has failed: except between the two assignments
\* of one replacement, and once two replacements have met, or a change of the protection
\* and that moment between the assignments.
THEOREM RecordCurrent == Spec => []RecordIsCurrent
<1>1. IInv => RecordIsCurrent
  BY DEF IInv, ReplaceInv, RowIsCurrent, RecordIsCurrent
<1> QED  BY <1>1, Invariance, PTL

\* A passphrase that EnsureRandom made, which nobody can type again, is in .env as long
\* as the stored key needs it, through failures and restarts, short of a torn file and
\* of a change of the protection that meets another request.
THEOREM RandomKept == Spec => []RandomPassphraseKept
<1>1. IInv => RandomPassphraseKept
  <2> SUFFICES ASSUME IInv, trouble \cap {"raced", "torn"} = {}, ~MidFile,
                      NEW k \in record, k.box \in Random
               PROVE  envFile = k.box
    BY DEF RandomPassphraseKept
  <2>1. At({"write other"}) = {} /\ process # "token"
    BY DEF MidFile, At, Writing
  <2> QED  BY <2>1 DEF IInv, RandomInv, Kept
<1> QED  BY <1>1, Invariance, PTL
=============================================================================
