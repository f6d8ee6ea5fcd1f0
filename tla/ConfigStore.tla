----------------------------- MODULE ConfigStore -----------------------------
(***************************************************************************)
(* The configuration stores of the MQTT and the OTA task                   *)
(* (components/application/mqtt_config.c, ota_config.c) and the requests   *)
(* of the TCP server that change them (api_mqtt.c, api_ota.c).             *)
(*                                                                         *)
(* A store is a table of values in memory, read at boot and written to     *)
(* flash, one after the other, when a request says so.  All requests are   *)
(* executed by the TCP server's task, one at a time, so nobody changes a   *)
(* value while the values are saved; but the power can fail anywhere, and  *)
(* every access to the flash can fail.                                     *)
(*                                                                         *)
(* NVS and SPIFFS are external.  A value handed to nvs_set is on the flash *)
(* after nvs_commit; before, or if the commit fails, it may or may not be. *)
(* The certificate is a file of its own.  The callback that MQTTConfig_Save*)
(* and OTAConfig_Save make first posts an event to the task that uses the  *)
(* values; MqttApp and OtaApp model what follows from it.                  *)
(*                                                                         *)
(* A string, number or flag is one of Values; a certificate is an array of *)
(* units with a terminator, as the code moves parts of it about.  A unit   *)
(* is a character after str_replace has put the line breaks back.          *)
(***************************************************************************)
EXTENDS Integers, Sequences

CONSTANTS
  Values,       \* what a string, number or flag can be
  Default,      \* the value the tables give as default
  Units,        \* what a certificate is made of
  Zero,         \* the terminator of a string
  None,         \* nothing on the flash
  CertSize,     \* MQTT_CERT_MAX_SIZE
  BlockSize,    \* sizeof( block.buff )
  SetKeys,      \* bound: the keys that are set, and fail to be read, alone
  MaxRequests,  \* bound: requests to set or save
  MaxTokens,    \* bound: values and blocks the requests carry
  MaxFaults,    \* bound: accesses to the flash that fail
  MaxCrashes    \* bound: times the power fails

ASSUME ValuesAssumption == Default \in Values
ASSUME UnitsAssumption == Zero \notin Units
ASSUME NoneAssumption == None \notin Values /\ None \notin [1..CertSize -> Units \cup {Zero}]
ASSUME SizesAssumption == CertSize \in Nat \ {0} /\ BlockSize \in Nat
ASSUME BoundsAssumption ==
  MaxRequests \in Nat /\ MaxTokens \in Nat /\ MaxFaults \in Nat /\ MaxCrashes \in Nat

\* config_values, in the order of the enumerations that index it.  The names
\* are prefixed where both tables have them.
MqttTable == <<"address", "ssl", "prefix", "post", "user", "pass", "cert">>
OtaTable == <<"ota_address", "tls", "tenant", "poll_time", "token">>

Stores == {"mqtt", "ota"}
Table(s) == IF s = "mqtt" THEN MqttTable ELSE OtaTable
KeysOf(s) == {Table(s)[i] : i \in DOMAIN Table(s)}
Keys == UNION {KeysOf(s) : s \in Stores}

ASSUME SetKeysAssumption == SetKeys \subseteq Keys

Arrays == [1..CertSize -> Units \cup {Zero}]
Certs == {c \in Arrays : c[CertSize] = Zero}
Empty == [i \in 1..CertSize |-> Zero]

\* The first n units of the string in array c, the rest cleared.
Cut(c, n) ==
  [i \in 1..CertSize |-> IF i <= n /\ \A j \in 1..i : c[j] # Zero THEN c[i] ELSE Zero]

\* What is read back of value v of key k once it was written completely.
Text(k, v) == IF k = "cert" THEN Cut(v, CertSize) ELSE v

\* What may be read back while v is being written.
Versions(k, v) == IF k = "cert" THEN {Cut(v, n) : n \in 0..CertSize} ELSE {v}

DefaultOf(k) == IF k = "cert" THEN Empty ELSE Default

VARIABLES
  mem,       \* config_data of both stores
  flash,     \* the values on the flash
  at,        \* the point the task is at
  store,     \* the store of the request
  next,      \* the index i in _save_data
  staged,    \* keys handed to nvs_set and not committed
  spoiled,   \* a write of this save failed
  block,     \* block.buff of api_mqtt.c, which is static
  offset,    \* block.offset; -1 when not set, and between requests
  answer,    \* the error code of the last request
  sent,      \* the data the request carries
  image,     \* the certificate as the accepted blocks spell it
  kept,      \* what the last save that was answered OK promised
  tried,     \* what saves begun since then may have left on the flash
  fresh,     \* keys that are as the last boot read them
  requests,  \* requests so far
  tokens,    \* values and blocks so far
  faults,    \* accesses to the flash that failed
  crashes    \* failures of the power

request == <<at, store, answer>>
saving == <<next, staged, spoiled>>
upload == <<block, offset, sent, image>>
promise == <<kept, tried>>
vars == <<mem, flash, request, saving, upload, promise, fresh,
          requests, tokens, faults, crashes>>

Buffers == [1..BlockSize -> Units \cup {Zero}]
Clear == [i \in 1..BlockSize |-> Zero]

\* A first boot: nothing was ever saved, so every value is the default.
Init ==
  /\ mem = [k \in Keys |-> DefaultOf(k)]
  /\ flash = [k \in Keys |-> None]
  /\ at = "idle"
  /\ store = "mqtt"
  /\ next = 1
  /\ staged = {}
  /\ spoiled = FALSE
  /\ block = Clear
  /\ offset = -1
  /\ answer = "OK"
  /\ sent = Clear
  /\ image = Empty
  /\ kept = [k \in Keys |-> DefaultOf(k)]
  /\ tried = [k \in Keys |-> {}]
  /\ fresh = Keys
  /\ requests = 0
  /\ tokens = 0
  /\ faults = 0
  /\ crashes = 0

\* No save is under way any more.
SaveOver == next' = 1 /\ staged' = {} /\ spoiled' = FALSE

Begins == at = "idle" /\ requests < MaxRequests /\ requests' = requests + 1
Fault == faults < MaxFaults /\ faults' = faults + 1

-----------------------------------------------------------------------------
(* setMQTT and setOTA.                                                     *)

SetRequest(s) ==
  /\ Begins
  /\ at' = "set"
  /\ store' = s
  /\ answer' = "OK"
  /\ UNCHANGED <<mem, flash, saving, upload, promise, fresh, tokens, faults, crashes>>

\* One token of the request.  Tokens are executed one by one; a later one that
\* is refused does not undo it.
SetValue(k, v) ==
  /\ at = "set"
  /\ tokens < MaxTokens
  /\ tokens' = tokens + 1
  /\ mem' = [mem EXCEPT ![k] = v]
  /\ fresh' = fresh \ {k}
  /\ UNCHANGED <<flash, request, saving, upload, promise, requests, faults, crashes>>

\* A token whose string does not fit.  One of the wrong type is not executed.
SetRefused ==
  /\ at = "set"
  /\ answer' = "FAIL"
  /\ UNCHANGED <<mem, flash, at, store, saving, upload, promise, fresh,
                 requests, tokens, faults, crashes>>

SetAnswer ==
  /\ at = "set"
  /\ at' = "idle"
  /\ UNCHANGED <<mem, flash, store, answer, saving, upload, promise, fresh,
                 requests, tokens, faults, crashes>>

-----------------------------------------------------------------------------
(* setMQTTCert: a block of the certificate and where it belongs.           *)

\* Variant: the buffer keeps the block before.
BlockAtStartKept == block
BlockAtStart == Clear

CertRequest ==
  /\ Begins
  /\ at' = "cert"
  /\ store' = "mqtt"
  /\ answer' = "OK"
  /\ block' = BlockAtStart
  /\ UNCHANGED <<mem, flash, saving, offset, sent, image, promise, fresh, tokens, faults, crashes>>

\* Data d copied over buffer b.
Over(d, b) == [i \in 1..BlockSize |-> IF i <= Len(d) THEN d[i] ELSE b[i]]

\* The token "cert": data that fits is copied over the buffer.
CertData(d) ==
  /\ at = "cert"
  /\ sent = Clear
  /\ tokens < MaxTokens
  /\ tokens' = tokens + 1
  /\ IF Len(d) <= BlockSize
     THEN block' = Over(d, block) /\ sent' = Over(d, Clear) /\ UNCHANGED answer
     ELSE answer' = "FAIL" /\ UNCHANGED <<block, sent>>
  /\ UNCHANGED <<mem, flash, at, store, saving, offset, image, promise, fresh,
                 requests, faults, crashes>>

\* The token "offset".
CertOffset(n) ==
  /\ at = "cert"
  /\ offset = -1
  /\ offset' = n
  /\ UNCHANGED <<mem, flash, request, saving, block, sent, image, promise, fresh,
                 requests, tokens, faults, crashes>>

\* The string in buffer b ends before position i.
Ended(b, i) == \E j \in 1..i : b[j] = Zero

\* memcpy of the string in buffer b into certificate c at offset n.
Put(c, b, n) ==
  [i \in 1..CertSize |->
     IF i - n \in 1..BlockSize /\ ~Ended(b, i - n) THEN b[i - n] ELSE c[i]]

\* Variant: no room for the terminator.
FitsExactly(b, n) == n \in Nat /\ \A i \in 1..BlockSize : ~Ended(b, i) => i + n <= CertSize
\* MQTTConfig_SetCert accepts the string in buffer b at offset n.
Fits(b, n) ==
  n \in 0..(CertSize - 1) /\ \A i \in 1..BlockSize : ~Ended(b, i) => i + n < CertSize

CertAnswer ==
  /\ at = "cert"
  /\ at' = "idle"
  /\ sent' = Clear
  /\ offset' = -1
  /\ IF Fits(block, offset)
     THEN /\ mem' = [mem EXCEPT !["cert"] = Put(@, block, offset)]
          /\ image' = Put(image, sent, offset)
          /\ fresh' = fresh \ {"cert"}
          /\ UNCHANGED answer
     ELSE answer' = "FAIL" /\ UNCHANGED <<mem, image, fresh>>
  /\ UNCHANGED <<flash, store, saving, block, promise,
                 requests, tokens, faults, crashes>>

-----------------------------------------------------------------------------
(* saveMQTT and saveOTA: MQTTConfig_Save, OTAConfig_Save.                  *)

SaveRequest(s) ==
  /\ Begins
  /\ at' = "save"
  /\ store' = s
  /\ tried' = [k \in Keys |-> IF k \in KeysOf(s) THEN tried[k] \cup Versions(k, mem[k])
                                                 ELSE tried[k]]
  /\ UNCHANGED <<mem, flash, answer, saving, upload, kept, fresh, tokens, faults, crashes>>

\* nvs_open_from_partition fails.
SaveRefused(s) ==
  /\ Begins
  /\ Fault
  /\ store' = s
  /\ answer' = "FAIL"
  /\ UNCHANGED <<mem, flash, at, saving, upload, promise, fresh, tokens, crashes>>

\* Variant: the last key of a table is left out.
MoreKeysButOne == next < Len(Table(store))
MoreKeys == next <= Len(Table(store))
Key == Table(store)[next]

\* nvs_set.  An error is printed and the loop goes on.
SaveKey ==
  /\ at = "save" /\ MoreKeys /\ Key # "cert"
  /\ next' = next + 1
  /\ \/ staged' = staged \cup {Key} /\ UNCHANGED <<spoiled, faults>>
     \/ Fault /\ spoiled' = TRUE /\ UNCHANGED staged
  /\ UNCHANGED <<mem, flash, request, upload, promise, fresh, requests, tokens, crashes>>

\* The file of the certificate is removed ...
SaveCertUnlink ==
  /\ at = "save" /\ MoreKeys /\ Key = "cert"
  /\ at' = "write"
  /\ flash' = [flash EXCEPT !["cert"] = None]
  /\ UNCHANGED <<mem, store, answer, saving, upload, promise, fresh,
                 requests, tokens, faults, crashes>>

\* ... and written again, up to the terminator.
SaveCertWrite ==
  /\ at = "write"
  /\ at' = "save"
  /\ next' = next + 1
  /\ \/ /\ flash' = [flash EXCEPT !["cert"] = Text("cert", mem["cert"])]
        /\ UNCHANGED <<spoiled, faults>>
     \/ /\ Fault
        /\ spoiled' = TRUE
        /\ \E f \in {None} \cup Versions("cert", mem["cert"]) :
             flash' = [flash EXCEPT !["cert"] = f]
  /\ UNCHANGED <<mem, store, answer, staged, upload, promise, fresh, requests, tokens, crashes>>

\* The flash after the staged keys in S arrived there.
Landed(S) == [k \in Keys |-> IF k \in S THEN mem[k] ELSE flash[k]]

\* nvs_commit succeeds and the request is answered with OK, which is a promise
\* if no write failed.
SaveAnswer ==
  /\ at = "save" /\ ~MoreKeys
  /\ at' = "idle"
  /\ answer' = "OK"
  /\ flash' = Landed(staged)
  /\ SaveOver
  /\ IF spoiled
     THEN UNCHANGED promise
     ELSE /\ kept' = [k \in Keys |-> IF k \in KeysOf(store) THEN Text(k, mem[k]) ELSE kept[k]]
          /\ tried' = [k \in Keys |-> IF k \in KeysOf(store) THEN {} ELSE tried[k]]
  /\ UNCHANGED <<mem, store, upload, fresh, requests, tokens, faults, crashes>>

\* nvs_commit fails.
SaveFails ==
  /\ at = "save" /\ ~MoreKeys
  /\ Fault
  /\ at' = "idle"
  /\ answer' = "FAIL"
  /\ \E S \in SUBSET staged : flash' = Landed(S)
  /\ SaveOver
  /\ UNCHANGED <<mem, store, upload, promise, fresh, requests, tokens, crashes>>

-----------------------------------------------------------------------------
(* The power fails, and the device boots: MQTTConfig_Init, OTAConfig_Init. *)

\* What a failure of the power leaves on the flash.
LeftOver ==
  {[Landed(S) EXCEPT !["cert"] = c] :
            S \in SUBSET staged,
            c \in IF at = "write" THEN {None} \cup Versions("cert", mem["cert"])
                                  ELSE {flash["cert"]}}

\* Keys _read_data cannot read: none, one of those that may differ from the
\* default, or all of a store that it cannot open.
Unreadable == {{}} \cup {{k} : k \in SetKeys} \cup {KeysOf(s) : s \in Stores}

\* A value that is not found or not readable is the default.
Loaded(f, bad) == [k \in Keys |-> IF k \in bad \/ f[k] = None THEN DefaultOf(k) ELSE f[k]]

Restart ==
  /\ crashes < MaxCrashes
  /\ crashes' = crashes + 1
  /\ flash' \in LeftOver
  /\ \E bad \in Unreadable :
       /\ IF bad = {} THEN UNCHANGED faults ELSE Fault
       /\ mem' = Loaded(flash', bad)
       /\ fresh' = Keys \ bad
       /\ image' = mem'["cert"]
  /\ at' = "idle" /\ store' = "mqtt" /\ answer' = "OK"
  /\ SaveOver
  /\ block' = Clear
  /\ sent' = Clear
  /\ offset' = -1
  /\ UNCHANGED <<promise, requests, tokens>>

-----------------------------------------------------------------------------
Next ==
  \/ \E s \in Stores : SetRequest(s) \/ SaveRequest(s) \/ SaveRefused(s)
  \/ \E k \in (KeysOf(store) \cap SetKeys) \ {"cert"}, v \in Values : SetValue(k, v)
  \/ SetRefused \/ SetAnswer
  \/ CertRequest
  \/ \E n \in 0..(BlockSize + 1) : \E d \in [1..n -> Units] : CertData(d)
  \/ \E n \in 0..CertSize : CertOffset(n)
  \/ CertAnswer
  \/ SaveKey \/ SaveCertUnlink \/ SaveCertWrite \/ SaveAnswer \/ SaveFails
  \/ Restart

Spec == Init /\ [][Next]_vars

-----------------------------------------------------------------------------
(* Properties.                                                             *)

\* Values keep their kind, and the certificate in memory always has its
\* terminator, without which strlen runs off its end (mqtt_config.c 264,
\* api_mqtt.c 193, mqtt_app.c 354).
ValueOf(k) == IF k = "cert" THEN Certs ELSE Values

TypeOK ==
  /\ {mem, kept} \subseteq [Keys -> Values \cup Certs]
  /\ flash \in [Keys -> Values \cup Certs \cup {None}]
  /\ tried \in [Keys -> SUBSET (Values \cup Certs)]
  /\ \A k \in Keys : mem[k] \in ValueOf(k) /\ kept[k] \in ValueOf(k)
  /\ \A k \in Keys : flash[k] \in ValueOf(k) \cup {None} /\ tried[k] \subseteq ValueOf(k)
  /\ at \in {"idle", "set", "cert", "save", "write"}
  /\ store \in Stores
  /\ next \in 1..(Len(Table(store)) + 1)
  /\ staged \subseteq KeysOf(store) \ {"cert"}
  /\ {block, sent} \subseteq Buffers /\ offset \in -1..CertSize
  /\ answer \in {"OK", "FAIL"}
  /\ image \in Certs
  /\ fresh \subseteq Keys
  /\ spoiled \in BOOLEAN
  /\ requests \in 0..MaxRequests /\ tokens \in 0..MaxTokens
  /\ faults \in 0..MaxFaults /\ crashes \in 0..MaxCrashes

\* After a boot every value that could be read is the one of the last save that
\* was answered OK, or one that a later, unfinished save was writing: wherever
\* the power failed, nothing older and nothing that was never to be saved comes
\* back, and of a certificate at most the end is missing (mqtt_config.c 81-238,
\* ota_config.c 70-192).
RestartKeeps == \A k \in fresh : mem[k] \in {kept[k]} \cup tried[k]

\* The certificate in memory is what the accepted blocks spell, in whatever
\* order, size and number they came and whatever requests failed in between
\* (api_mqtt.c 129-176, 315-335, mqtt_config.c 264-274).
CertAsUploaded == mem["cert"] = image
=============================================================================
