-------------------------- MODULE ConfigStoreProofs --------------------------
(***************************************************************************)
(* Proofs about ConfigStore, for any values, sizes and bounds.             *)
(***************************************************************************)
EXTENDS ConfigStore, TLAPS

(***************************************************************************)
(* What the proofs need to know of the two tables.                         *)
(***************************************************************************)

\* The keys of a table are the elements of it, and one of them is "cert".
LEMMA Tables ==
  /\ \A s \in Stores :
       /\ Len(Table(s)) \in Nat
       /\ \A i \in 1..Len(Table(s)) : Table(s)[i] \in KeysOf(s)
       /\ \A k \in KeysOf(s) : \E i \in 1..Len(Table(s)) : Table(s)[i] = k
       /\ KeysOf(s) \subseteq Keys
  /\ "cert" \in Keys
PROOF
<1>1. /\ Len(MqttTable) = 7 /\ DOMAIN MqttTable = 1..7
      /\ Len(OtaTable) = 5 /\ DOMAIN OtaTable = 1..5
  BY DEF MqttTable, OtaTable
<1>2. ASSUME NEW s \in Stores
      PROVE  Len(Table(s)) \in Nat /\ DOMAIN Table(s) = 1..Len(Table(s))
  BY <1>1 DEF Stores, Table
<1>3. "cert" \in KeysOf("mqtt")
  <2>1. MqttTable[7] = "cert"
    BY DEF MqttTable
  <2> QED
    BY <2>1, <1>1 DEF KeysOf, Table
<1> QED
  BY <1>2, <1>3 DEF KeysOf, Keys, Stores

(***************************************************************************)
(* Strings in arrays.                                                      *)
(***************************************************************************)

\* Cutting a string yields a string with a terminator.
LEMMA CutIsCert ==
  ASSUME NEW c \in Certs, NEW n \in 0..CertSize
  PROVE  Cut(c, n) \in Certs
PROOF
<1>1. CertSize \in 1..CertSize
  BY SizesAssumption
<1>2. Cut(c, n) \in Arrays
  BY DEF Cut, Certs, Arrays
<1>3. Cut(c, n)[CertSize] = Zero
  BY <1>1 DEF Cut, Certs
<1> QED
  BY <1>2, <1>3 DEF Certs

\* Cutting after a cut gives what one cut would.
LEMMA CutTwice ==
  ASSUME NEW c \in Certs, NEW n \in 0..CertSize
  PROVE  Cut(Cut(c, n), CertSize) = Cut(c, n)
PROOF
<1> DEFINE d == Cut(c, n)
<1>1. ASSUME NEW i \in 1..CertSize, d[i] # Zero
      PROVE  \A j \in 1..i : d[j] # Zero
  <2>1. i <= n /\ \A j \in 1..i : c[j] # Zero
    BY <1>1 DEF Cut
  <2> SUFFICES ASSUME NEW j \in 1..i PROVE d[j] # Zero
    OBVIOUS
  <2>2. j \in 1..CertSize /\ j <= n /\ \A l \in 1..j : c[l] # Zero
    BY <2>1, SizesAssumption
  <2> QED
    BY <2>1, <2>2 DEF Cut
<1>2. ASSUME NEW i \in 1..CertSize
      PROVE  Cut(d, CertSize)[i] = d[i]
  BY <1>1 DEF Cut
<1>3. d = [i \in 1..CertSize |-> d[i]]
  BY DEF Cut
<1>4. Cut(d, CertSize) = [i \in 1..CertSize |-> Cut(d, CertSize)[i]]
  BY DEF Cut
<1> HIDE DEF d
<1>5. Cut(d, CertSize) = d
  BY <1>2, <1>3, <1>4, Zenon
<1> QED
  BY <1>5 DEF d

\* An empty string is what is left when nothing was written.
LEMMA CutNothing ==
  ASSUME NEW c \in Certs
  PROVE  Cut(c, 0) = Empty
PROOF
  BY SizesAssumption DEF Cut, Empty

\* The certificate of a device that never got one is a string.
LEMMA EmptyIsCert == Empty \in Certs /\ Cut(Empty, CertSize) = Empty
PROOF
  BY SizesAssumption DEF Empty, Certs, Arrays, Cut

\* The values a key can have: what is written and what is read back.
LEMMA ValueFacts ==
  ASSUME NEW k \in Keys, NEW v \in ValueOf(k)
  PROVE  /\ Text(k, v) \in ValueOf(k)
         /\ Text(k, Text(k, v)) = Text(k, v)
         /\ Versions(k, v) \subseteq ValueOf(k)
         /\ \A w \in Versions(k, v) : Text(k, w) = w
         /\ Text(k, v) \in Versions(k, v)
         /\ k # "cert" => Text(k, v) = v /\ v \in Versions(k, v)
         /\ k = "cert" => Empty \in Versions(k, v)
         /\ v # None
         /\ DefaultOf(k) \in ValueOf(k) /\ Text(k, DefaultOf(k)) = DefaultOf(k)
PROOF
<1>1. CASE k = "cert"
  <2>1. v \in Certs
    BY <1>1 DEF ValueOf
  <2>2. CertSize \in 0..CertSize /\ 0 \in 0..CertSize
    BY SizesAssumption
  <2>3. v # None
    BY <2>1, NoneAssumption DEF Certs, Arrays
  <2>4. Empty \in Versions(k, v)
    BY <1>1, <2>1, <2>2, CutNothing DEF Versions
  <2>5. Text(k, v) \in Certs /\ Text(k, Text(k, v)) = Text(k, v)
    BY <1>1, <2>1, <2>2, CutIsCert, CutTwice DEF Text
  <2>6. Versions(k, v) \subseteq Certs /\ \A w \in Versions(k, v) : Text(k, w) = w
    BY <1>1, <2>1, CutIsCert, CutTwice DEF Text, Versions
  <2>7. Text(k, v) \in Versions(k, v)
    BY <1>1, <2>2 DEF Text, Versions
  <2>8. DefaultOf(k) \in Certs /\ Text(k, DefaultOf(k)) = DefaultOf(k)
    BY <1>1, EmptyIsCert DEF DefaultOf, Text
  <2> QED
    BY <1>1, <2>3, <2>4, <2>5, <2>6, <2>7, <2>8 DEF ValueOf
<1>2. CASE k # "cert"
  BY <1>2, ValuesAssumption, NoneAssumption DEF ValueOf, Text, Versions, DefaultOf
<1> QED
  BY <1>1, <1>2

(***************************************************************************)
(* Types.                                                                  *)
(***************************************************************************)

\* A certificate block that was accepted leaves the terminator in place.
LEMMA PutIsCert ==
  ASSUME NEW c \in Certs, NEW b \in Buffers, NEW n \in Int, Fits(b, n)
  PROVE  Put(c, b, n) \in Certs
PROOF
<1>1. Put(c, b, n) \in Arrays
  BY SizesAssumption DEF Put, Certs, Arrays, Buffers
<1>2. ~(CertSize - n \in 1..BlockSize /\ ~Ended(b, CertSize - n))
  BY SizesAssumption DEF Fits
<1>3. Put(c, b, n)[CertSize] = Zero
  BY <1>2, SizesAssumption DEF Put, Certs
<1> QED
  BY <1>1, <1>3 DEF Certs

\* Data copied over a buffer leaves a buffer.
LEMMA OverIsBuffer ==
  ASSUME NEW b \in Buffers, NEW n \in Nat, NEW d \in [1..n -> Units], Len(d) <= BlockSize
  PROVE  Over(d, b) \in Buffers
PROOF
<1>1. Len(d) = n
  BY DEF Buffers
<1> QED
  BY <1>1, SizesAssumption DEF Over, Buffers

\* The functions from keys to values, key by key.
Valued(f) == f \in [Keys -> Values \cup Certs] /\ \A k \in Keys : f[k] \in ValueOf(k)
Stored(f) ==
  /\ f \in [Keys -> Values \cup Certs \cup {None}]
  /\ \A k \in Keys : f[k] \in ValueOf(k) \cup {None}
Tried(f) ==
  /\ f \in [Keys -> SUBSET (Values \cup Certs)]
  /\ \A k \in Keys : f[k] \subseteq ValueOf(k)

Counters ==
  /\ requests \in 0..MaxRequests /\ tokens \in 0..MaxTokens
  /\ faults \in 0..MaxFaults /\ crashes \in 0..MaxCrashes

Points ==
  /\ at \in {"idle", "set", "cert", "save", "write"}
  /\ store \in Stores
  /\ answer \in {"OK", "FAIL"}
  /\ spoiled \in BOOLEAN

\* The certificate in memory is the image of what was sent, because the buffer
\* holds nothing but the data of the request that is being executed.
Uploaded ==
  /\ CertAsUploaded
  /\ IF at = "cert" THEN block = sent ELSE sent = Clear

\* The type invariant in parts.  The index is 1 unless a save is under way,
\* and the file of the certificate is written when the index is at it.
Types ==
  /\ Valued(mem) /\ Valued(kept) /\ Stored(flash) /\ Tried(tried)
  /\ Points /\ Counters
  /\ next \in 1..(Len(Table(store)) + 1)
  /\ at \notin {"save", "write"} => next = 1 /\ staged = {}
  /\ at = "write" => next <= Len(Table(store)) /\ Table(store)[next] = "cert"
  /\ staged \subseteq KeysOf(store) \ {"cert"}
  /\ block \in Buffers /\ sent \in Buffers /\ offset \in -1..CertSize
  /\ image \in Certs /\ Uploaded
  /\ fresh \subseteq Keys

\* Every key has a value that contains what it can be.
LEMMA ValueOfType ==
  /\ \A k \in Keys : ValueOf(k) \subseteq Values \cup Certs
  /\ \A k \in Keys : DefaultOf(k) \in ValueOf(k)
PROOF
  BY ValuesAssumption, EmptyIsCert DEF ValueOf, DefaultOf

\* The types of a first boot.
LEMMA InitTypes == Init => Types
PROOF
<1> SUFFICES ASSUME Init PROVE Types
  OBVIOUS
<1>1. Valued(mem) /\ Valued(kept) /\ Stored(flash) /\ Tried(tried)
  BY ValueOfType DEF Init, Valued, Stored, Tried
<1>2. Points
  BY DEF Init, Points, Stores
<1>5. Counters
  BY BoundsAssumption DEF Init, Counters
<1>3. next \in 1..(Len(Table(store)) + 1)
  BY Tables DEF Init, Stores
<1>6. Uploaded
  BY Tables DEF Init, Uploaded, CertAsUploaded, DefaultOf
<1>4. block \in Buffers /\ sent \in Buffers /\ offset \in -1..CertSize /\ image \in Certs
  BY EmptyIsCert, SizesAssumption DEF Init, Buffers, Clear
<1> QED
  BY <1>1, <1>2, <1>3, <1>4, <1>5, <1>6 DEF Init, Types

\* The flash keeps its type whichever of the staged keys arrive.
LEMMA LandedStored ==
  ASSUME Types, NEW S \in SUBSET staged
  PROVE  Stored(Landed(S))
PROOF
  BY DEF Types, Landed, Stored, Valued

\* What a failure of the power can leave on the flash has its type.
LEMMA LeftOverStored ==
  ASSUME Types, NEW f \in LeftOver
  PROVE  Stored(f)
PROOF
<1>1. PICK S \in SUBSET staged,
           c \in IF at = "write" THEN {None} \cup Versions("cert", mem["cert"])
                                 ELSE {flash["cert"]} :
        f = [Landed(S) EXCEPT !["cert"] = c]
  BY DEF LeftOver
<1>2. Stored(Landed(S))
  BY LandedStored
<1>3. mem["cert"] \in ValueOf("cert") /\ flash["cert"] \in ValueOf("cert") \cup {None}
  BY Tables DEF Types, Valued, Stored
<1>4. c \in ValueOf("cert") \cup {None}
  BY <1>3, Tables, ValueFacts
<1> QED
  BY <1>1, <1>2, <1>4, Tables, ValueOfType DEF Stored

\* What is loaded from the flash has the type of the memory.
LEMMA LoadedValued ==
  ASSUME NEW f, Stored(f), NEW bad
  PROVE  Valued(Loaded(f, bad))
PROOF
<1>1. ASSUME NEW k \in Keys
      PROVE  Loaded(f, bad)[k] \in ValueOf(k)
  BY ValueOfType DEF Loaded, Stored
<1> QED
  BY <1>1, ValueOfType DEF Loaded, Valued

\* Requests, the steps of a save and failures of the power keep the types.
LEMMA NextTypes == Types /\ [Next]_vars => Types'
PROOF
<1> SUFFICES ASSUME Types, [Next]_vars PROVE Types'
  OBVIOUS
<1> USE DEF Types, Points, Counters, Uploaded, CertAsUploaded, request, saving,
          upload, promise
<1>1. ASSUME NEW s \in Stores, SetRequest(s) PROVE Types'
  BY <1>1, BoundsAssumption, Tables DEF SetRequest, Begins
<1>2. ASSUME NEW s \in Stores, SaveRequest(s) PROVE Types'
  <2>1. Tried(tried')
    <3>1. ASSUME NEW k \in Keys
          PROVE  Versions(k, mem[k]) \subseteq ValueOf(k)
      BY ValueFacts DEF Valued
    <3> QED
      BY <1>2, <3>1, ValueOfType DEF SaveRequest, Tried
  <2> QED
    BY <1>2, <2>1, BoundsAssumption, Tables DEF SaveRequest, Begins
<1>3. ASSUME NEW s \in Stores, SaveRefused(s) PROVE Types'
  BY <1>3, BoundsAssumption, Tables DEF SaveRefused, Begins, Fault
<1>4. ASSUME NEW k \in KeysOf(store) \ {"cert"}, NEW v \in Values, SetValue(k, v) PROVE Types'
  <2>1. Valued(mem')
    BY <1>4, Tables DEF SetValue, Valued, ValueOf
  <2> QED
    BY <1>4, <2>1, BoundsAssumption DEF SetValue
<1>5. CASE SetRefused
  BY <1>5 DEF SetRefused
<1>6. CASE SetAnswer
  BY <1>6 DEF SetAnswer
<1>7. CASE CertRequest
  BY <1>7, BoundsAssumption, Tables DEF CertRequest, Begins, BlockAtStart, Clear, Buffers, Stores
<1>8. ASSUME NEW n \in 0..(BlockSize + 1), NEW d \in [1..n -> Units], CertData(d) PROVE Types'
  <2>1. Len(d) <= BlockSize => Over(d, block) \in Buffers /\ Over(d, Clear) \in Buffers
    BY SizesAssumption, OverIsBuffer DEF Clear, Buffers
  <2> QED
    BY <1>8, <2>1, BoundsAssumption DEF CertData
<1>9. ASSUME NEW n \in 0..CertSize, CertOffset(n) PROVE Types'
  BY <1>9, SizesAssumption DEF CertOffset
<1>10. CASE CertAnswer
  <2>1. mem["cert"] \in Certs
    BY Tables DEF Valued, ValueOf
  <2>2. Fits(block, offset) => Put(mem["cert"], block, offset) \in Certs
    BY <2>1, PutIsCert, SizesAssumption
  <2>3. Valued(mem')
    BY <1>10, <2>2 DEF CertAnswer, Valued, ValueOf
  <2>4. mem'["cert"] = image'
    BY <1>10, Tables DEF CertAnswer, Uploaded, CertAsUploaded, Valued
  <2>5. image' \in Certs
    BY <2>3, <2>4, Tables DEF Valued, ValueOf
  <2> QED
    BY <1>10, <2>3, <2>4, <2>5, SizesAssumption DEF CertAnswer, Clear, Buffers
<1>11. CASE SaveKey
  <2>1. next' \in 1..(Len(Table(store')) + 1)
    BY <1>11, Tables DEF SaveKey, MoreKeys
  <2>2. staged' \subseteq KeysOf(store') \ {"cert"}
    BY <1>11, Tables DEF SaveKey, MoreKeys, Key
  <2>3. faults' \in 0..MaxFaults
    BY <1>11, BoundsAssumption DEF SaveKey, Fault
  <2> QED
    BY <1>11, <2>1, <2>2, <2>3 DEF SaveKey
<1>12. CASE SaveCertUnlink
  BY <1>12, Tables DEF SaveCertUnlink, Stored, MoreKeys, Key
<1>13. CASE SaveCertWrite
  <2>1. ASSUME NEW f \in {None} \cup Versions("cert", mem["cert"]),
               flash' = [flash EXCEPT !["cert"] = f]
        PROVE  Stored(flash')
    <3>1. f \in ValueOf("cert") \cup {None}
      BY Tables, ValueFacts DEF Valued
    <3> QED
      BY <2>1, <3>1, Tables, ValueOfType DEF Stored
  <2>2. Text("cert", mem["cert"]) \in Versions("cert", mem["cert"])
    BY Tables, ValueFacts DEF Valued
  <2>3. Stored(flash')
    BY <1>13, <2>1, <2>2 DEF SaveCertWrite
  <2> QED
    <3>1. next' \in 1..(Len(Table(store')) + 1)
      BY <1>13, Tables DEF SaveCertWrite
    <3>2. faults' \in 0..MaxFaults
      BY <1>13, BoundsAssumption DEF SaveCertWrite, Fault
    <3> QED
      BY <1>13, <2>3, <3>1, <3>2 DEF SaveCertWrite
<1>14. CASE SaveAnswer
  <2>1. Stored(flash')
    BY <1>14, LandedStored DEF SaveAnswer
  <2>2. Valued(kept') /\ Tried(tried')
    <3>1. ASSUME NEW k \in Keys
          PROVE  Text(k, mem[k]) \in ValueOf(k)
      BY ValueFacts DEF Valued
    <3> QED
      BY <1>14, <3>1, ValueOfType DEF SaveAnswer, Valued, Tried
  <2> QED
    <3>1. next' \in 1..(Len(Table(store')) + 1)
      BY <1>14, Tables DEF SaveAnswer, SaveOver
    <3> QED
      BY <1>14, <2>1, <2>2, <3>1 DEF SaveAnswer, SaveOver
<1>15. CASE SaveFails
  <2>1. Stored(flash')
    BY <1>15, LandedStored DEF SaveFails
  <2> QED
    <3>1. next' \in 1..(Len(Table(store')) + 1)
      BY <1>15, Tables DEF SaveFails, SaveOver
    <3>2. faults' \in 0..MaxFaults
      BY <1>15, BoundsAssumption DEF SaveFails, Fault
    <3> QED
      BY <1>15, <2>1, <3>1, <3>2 DEF SaveFails, SaveOver
<1>16. CASE Restart
  <2>1. Stored(flash')
    BY <1>16, LeftOverStored DEF Restart
  <2>2. Valued(mem')
    BY <1>16, <2>1, LoadedValued DEF Restart
  <2>3. mem'["cert"] \in Certs
    BY <2>2, Tables DEF Valued, ValueOf
  <2> QED
    <3>1. next' \in 1..(Len(Table(store')) + 1)
      BY <1>16, Tables DEF Restart, SaveOver, Stores
    <3>2. faults' \in 0..MaxFaults /\ crashes' \in 0..MaxCrashes
      BY <1>16, BoundsAssumption DEF Restart, Fault
    <3>3. Clear \in Buffers /\ -1 \in -1..CertSize
      BY SizesAssumption DEF Clear, Buffers
    <3>4. fresh' \subseteq Keys /\ mem'["cert"] = image'
      BY <1>16 DEF Restart
    <3> QED
      BY <1>16, <2>1, <2>2, <2>3, <3>1, <3>2, <3>3, <3>4 DEF Restart, SaveOver, Stores
<1>17. CASE UNCHANGED vars
  BY <1>17 DEF vars
<1> QED
  BY <1>1, <1>2, <1>3, <1>4, <1>5, <1>6, <1>7, <1>8, <1>9, <1>10, <1>11, <1>12,
     <1>13, <1>14, <1>15, <1>16, <1>17 DEF Next

(***************************************************************************)
(* What a failure of the power leaves.                                     *)
(***************************************************************************)

\* There is one certificate in a table at most.
LEMMA OneCert ==
  ASSUME NEW s \in Stores, NEW i \in 1..Len(Table(s)), NEW j \in 1..Len(Table(s)),
         Table(s)[i] = "cert", Table(s)[j] = "cert"
  PROVE  i = j
PROOF
<1>1. CASE s = "mqtt"
  <2>1. Len(Table(s)) = 7 /\ \A n \in 1..7 : Table(s)[n] = "cert" => n = 7
    BY <1>1 DEF Table, MqttTable
  <2> QED
    BY <2>1
<1>2. CASE s # "mqtt"
  <2>1. Len(Table(s)) = 5 /\ \A n \in 1..5 : Table(s)[n] # "cert"
    BY <1>2 DEF Table, OtaTable
  <2> QED
    BY <2>1
<1> QED
  BY <1>1, <1>2

\* What a boot reads for k from flash f if it can read it.
Loads(f, k) == IF f[k] = None THEN DefaultOf(k) ELSE f[k]
Known(k) == {kept[k]} \cup tried[k]

\* What flash f holds can be read and is known for every key.
Keeps(f) ==
  \A k \in Keys : Text(k, Loads(f, k)) = Loads(f, k) /\ Loads(f, k) \in Known(k)

Saving == at \in {"save", "write"}
BeingSaved == Saving => \A k \in KeysOf(store) : Versions(k, mem[k]) \subseteq tried[k]

\* Without a failure, the keys before next are handed over or written.
Progress ==
  Saving /\ ~spoiled =>
    \A i \in 1..(next - 1) :
      IF Table(store)[i] = "cert" THEN flash["cert"] = Text("cert", mem["cert"])
                                  ELSE Table(store)[i] \in staged

\* The strengthening of RestartKeeps: what is read next time is known already,
\* so is what a save may leave there, and a save that meets no failure leaves
\* nothing else.
FreshText == \A k \in fresh : Text(k, mem[k]) = mem[k]
KeepInv == RestartKeeps /\ FreshText /\ Keeps(flash) /\ BeingSaved /\ Progress

\* Whichever of the staged keys arrive, what is on the flash is known.
LEMMA LandedKeeps ==
  ASSUME Types, KeepInv, NEW S \in SUBSET staged
  PROVE  Keeps(Landed(S))
PROOF
<1> SUFFICES ASSUME NEW k \in Keys
             PROVE  /\ Text(k, Loads(Landed(S), k)) = Loads(Landed(S), k)
                    /\ Loads(Landed(S), k) \in Known(k)
  BY DEF Keeps
<1>1. CASE k \in S
  <2>1. Saving /\ k \in KeysOf(store) /\ k # "cert"
    BY <1>1 DEF Types, Saving, Points
  <2>2. mem[k] \in ValueOf(k)
    BY DEF Types, Valued
  <2>3. Loads(Landed(S), k) = mem[k]
    BY <1>1, <2>2, ValueFacts DEF Loads, Landed
  <2>4. mem[k] \in Versions(k, mem[k]) /\ Text(k, mem[k]) = mem[k]
    BY <2>1, <2>2, ValueFacts
  <2> QED
    BY <2>1, <2>3, <2>4 DEF KeepInv, BeingSaved, Known
<1>2. CASE k \notin S
  <2>1. Loads(Landed(S), k) = Loads(flash, k)
    BY <1>2 DEF Loads, Landed
  <2> QED
    BY <2>1 DEF KeepInv, Keeps
<1> QED
  BY <1>1, <1>2

\* While the file of the certificate is written, any part of it is known.
LEMMA WriteKeeps ==
  ASSUME Types, KeepInv, Saving, "cert" \in KeysOf(store), NEW f, Keeps(f), Stored(f),
         NEW c \in {None} \cup Versions("cert", mem["cert"])
  PROVE  Keeps([f EXCEPT !["cert"] = c])
PROOF
<1> DEFINE g == [f EXCEPT !["cert"] = c]
<1>1. mem["cert"] \in ValueOf("cert") /\ "cert" \in Keys
  BY Tables DEF Types, Valued
<1>2. ASSUME NEW k \in Keys, k # "cert"
      PROVE  Loads(g, k) = Loads(f, k)
  BY <1>2 DEF Loads, Stored
<1>3. Loads(g, "cert") \in Versions("cert", mem["cert"])
  <2>1. g["cert"] = c
    BY <1>1 DEF Stored
  <2> QED
    BY <2>1, <1>1, ValueFacts DEF Loads, DefaultOf
<1>4. Text("cert", Loads(g, "cert")) = Loads(g, "cert") /\ Loads(g, "cert") \in Known("cert")
  BY <1>1, <1>3, ValueFacts DEF KeepInv, BeingSaved, Known
<1> HIDE DEF g
<1>5. Keeps(g)
  BY <1>2, <1>4 DEF Keeps
<1> QED
  BY <1>5 DEF g

\* What a failure of the power leaves is known.
LEMMA LeftOverKeeps ==
  ASSUME Types, KeepInv, NEW f \in LeftOver
  PROVE  Keeps(f)
PROOF
<1>1. PICK S \in SUBSET staged,
           c \in IF at = "write" THEN {None} \cup Versions("cert", mem["cert"])
                                 ELSE {flash["cert"]} :
        f = [Landed(S) EXCEPT !["cert"] = c]
  BY DEF LeftOver
<1>2. Stored(Landed(S)) /\ Keeps(Landed(S))
  BY LandedStored, LandedKeeps
<1>3. CASE at = "write"
  <2>1. "cert" \in KeysOf(store)
    BY <1>3, Tables DEF Types, Points
  <2> QED
    BY <1>1, <1>2, <1>3, <2>1, WriteKeeps DEF Saving
<1>4. CASE at # "write"
  <2>1. f = Landed(S)
    BY <1>1, <1>4, Tables DEF Landed, Types
  <2> QED
    BY <2>1, <1>2
<1> QED
  BY <1>3, <1>4

\* A device that boots for the first time finds its defaults.
LEMMA InitKeep == Init => KeepInv
PROOF
<1> SUFFICES ASSUME Init PROVE KeepInv
  OBVIOUS
<1>1. ASSUME NEW k \in Keys
      PROVE  Text(k, DefaultOf(k)) = DefaultOf(k)
  BY ValueOfType, ValueFacts
<1> QED
  BY <1>1 DEF Init, KeepInv, RestartKeeps, FreshText, Keeps, Loads, Known, BeingSaved,
              Progress, Saving

\* A save that begins makes known what it may leave.
LEMMA BeginKeeps ==
  ASSUME Types, KeepInv, NEW s \in Stores, SaveRequest(s)
  PROVE  KeepInv'
PROOF
<1>1. UNCHANGED <<mem, flash, kept, fresh, next>> /\ next = 1 /\ store' = s
  BY DEF SaveRequest, Begins, Types, saving, promise
<1>2. ASSUME NEW k \in Keys
      PROVE  /\ tried[k] \subseteq tried'[k]
             /\ k \in KeysOf(s) => Versions(k, mem[k]) \subseteq tried'[k]
  BY DEF SaveRequest, Types, Tried
<1>3. RestartKeeps' /\ FreshText' /\ Keeps(flash)'
  BY <1>1, <1>2 DEF KeepInv, RestartKeeps, FreshText, Keeps, Known, Loads, Types
<1>4. BeingSaved' /\ Progress'
  BY <1>1, <1>2, Tables DEF BeingSaved, Progress
<1> QED
  BY <1>3, <1>4 DEF KeepInv

\* The certificate is removed: what is read instead is the default, known too.
LEMMA UnlinkKeeps ==
  ASSUME Types, KeepInv, SaveCertUnlink
  PROVE  KeepInv'
PROOF
<1>1. /\ at = "save" /\ at' = "write" /\ next \in 1..Len(Table(store))
      /\ Table(store)[next] = "cert" /\ store \in Stores
  BY Tables DEF SaveCertUnlink, MoreKeys, Key, Types, Points
<1>2. Keeps(flash')
  <2>1. "cert" \in KeysOf(store)
    BY <1>1, Tables
  <2> QED
    BY <1>1, <2>1, WriteKeeps DEF SaveCertUnlink, Saving, KeepInv, Types
<1>3. Progress'
  <2>1. ASSUME NEW i \in 1..(next - 1)
        PROVE  i \in 1..Len(Table(store)) /\ i # next /\ Table(store)[i] # "cert"
    <3>1. i \in 1..Len(Table(store)) /\ i # next
      BY <1>1, Tables
    <3> QED
      BY <1>1, <3>1, OneCert
  <2> QED
    BY <1>1, <2>1 DEF SaveCertUnlink, saving, KeepInv, Progress, Saving
<1> QED
  BY <1>1, <1>2, <1>3 DEF SaveCertUnlink, saving, promise, KeepInv, RestartKeeps, FreshText,
     Keeps, Known, Loads, BeingSaved, Saving

\* The certificate is written, completely or in part.
LEMMA WrittenKeeps ==
  ASSUME Types, KeepInv, SaveCertWrite
  PROVE  KeepInv'
PROOF
<1>1. /\ at = "write" /\ at' = "save" /\ next \in 1..Len(Table(store))
      /\ Table(store)[next] = "cert" /\ store \in Stores
      /\ next' = next + 1 /\ "cert" \in Keys /\ mem["cert"] \in ValueOf("cert")
      /\ UNCHANGED <<mem, store, staged, kept, tried, fresh>>
  BY Tables DEF SaveCertWrite, Types, Points, Valued, promise
<1>2. PICK c \in {None} \cup Versions("cert", mem["cert"]) :
        /\ flash' = [flash EXCEPT !["cert"] = c]
        /\ ~spoiled' => c = Text("cert", mem["cert"]) /\ ~spoiled
  BY <1>1, ValueFacts DEF SaveCertWrite
<1>3. Keeps(flash')
  <2>1. "cert" \in KeysOf(store)
    BY <1>1, Tables
  <2> QED
    BY <1>1, <1>2, <2>1, WriteKeeps DEF Saving, KeepInv, Types
<1>4. Progress'
  <2>1. ASSUME NEW i \in 1..(next' - 1), Table(store)[i] # "cert"
        PROVE  i \in 1..(next - 1)
    BY <1>1, <2>1, Tables
  <2>2. ~spoiled' => flash'["cert"] = Text("cert", mem["cert"])
    BY <1>1, <1>2 DEF Types, Stored
  <2> QED
    BY <1>1, <1>2, <2>1, <2>2 DEF KeepInv, Progress, Saving
<1> QED
  BY <1>1, <1>3, <1>4 DEF KeepInv, RestartKeeps, FreshText,
     Keeps, Known, Loads, BeingSaved, Saving

\* A save that is answered OK without a failure has everything on the flash.
LEMMA AnswerKeeps ==
  ASSUME Types, KeepInv, SaveAnswer
  PROVE  KeepInv'
PROOF
<1>1. /\ at = "save" /\ at' = "idle" /\ flash' = Landed(staged) /\ store \in Stores
      /\ next = Len(Table(store)) + 1 /\ UNCHANGED <<mem, fresh>>
  BY Tables DEF SaveAnswer, MoreKeys, Types, Points
<1>2. Keeps(flash')
  BY <1>1, LandedKeeps
<1>3. BeingSaved' /\ Progress' /\ FreshText'
  BY <1>1 DEF BeingSaved, Progress, Saving, KeepInv, FreshText
<1>4. CASE spoiled
  BY <1>1, <1>2, <1>3, <1>4 DEF SaveAnswer, promise, KeepInv, RestartKeeps, Keeps, Known, Loads
<1>5. CASE ~spoiled
  <2>1. ASSUME NEW k \in KeysOf(store)
        PROVE  /\ Loads(flash', k) = Text(k, mem[k])
               /\ kept'[k] = Text(k, mem[k]) /\ k \in Keys
               /\ Text(k, Text(k, mem[k])) = Text(k, mem[k])
    <3>1. k \in Keys /\ mem[k] \in ValueOf(k)
      BY <1>1, Tables DEF Types, Valued
    <3>2. PICK i \in 1..(next - 1) : Table(store)[i] = k
      BY <1>1, Tables
    <3>3. IF k = "cert" THEN flash[k] = Text(k, mem[k]) ELSE k \in staged
      BY <1>1, <1>5, <3>2 DEF KeepInv, Progress, Saving
    <3>4. flash'[k] = Text(k, mem[k])
      BY <1>1, <3>1, <3>3, ValueFacts DEF Landed, Types
    <3>5. Text(k, mem[k]) # None /\ Text(k, Text(k, mem[k])) = Text(k, mem[k])
      BY <3>1, ValueFacts
    <3> QED
      BY <1>5, <3>1, <3>4, <3>5 DEF SaveAnswer, Loads
  <2>2. ASSUME NEW k \in Keys \ KeysOf(store)
        PROVE  kept'[k] = kept[k] /\ tried'[k] = tried[k]
    BY <1>5 DEF SaveAnswer
  <2>3. RestartKeeps'
    BY <1>1, <2>1, <2>2 DEF KeepInv, RestartKeeps, FreshText, Types
  <2>4. Keeps(flash)'
    <3>1. ASSUME NEW k \in Keys
          PROVE  /\ Text(k, Loads(flash', k)) = Loads(flash', k)
                 /\ Loads(flash', k) \in {kept'[k]} \cup tried'[k]
      <4>1. CASE k \in KeysOf(store)
        BY <4>1, <2>1
      <4>2. CASE k \notin KeysOf(store)
        BY <4>2, <2>2, <1>2 DEF Keeps, Known
      <4> QED
        BY <4>1, <4>2
    <3> QED
      BY <3>1 DEF Keeps, Known, Loads
  <2> QED
    BY <1>3, <2>3, <2>4 DEF KeepInv
<1> QED
  BY <1>4, <1>5

\* A boot reads what is on the flash, which is known.
LEMMA RestartKeepsKnown ==
  ASSUME Types, KeepInv, Restart
  PROVE  KeepInv'
PROOF
<1>1. Keeps(flash') /\ at' = "idle" /\ UNCHANGED <<kept, tried>>
  BY LeftOverKeeps DEF Restart, promise
<1>2. PICK bad \in Unreadable : mem' = Loaded(flash', bad) /\ fresh' = Keys \ bad
  BY DEF Restart
<1>3. ASSUME NEW k \in fresh'
      PROVE  k \in Keys /\ mem'[k] = Loads(flash', k)
  BY <1>2 DEF Loaded, Loads
<1>4. RestartKeeps' /\ FreshText'
  BY <1>1, <1>3 DEF Keeps, Known, RestartKeeps, FreshText
<1> QED
  BY <1>1, <1>4 DEF KeepInv, Keeps, Known, Loads, BeingSaved, Progress, Saving

\* What a boot may find stays known over every step.
LEMMA NextKeep == Types /\ KeepInv /\ [Next]_vars => KeepInv'
PROOF
<1> SUFFICES ASSUME Types, KeepInv, [Next]_vars PROVE KeepInv'
  OBVIOUS
<1>1. ASSUME UNCHANGED <<mem, flash, kept, tried, fresh>>, at' \notin {"save", "write"}
      PROVE  KeepInv'
  BY <1>1 DEF KeepInv, RestartKeeps, FreshText, Keeps, Known, Loads, BeingSaved, Progress, Saving
<1>2. ASSUME NEW k \in Keys, fresh' = fresh \ {k}, at' \notin {"save", "write"},
             NEW v, mem' = [mem EXCEPT ![k] = v], UNCHANGED <<flash, kept, tried>>
      PROVE  KeepInv'
  <2>1. ASSUME NEW l \in fresh'
        PROVE  l \in fresh /\ mem'[l] = mem[l]
    BY <1>2, <2>1 DEF Types, Valued
  <2>2. RestartKeeps' /\ FreshText'
    BY <1>2, <2>1 DEF KeepInv, RestartKeeps, FreshText
  <2> QED
    BY <1>2, <2>2 DEF KeepInv, Keeps, Known, Loads, BeingSaved, Progress, Saving
<1>3. ASSUME NEW s \in Stores, SetRequest(s) \/ SaveRefused(s) PROVE KeepInv'
  BY <1>1, <1>3 DEF SetRequest, SaveRefused, Begins, promise
<1>4. ASSUME NEW s \in Stores, SaveRequest(s) PROVE KeepInv'
  BY <1>4, BeginKeeps
<1>5. ASSUME NEW k \in KeysOf(store) \ {"cert"}, NEW v \in Values, SetValue(k, v) PROVE KeepInv'
  BY <1>2, <1>5, Tables DEF SetValue, request, promise, Types, Points
<1>6. CASE SetRefused \/ SetAnswer \/ CertRequest
  BY <1>1, <1>6 DEF SetRefused, SetAnswer, CertRequest, promise
<1>7. ASSUME NEW n \in 0..(BlockSize + 1), NEW d \in [1..n -> Units], CertData(d) PROVE KeepInv'
  BY <1>1, <1>7 DEF CertData, promise
<1>8. ASSUME NEW n \in 0..CertSize, CertOffset(n) PROVE KeepInv'
  BY <1>1, <1>8 DEF CertOffset, request, promise
<1>9. CASE CertAnswer
  <2>1. CASE Fits(block, offset)
    BY <1>2, <1>9, <2>1, Tables DEF CertAnswer, promise
  <2>2. CASE ~Fits(block, offset)
    BY <1>1, <1>9, <2>2 DEF CertAnswer, promise
  <2> QED
    BY <2>1, <2>2
<1>10. CASE SaveKey
  <2>1. /\ Saving /\ store \in Stores /\ next' = next + 1 /\ next \in 1..Len(Table(store))
        /\ Table(store)[next] # "cert" /\ staged \subseteq staged'
        /\ ~spoiled' => ~spoiled /\ Table(store)[next] \in staged'
        /\ UNCHANGED <<mem, flash, at, store, kept, tried, fresh>>
    BY <1>10, Tables DEF SaveKey, MoreKeys, Key, Saving, Types, Points, request, promise
  <2>2. Progress'
    <3>1. ASSUME NEW i \in 1..(next' - 1)
          PROVE  i \in 1..(next - 1) \/ i = next
      BY <2>1, Tables
    <3> QED
      BY <2>1, <3>1 DEF KeepInv, Progress
  <2> QED
    BY <2>1, <2>2 DEF KeepInv, RestartKeeps, FreshText, Keeps, Known, Loads, BeingSaved, Saving
<1>11. CASE SaveCertUnlink
  BY <1>11, UnlinkKeeps
<1>12. CASE SaveCertWrite
  BY <1>12, WrittenKeeps
<1>13. CASE SaveAnswer
  BY <1>13, AnswerKeeps
<1>14. CASE SaveFails
  <2>1. Keeps(flash') /\ at' = "idle" /\ UNCHANGED <<mem, kept, tried, fresh>>
    BY <1>14, LandedKeeps DEF SaveFails, promise
  <2> QED
    BY <2>1 DEF KeepInv, RestartKeeps, FreshText, Keeps, Known, Loads, BeingSaved, Progress,
                Saving
<1>15. CASE Restart
  BY <1>15, RestartKeepsKnown
<1>16. CASE UNCHANGED vars
  BY <1>16 DEF vars, request, saving, promise, KeepInv, RestartKeeps, FreshText, Keeps, Known,
               Loads, BeingSaved, Progress, Saving
<1> QED
  BY <1>3, <1>4, <1>5, <1>6, <1>7, <1>8, <1>9, <1>10, <1>11, <1>12, <1>13, <1>14, <1>15,
     <1>16 DEF Next

(***************************************************************************)
(* The theorems.                                                           *)
(***************************************************************************)

\* Values keep their kind, and the certificate its terminator, whatever blocks
\* a client sends and wherever they are to go (mqtt_config.c 264-274).
THEOREM TypeCorrect == Spec => []TypeOK
PROOF
<1>1. Types => TypeOK
  BY DEF Types, TypeOK, Valued, Stored, Tried, Points, Counters
<1> QED
  BY <1>1, InitTypes, NextTypes, PTL DEF Spec

\* The certificate in memory is what the accepted blocks spell, because the
\* buffer of a request is cleared when it begins (api_mqtt.c 129-176, 315-335).
THEOREM CertificateUploaded == Spec => []CertAsUploaded
PROOF
<1>1. Types => CertAsUploaded
  BY DEF Types, Uploaded
<1> QED
  BY <1>1, InitTypes, NextTypes, PTL DEF Spec

\* A boot finds what was last saved with success or what was being saved since,
\* wherever the power or an access to the flash failed (mqtt_config.c 81-238,
\* ota_config.c 70-192).
THEOREM RestartSafe == Spec => []RestartKeeps
PROOF
<1>1. KeepInv => RestartKeeps
  BY DEF KeepInv
<1> QED
  BY <1>1, InitTypes, NextTypes, InitKeep, NextKeep, PTL DEF Spec
=============================================================================
