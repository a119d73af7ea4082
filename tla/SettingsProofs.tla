--------------------------- MODULE SettingsProofs ---------------------------
(***************************************************************************)
(* Theorems of Settings, for every set of documents, groups and values.    *)
(* May("getFails") is the only event excluded, and only where the sensor   *)
(* is compared with the tree: a property that could not be read is unknown *)
(* to the library.                                                         *)
(***************************************************************************)
EXTENDS Settings, SequenceTheorems, TLAPS

Preset == "manual_white_balance_preset"

-----------------------------------------------------------------------------
(* What is handed to the sensor, and what is stored of it *)

\* The preset has one field.
LEMMA PresetFields == FieldsOf(Preset) = {"color_temperature"}
  BY DEF FieldsOf, Preset, ManualWhiteBalancePreset

\* Storing turns a group's value into a value of the group.
LEMMA StoredType ==
  ASSUME NEW k \in Keys, NEW v \in [FieldsOf(k) -> Int]
  PROVE  /\ Stored(k, v) \in [FieldsOf(k) -> Int]
         /\ k # Preset => Stored(k, v) = v
         /\ k = Preset => \A f \in FieldsOf(k) : Stored(k, v)[f] \in 0..3
  BY DEF Stored, Position, Preset

\* A document's part, completed from the struct, is a value of the group.
LEMMA HandedType ==
  ASSUME NEW k \in Keys, TypeOK, VerifiedInv, k \in todo
  PROVE  /\ Handed(k) \in [FieldsOf(k) -> Int]
         /\ \A f \in DOMAIN doc.pq[k] : f \in FieldsOf(k) /\ Handed(k)[f] = Temperature(k, doc.pq[k][f])
         /\ \A f \in FieldsOf(k) \ DOMAIN doc.pq[k] : Handed(k)[f] = cache[k][f]
         /\ k # Preset => Handed(k) = Overlay(cache[k], doc.pq[k])
<1>1. doc \in Docs /\ k \in DOMAIN doc.pq
  BY DEF TypeOK, NoDoc
<1>2. /\ DOMAIN doc.pq[k] \subseteq FieldsOf(k)
      /\ \A f \in DOMAIN doc.pq[k] : doc.pq[k][f] \in Int
  BY <1>1, DocsAssumption
<1>3. cache[k] \in [FieldsOf(k) -> Int]
  BY DEF TypeOK
<1>4. ASSUME NEW f \in DOMAIN doc.pq[k]
      PROVE  Temperature(k, doc.pq[k][f]) \in Int
  <2>1. CASE k = Preset
    <3>1. doc.pq[k][f] \in 0..3
      BY <2>1 DEF VerifiedInv, VerifyGroup, InRange, Preset
    <3>2. doc.pq[k][f] \in {0, 1, 2, 3}
      BY <3>1
    <3> QED
      BY <3>2, <2>1 DEF Temperature, Kelvin, Preset
  <2>2. CASE k # Preset
    BY <2>2, <1>2 DEF Temperature, Preset
  <2> QED
    BY <2>1, <2>2
<1>5. k # Preset => \A f \in DOMAIN doc.pq[k] : Temperature(k, doc.pq[k][f]) = doc.pq[k][f]
  BY DEF Temperature, Preset
<1> HIDE DEF Temperature
<1> QED
  BY <1>2, <1>3, <1>4, <1>5 DEF Handed, Overlay

\* What a group's document asks for is what is stored of what it hands over.
LEMMA StoredIsAsked ==
  ASSUME NEW k \in Keys, TypeOK, VerifiedInv, k \in todo, NEW f \in DOMAIN doc.pq[k]
  PROVE  Stored(k, Handed(k))[f] = doc.pq[k][f]
<1>1. f \in FieldsOf(k) /\ Handed(k) \in [FieldsOf(k) -> Int]
      /\ Handed(k)[f] = Temperature(k, doc.pq[k][f])
  BY HandedType
<1>2. CASE k = Preset
  <2>1. doc.pq[k][f] \in 0..3
    BY <1>2 DEF VerifiedInv, VerifyGroup, InRange, Preset
  <2>2. doc.pq[k][f] \in {0, 1, 2, 3}
    BY <2>1
  <2>3. Stored(k, Handed(k))[f] = Position(Handed(k)[f])
    BY <1>1, <1>2 DEF Stored, Preset
  <2> QED
    BY <2>2, <2>3, <1>1, <1>2 DEF Position, Temperature, Kelvin, Preset
<1>3. CASE k # Preset
  BY <1>1, <1>3 DEF Stored, Temperature, Preset
<1> QED
  BY <1>2, <1>3

-----------------------------------------------------------------------------
(* Steps *)

\* A set property is a value of its group in sensor, struct and tree.
LEMMA SetType ==
  ASSUME TypeOK, NEW k \in Keys, NEW v \in [FieldsOf(k) -> Int],
         SensorStreamSetProperty(k, v)
  PROVE  /\ \A t \in {sensor', cache', json'} :
              DOMAIN t = Keys /\ \A j \in Keys : t[j] \in [FieldsOf(j) -> Int]
         /\ notify' \in BOOLEAN
  BY StoredType DEF TypeOK, SensorStreamSetProperty, StoreValue

\* What is left to do belongs to a document of the cloud.
LEMMA TodoType ==
  ASSUME TypeOK, NEW k \in todo
  PROVE  doc \in Docs /\ k \in Keys
  BY DocsAssumption DEF TypeOK, NoDoc

\* A function on 1..n is a sequence.
LEMMA FunctionIsSeq ==
  ASSUME NEW S, NEW n \in Nat, NEW f \in [1..n -> S]
  PROVE  f \in Seq(S)
<1>1. [1..n -> S] \in {[1..m -> S] : m \in Nat}
  OBVIOUS
<1> QED
  BY <1>1, SeqDef

\* Each step of the main thread and of the worker keeps every variable in its
\* range.
LEMMA TypeStep == TypeOK /\ WorkerInv /\ VerifiedInv /\ [Next]_vars => TypeOK'
<1> SUFFICES ASSUME TypeOK, WorkerInv, VerifiedInv, [Next]_vars PROVE TypeOK'
  OBVIOUS
<1> USE DEF TypeOK, Labels, Codes
<1>1. CASE InitializeValues
  <2> SUFFICES ASSUME NEW j \in Keys
               PROVE  cache'[j] \in [FieldsOf(j) -> Int] /\ json'[j] \in [FieldsOf(j) -> Int]
    BY <1>1 DEF InitializeValues, otherVars, registerVars, workerVars
  <2>1. cache'[j] \in {cache[j], sensor[j]} /\ json'[j] = Stored(j, cache'[j])
    BY <1>1 DEF InitializeValues
  <2> QED
    BY <2>1, StoredType
<1>2. ASSUME NEW d \in Docs, Update(d) PROVE TypeOK'
  BY <1>2 DEF Update, Ready, pqVars, registerVars, IdleState
<1>3. CASE ApplyCommon
  BY <1>3 DEF ApplyCommon, pqVars, registerVars, workerVars
<1>4. CASE ApplyModels
  BY <1>4 DEF ApplyModels, pqVars, registerVars, workerVars
<1>5. CASE ApplyRegisters
  <2>1. CASE "register_access" \notin DOMAIN doc.arrays
    BY <1>5, <2>1 DEF ApplyRegisters, pqVars, otherVars, registerVars, workerVars
  <2>2. CASE "register_access" \in DOMAIN doc.arrays
    <3>1. doc.arrays["register_access"] \in Seq(STRING)
      BY <2>2, DocsAssumption DEF NoDoc
    <3> DEFINE given == doc.arrays["register_access"]
    <3>2. PICK failed \in SUBSET (1..Len(given)) :
            items' = [i \in 1..Len(given) |-> [value |-> given[i], failed |-> i \in failed]]
      BY <1>5, <2>2 DEF ApplyRegisters
    <3>4. \A i \in 1..Len(given) :
            [value |-> given[i], failed |-> i \in failed] \in [value : STRING, failed : BOOLEAN]
      BY <3>1, ElementOfSeq
    <3>5. items' \in [1..Len(given) -> [value : STRING, failed : BOOLEAN]] /\ Len(given) \in Nat
      BY <3>1, <3>2, <3>4, LenProperties
    <3>6. items' \in Seq([value : STRING, failed : BOOLEAN])
      BY <3>5, FunctionIsSeq
    <3>3. index' \in Nat \ {0} /\ code' \in Codes
      BY <1>5, <2>2, <3>1 DEF ApplyRegisters
    <3> QED
      BY <1>5, <3>3, <3>6 DEF ApplyRegisters, pqVars, otherVars, workerVars
  <2> QED
    BY <2>1, <2>2
<1>6. ASSUME NEW k \in Keys, ApplyGroup(k) PROVE TypeOK'
  <2>1. Handed(k) \in [FieldsOf(k) -> Int]
    BY <1>6, HandedType DEF ApplyGroup
  <2>2. CASE SensorStreamSetProperty(k, Handed(k)) /\ UNCHANGED code
    BY <1>6, <2>1, <2>2, SetType DEF ApplyGroup, otherVars, registerVars, workerVars
  <2>3. CASE UNCHANGED <<pqVars, notify>> /\ code' \in Codes
    BY <1>6, <2>3 DEF ApplyGroup, pqVars, otherVars, registerVars, workerVars
  <2> QED
    BY <1>6, <2>2, <2>3 DEF ApplyGroup
<1>7. CASE GroupsApplied
  BY <1>7 DEF GroupsApplied, pqVars, otherVars, registerVars, workerVars
<1>8. CASE ApplyPorts
  <2>1. ports' \in [Ports -> BOOLEAN]
    BY <1>8, DocsAssumption DEF ApplyPorts, Overlay, NoDoc
  <2>2. Enabled \subseteq Ports
    BY DEF Enabled
  <2>3. DOMAIN plain' = PlainKeys /\ channels' \subseteq Ports /\ code' \in Codes
    BY <1>8, <2>2 DEF ApplyPorts
  <2> QED
    BY <1>8, <2>1, <2>3 DEF ApplyPorts, pqVars, registerVars, workerVars
<1>9. CASE ApplyCustom
  BY <1>9 DEF ApplyCustom, pqVars, otherVars, registerVars, workerVars
<1>10. CASE CustomApplied
  BY <1>10 DEF CustomApplied, VerifiedInv, NoDoc, pqVars, otherVars, registerVars, workerVars
<1>11. ASSUME NEW k \in Keys, MainSets(k) PROVE TypeOK'
  <2>1. PICK v \in AppValues[k] : SensorStreamSetProperty(k, v)
    BY <1>11 DEF MainSets
  <2>2. v \in [FieldsOf(k) -> Int]
    BY ValuesAssumption DEF Tuples
  <2> QED
    BY <1>11, <2>1, <2>2, SetType DEF MainSets, mainVars, otherVars, registerVars, workerVars
<1>12. ASSUME NEW k \in Keys, WorkerSets(k) PROVE TypeOK'
  <2>1. AppValues[k] \subseteq [FieldsOf(k) -> Int]
    BY ValuesAssumption DEF Tuples
  <2> QED
    BY <1>12, <2>1 DEF WorkerSets, mainVars, otherVars, registerVars
<1>13. CASE WorkerWritesTree
  <2>1. wset.key \in Keys /\ wset.value \in [FieldsOf(wset.key) -> Int]
    BY <1>13, StoredType DEF WorkerWritesTree, WorkerInv
  <2> QED
    BY <1>13, <2>1 DEF WorkerWritesTree, mainVars, otherVars, registerVars
<1>14. CASE WorkerWritesStruct
  <2>1. wset.key \in Keys /\ wset.value \in [FieldsOf(wset.key) -> Int]
    BY <1>14, StoredType DEF WorkerWritesStruct, WorkerInv
  <2> QED
    BY <1>14, <2>1 DEF WorkerWritesStruct, mainVars, otherVars, registerVars
<1>15. ASSUME NEW r \in Registers, SetsRegister(r) PROVE TypeOK'
  <2>1. r \in STRING
    BY ValuesAssumption
  <2>2. CASE UNCHANGED items
    BY <1>15, <2>2 DEF SetsRegister, mainVars, pqVars, otherVars, workerVars
  <2>3. CASE index \in 1..Len(items) /\ items' = [items EXCEPT ![index].value = r]
    <3>1. items[index] \in [value : STRING, failed : BOOLEAN]
      BY <2>3, ElementOfSeq
    <3>2. [items[index] EXCEPT !.value = r] \in [value : STRING, failed : BOOLEAN]
      BY <2>1, <3>1
    <3>3. items' \in Seq([value : STRING, failed : BOOLEAN])
      BY <2>3, <3>2, ExceptSeq
    <3> QED
      BY <1>15, <3>3 DEF SetsRegister, mainVars, pqVars, otherVars, workerVars
  <2> QED
    BY <1>15, <2>2, <2>3 DEF SetsRegister, RegisterTarget
<1>16. CASE Iterate \/ Start \/ Report \/ ClearNotification
  BY <1>16
    DEF Iterate, Start, Report, ClearNotification, mainVars, pqVars, otherVars,
        registerVars, workerVars
<1>17. CASE UNCHANGED vars
  BY <1>17 DEF vars, mainVars, pqVars, otherVars, registerVars, workerVars
<1> QED
  BY <1>1, <1>2, <1>3, <1>4, <1>5, <1>6, <1>7, <1>8, <1>9, <1>10, <1>11, <1>12,
     <1>13, <1>14, <1>15, <1>16, <1>17 DEF Next

\* What the worker is about to write is what the sensor has, and nobody else
\* sets anything before it has written.
LEMMA WorkerStep == TypeOK /\ WorkerInv /\ [Next]_vars => WorkerInv'
<1> SUFFICES ASSUME TypeOK, WorkerInv, [Next]_vars PROVE WorkerInv'
  OBVIOUS
<1> USE DEF WorkerInv, Applying
<1>1. CASE InitializeValues
  BY <1>1 DEF InitializeValues, workerVars
<1>2. ASSUME NEW d \in Docs, Update(d) PROVE WorkerInv'
  BY <1>2 DEF Update, Ready
<1>3. CASE ApplyCommon \/ ApplyModels \/ ApplyRegisters \/ GroupsApplied \/ ApplyPorts
  BY <1>3
    DEF ApplyCommon, ApplyModels, ApplyRegisters, GroupsApplied, ApplyPorts, workerVars
<1>4. CASE ApplyCustom \/ CustomApplied
  BY <1>4 DEF ApplyCustom, CustomApplied, workerVars
<1>5. ASSUME NEW k \in Keys, ApplyGroup(k) PROVE WorkerInv'
  BY <1>5 DEF ApplyGroup, workerVars
<1>6. ASSUME NEW k \in Keys, MainSets(k) PROVE WorkerInv'
  BY <1>6 DEF MainSets, InCallback, mainVars, workerVars
<1>7. ASSUME NEW k \in Keys, WorkerSets(k) PROVE WorkerInv'
  <2>1. PICK v \in AppValues[k] :
          /\ sensor' = [sensor EXCEPT ![k] = v]
          /\ \/ worker' = "json" /\ wset' = [key |-> k, value |-> Stored(k, v)]
             \/ UNCHANGED <<worker, wset>>
    BY <1>7 DEF WorkerSets
  <2>2. sensor'[k] = v
    BY <2>1 DEF TypeOK
  <2> QED
    BY <1>7, <2>1, <2>2 DEF WorkerSets, mainVars, Stored
<1>8. CASE WorkerWritesTree
  <2>1. json'[wset.key] = wset.value
    BY <1>8 DEF WorkerWritesTree, TypeOK
  <2> QED
    BY <1>8, <2>1 DEF WorkerWritesTree, mainVars
<1>9. CASE WorkerWritesStruct
  BY <1>9 DEF WorkerWritesStruct, mainVars
<1>10. ASSUME NEW r \in Registers, SetsRegister(r) PROVE WorkerInv'
  BY <1>10 DEF SetsRegister, mainVars, pqVars, workerVars
<1>11. CASE Iterate \/ Report \/ ClearNotification
  BY <1>11 DEF Iterate, Report, ClearNotification, pqVars, workerVars
<1>12. CASE Start
  BY <1>12 DEF Start, mainVars, pqVars
<1>13. CASE UNCHANGED vars
  BY <1>13 DEF vars, mainVars, pqVars, workerVars
<1> QED
  BY <1>1, <1>2, <1>3, <1>4, <1>5, <1>6, <1>7, <1>8, <1>9, <1>10, <1>11, <1>12, <1>13 DEF Next

-----------------------------------------------------------------------------
(* Tree, struct and sensor *)

\* Where nothing is new, the tree already has the value, and storing leaves
\* tree and struct equal.
LEMMA StoreAgrees ==
  ASSUME TypeOK, StructInv, pc # "open", worker = "idle",
         NEW k \in Keys, NEW v \in [FieldsOf(k) -> Int], SensorStreamSetProperty(k, v)
  PROVE  /\ \A j \in Keys \ {k} : /\ json'[j] = json[j] /\ cache'[j] = cache[j]
                                  /\ sensor'[j] = sensor[j]
         /\ json'[k] = cache'[k] \/ (json'[k] = json[k] /\ cache'[k] = cache[k])
         /\ k # "gamma_parameter" => json'[k] = Stored(k, sensor'[k])
<1> USE DEF TypeOK
<1>1. sensor'[k] = v /\ \A j \in Keys \ {k} : sensor'[j] = sensor[j]
  BY DEF SensorStreamSetProperty
<1>2. CASE IsNews(k, v)
  BY <1>1, <1>2 DEF SensorStreamSetProperty, StoreValue
<1>3. CASE ~IsNews(k, v)
  <2>1. json' = json /\ cache' = cache
    BY <1>3 DEF SensorStreamSetProperty, StoreValue
  <2>2. CASE k # "gamma_parameter"
    <3>1. Stored(k, v) = cache[k]
      BY <1>3, <2>2 DEF IsNews
    <3>2. json[k] = cache[k]
      <4>1. CASE k = Preset
        <5>1. cache[k]["color_temperature"] \in 0..3
          BY <3>1, <4>1, StoredType, PresetFields
        <5> QED
          BY <5>1, <4>1 DEF StructInv, Storing, Preset
      <4>2. CASE k # Preset
        BY <4>2 DEF StructInv, Storing, Preset
      <4> QED
        BY <4>1, <4>2
    <3> QED
      BY <1>1, <2>1, <3>1, <3>2
  <2>3. CASE k = "gamma_parameter"
    BY <1>1, <2>1, <2>3
  <2> QED
    BY <2>2, <2>3
<1> QED
  BY <1>2, <1>3

\* What has been read of the sensor is the struct's value, or still its zero.
LEMMA OpenedAgrees ==
  ASSUME TypeOK, StructInv, pc = "open", NEW j \in Keys, NEW v, v \in {cache[j], sensor[j]}
  PROVE  /\ v \in [FieldsOf(j) -> Int]
         /\ Stored(j, v) = v \/ (j = Preset /\ v["color_temperature"] > 3)
<1>1. v \in [FieldsOf(j) -> Int]
  BY DEF TypeOK
<1>2. CASE j # Preset
  BY <1>1, <1>2, StoredType
<1>3. CASE j = Preset
  <2>1. v = Zero(j) \/ v["color_temperature"] > 3
    BY <1>3, ValuesAssumption DEF StructInv, Preset
  <2>2. CASE v = Zero(j)
    <3>1. v = [f \in FieldsOf(j) |-> 0]
      BY <2>2 DEF Zero
    <3>2. Stored(j, v) = [f \in FieldsOf(j) |-> Position(0)]
      BY <3>1, <1>3 DEF Stored, Preset
    <3> QED
      BY <1>1, <3>1, <3>2 DEF Position
  <2> QED
    BY <1>1, <1>3, <2>1, <2>2
<1> QED
  BY <1>1, <1>2, <1>3

\* Outside a store, tree and struct of a group change together.
LEMMA StructStep == TypeOK /\ WorkerInv /\ StructInv /\ VerifiedInv /\ [Next]_vars => StructInv'
<1> SUFFICES ASSUME TypeOK, WorkerInv, StructInv, VerifiedInv, [Next]_vars PROVE StructInv'
  OBVIOUS
<1> USE DEF Labels
<1>1. CASE InitializeValues
  <2> SUFFICES ASSUME NEW j \in Keys
               PROVE  \/ json'[j] = cache'[j]
                      \/ j = Preset /\ cache'[j]["color_temperature"] > 3
    BY <1>1 DEF StructInv, Preset, InitializeValues
  <2>1. /\ pc = "open" /\ json'[j] = Stored(j, cache'[j])
        /\ cache'[j] \in {cache[j], sensor[j]}
    BY <1>1 DEF InitializeValues
  <2> QED
    BY <2>1, OpenedAgrees
<1>2. ASSUME NEW d \in Docs, Update(d) PROVE StructInv'
  BY <1>2 DEF StructInv, Storing, Update, Ready, pqVars
<1>3. CASE ApplyCommon \/ ApplyModels \/ ApplyRegisters \/ GroupsApplied \/ ApplyPorts
  BY <1>3
    DEF StructInv, Storing, ApplyCommon, ApplyModels, ApplyRegisters, GroupsApplied,
        ApplyPorts, pqVars, workerVars
<1>4. CASE ApplyCustom \/ CustomApplied
  BY <1>4 DEF StructInv, Storing, ApplyCustom, CustomApplied, pqVars, workerVars
<1>5. ASSUME NEW k \in Keys, NEW v \in [FieldsOf(k) -> Int], SensorStreamSetProperty(k, v),
             worker = "idle", pc # "open", pc' # "open"
      PROVE  StructInv'
  BY <1>5, StoreAgrees DEF StructInv, Storing
<1>6. ASSUME NEW k \in Keys, ApplyGroup(k) PROVE StructInv'
  <2>1. Handed(k) \in [FieldsOf(k) -> Int] /\ pc = "pq" /\ pc' = pc /\ worker = "idle"
    BY <1>6, HandedType DEF ApplyGroup, WorkerInv, Applying
  <2>2. CASE SensorStreamSetProperty(k, Handed(k))
    BY <1>5, <2>1, <2>2
  <2>3. CASE UNCHANGED pqVars
    BY <1>6, <2>1, <2>3 DEF StructInv, Storing, ApplyGroup, pqVars, workerVars
  <2> QED
    BY <1>6, <2>2, <2>3 DEF ApplyGroup, pqVars
<1>7. ASSUME NEW k \in Keys, MainSets(k) PROVE StructInv'
  <2>1. PICK v \in AppValues[k] : SensorStreamSetProperty(k, v)
    BY <1>7 DEF MainSets
  <2>2. v \in [FieldsOf(k) -> Int]
    BY ValuesAssumption DEF Tuples
  <2>3. pc # "open" /\ pc' = pc /\ worker = "idle"
    BY <1>7 DEF MainSets, InCallback, mainVars, WorkerInv, Applying
  <2> QED
    BY <1>5, <2>1, <2>2, <2>3
<1>8. ASSUME NEW k \in Keys, WorkerSets(k) PROVE StructInv'
  <2>1. pc # "open" /\ pc' = pc /\ worker = "idle" /\ UNCHANGED <<cache, json>>
    BY <1>8 DEF WorkerSets, WorkerInv, mainVars
  <2> QED
    BY <2>1 DEF StructInv, Storing
<1>9. CASE WorkerWritesTree
  <2>1. /\ pc # "open" /\ pc' = pc /\ wset' = wset /\ cache' = cache
        /\ worker = "json" /\ worker' = "cache"
        /\ \A j \in Keys \ {wset.key} : json'[j] = json[j]
    BY <1>9 DEF WorkerWritesTree, WorkerInv, mainVars, TypeOK
  <2> QED
    BY <2>1 DEF StructInv, Storing
<1>10. CASE WorkerWritesStruct
  <2>1. /\ pc # "open" /\ pc' = pc /\ json' = json
        /\ worker = "cache" /\ worker' = "idle"
        /\ \A j \in Keys \ {wset.key} : cache'[j] = cache[j]
        /\ cache'[wset.key] = json[wset.key]
    BY <1>10 DEF WorkerWritesStruct, WorkerInv, mainVars, TypeOK
  <2> QED
    BY <2>1 DEF StructInv, Storing
<1>11. ASSUME NEW r \in Registers, SetsRegister(r) PROVE StructInv'
  BY <1>11 DEF StructInv, Storing, SetsRegister, mainVars, pqVars, workerVars
<1>12. CASE Iterate \/ Start \/ Report \/ ClearNotification
  BY <1>12
    DEF StructInv, Storing, Iterate, Start, Report, ClearNotification, mainVars, pqVars,
        workerVars
<1>13. CASE UNCHANGED vars
  BY <1>13 DEF StructInv, Storing, vars, mainVars, pqVars, workerVars
<1> QED
  BY <1>1, <1>2, <1>3, <1>4, <1>6, <1>7, <1>8, <1>9, <1>10, <1>11, <1>12, <1>13 DEF Next

\* What was verified still holds: only the group that is applied changes its
\* struct, and it leaves todo.
LEMMA VerifiedStep == TypeOK /\ WorkerInv /\ StructInv /\ VerifiedInv /\ [Next]_vars => VerifiedInv'
<1> SUFFICES ASSUME TypeOK, WorkerInv, StructInv, VerifiedInv, [Next]_vars PROVE VerifiedInv'
  OBVIOUS
<1> USE DEF Labels
<1>1. CASE InitializeValues
  BY <1>1 DEF VerifiedInv, InitializeValues
<1>2. ASSUME NEW d \in Docs, Update(d) PROVE VerifiedInv'
  <2>1. todo = {} /\ cache' = cache /\ ports' = ports
    BY <1>2 DEF Update, Ready, VerifiedInv, pqVars
  <2>2. CASE d.valid /\ Verify(d)
    BY <1>2, <2>1, <2>2 DEF Update, Verify, VerifiedInv, VerifyGroup, VerifyPorts
  <2>3. CASE ~(d.valid /\ Verify(d))
    BY <1>2, <2>1, <2>3 DEF Update, VerifiedInv
  <2> QED
    BY <2>2, <2>3
<1>3. CASE ApplyCommon \/ ApplyModels \/ ApplyRegisters \/ GroupsApplied
  <2>1. doc' = doc /\ cache' = cache /\ ports' = ports
    BY <1>3 DEF ApplyCommon, ApplyModels, ApplyRegisters, GroupsApplied, pqVars, otherVars
  <2>2. todo' = todo \/ (todo' = {} /\ pc' = "custom")
    BY <1>3 DEF ApplyCommon, ApplyModels, ApplyRegisters, GroupsApplied
  <2> QED
    BY <1>3, <2>1, <2>2
      DEF VerifiedInv, VerifyGroup, VerifyPorts, ApplyCommon, ApplyModels, ApplyRegisters,
          GroupsApplied
<1>4. CASE ApplyPorts \/ ApplyCustom \/ CustomApplied
  BY <1>4 DEF VerifiedInv, ApplyPorts, ApplyCustom, CustomApplied
<1>5. ASSUME NEW k \in Keys, ApplyGroup(k) PROVE VerifiedInv'
  <2>1. /\ todo' = todo \ {k} /\ UNCHANGED <<pc, doc, ports>> /\ pc = "pq"
        /\ worker = "idle"
    BY <1>5 DEF ApplyGroup, otherVars, WorkerInv, Applying
  <2>2. \A j \in todo \ {k} : j \in Keys /\ cache'[j] = cache[j]
    <3>1. Handed(k) \in [FieldsOf(k) -> Int]
      BY <1>5, HandedType DEF ApplyGroup
    <3>2. CASE SensorStreamSetProperty(k, Handed(k))
      BY <2>1, <3>1, <3>2, TodoType, StoreAgrees
    <3>3. CASE UNCHANGED pqVars
      BY <3>3, TodoType DEF pqVars
    <3> QED
      BY <1>5, <3>2, <3>3 DEF ApplyGroup, pqVars
  <2> QED
    BY <2>1, <2>2 DEF VerifiedInv, VerifyGroup, VerifyPorts
<1>6. ASSUME NEW k \in Keys, MainSets(k) \/ WorkerSets(k) PROVE VerifiedInv'
  <2>1. UNCHANGED <<pc, doc, todo>> /\ pc \notin {"common", "models", "registers", "pq", "ports"}
    BY <1>6 DEF MainSets, WorkerSets, InCallback, mainVars, WorkerInv, Applying
  <2> QED
    BY <2>1 DEF VerifiedInv
<1>7. CASE WorkerWritesTree \/ WorkerWritesStruct
  <2>1. UNCHANGED <<pc, doc, todo>> /\ pc \notin {"common", "models", "registers", "pq", "ports"}
    BY <1>7 DEF WorkerWritesTree, WorkerWritesStruct, mainVars, WorkerInv, Applying
  <2> QED
    BY <2>1 DEF VerifiedInv
<1>8. ASSUME NEW r \in Registers, SetsRegister(r) PROVE VerifiedInv'
  BY <1>8 DEF SetsRegister, mainVars, pqVars, otherVars, VerifiedInv, VerifyGroup, VerifyPorts
<1>9. CASE Iterate \/ Start \/ Report \/ ClearNotification
  BY <1>9 DEF Iterate, Start, Report, ClearNotification, mainVars, VerifiedInv
<1>10. CASE UNCHANGED vars
  BY <1>10 DEF vars, mainVars, pqVars, otherVars, VerifiedInv, VerifyGroup, VerifyPorts
<1> QED
  BY <1>1, <1>2, <1>3, <1>4, <1>5, <1>6, <1>7, <1>8, <1>9, <1>10 DEF Next

-----------------------------------------------------------------------------
(* What a code of 0 says *)

\* A group that the sensor has accepted is in the tree as the document asked.
LEMMA AcceptedIsApplied ==
  ASSUME TypeOK, WorkerInv, StructInv, VerifiedInv, pc = "pq",
         NEW k \in todo, k # "gamma_parameter", SensorStreamSetProperty(k, Handed(k))
  PROVE  \A f \in DOMAIN doc.pq[k] : json'[k][f] = doc.pq[k][f]
<1>1. k \in Keys /\ Handed(k) \in [FieldsOf(k) -> Int]
  BY TodoType, HandedType
<1>2. json'[k] = Stored(k, sensor'[k])
  BY <1>1, StoreAgrees DEF WorkerInv, Applying
<1>3. sensor'[k] = Handed(k)
  BY <1>1 DEF SensorStreamSetProperty, TypeOK
<1> QED
  BY <1>1, <1>2, <1>3, StoredIsAsked

\* The settings of AppliedInv by the stage after which they are in force.
LEMMA AppliedStep ==
  TypeOK /\ WorkerInv /\ StructInv /\ VerifiedInv /\ AppliedInv /\ [Next]_vars => AppliedInv'
<1> SUFFICES ASSUME TypeOK, WorkerInv, StructInv, VerifiedInv, AppliedInv, [Next]_vars
             PROVE  AppliedInv'
  OBVIOUS
<1> USE DEF Labels
<1>0. ASSUME pc' \notin {"common", "models", "registers", "pq", "ports", "custom"}
      PROVE  AppliedInv'
  BY <1>0 DEF AppliedInv
<1>1. CASE InitializeValues
  BY <1>0, <1>1 DEF InitializeValues
<1>2. ASSUME NEW d \in Docs, Update(d) PROVE AppliedInv'
  BY <1>0, <1>2 DEF Update, AppliedInv
<1>3. CASE ApplyCommon
  <2>1. CASE OutOfRange
    BY <1>3, <2>1 DEF ApplyCommon, AppliedInv
  <2>2. CASE ~OutOfRange
    <3> DEFINE first == {"process_state", "log_level", PerMessage}
    <3>1. /\ pc = "common" /\ pc' = "models" /\ code' = code /\ code = "OK"
          /\ UNCHANGED <<doc, todo>>
      BY <1>3, <2>2 DEF ApplyCommon, AppliedInv
    <3>2. \A k \in first : k \in PlainKeys /\ plain'[k] = Overlay(plain, doc.plain)[k]
      BY <1>3, <2>2 DEF ApplyCommon, PlainKeys, PerMessage
    <3>3. DOMAIN doc.plain \subseteq PlainKeys
      BY DocsAssumption DEF TypeOK, NoDoc
    <3>4. \A k \in DOMAIN doc.plain \ {"number_of_iterations", "format"} : plain'[k] = doc.plain[k]
      BY <3>2, <3>3 DEF Overlay, PlainKeys, PerMessage, TypeOK
    <3> QED
      BY <3>1, <3>4 DEF AppliedInv
  <2> QED
    BY <2>1, <2>2
<1>4. CASE ApplyModels
  <2>1. pc = "models" /\ pc' = "registers" /\ code = "OK" /\ UNCHANGED <<doc, todo, plain>>
    BY <1>4 DEF ApplyModels, AppliedInv
  <2>2. ASSUME "ai_models" \in DOMAIN doc.arrays, Answered(doc), code' = "OK"
        PROVE  models' = doc.arrays["ai_models"]
    <3> DEFINE given == doc.arrays["ai_models"]
    <3>1. given \in Seq(STRING)
      BY <2>2, DocsAssumption DEF TypeOK, NoDoc
    <3>2. Len(given) \in Nat /\ Len(given) <= 1
      BY <2>2, <3>1, LenProperties DEF Answered
    <3>3. ASSUME NEW n \in Nat, n <= 1
          PROVE  n \in {0, 1} /\ (IF n > MaxModels THEN MaxModels ELSE n) = n
      BY <3>3, LimitsAssumption
    <3>4. /\ Len(given) \in {0, 1}
          /\ (IF Len(given) > MaxModels THEN MaxModels ELSE Len(given)) = Len(given)
      BY <3>2, <3>3
    <3>5. PICK failed \in SUBSET (1..Len(given)) :
            /\ models' = [i \in (1..Len(given)) \ failed |-> given[i]]
            /\ code' = CASE Len(given) = 0 -> code [] Len(given) \in failed -> "INTERNAL" [] OTHER -> "OK"
      BY <1>4, <2>2, <3>4 DEF ApplyModels
    <3>6. failed = {}
      BY <2>2, <3>4, <3>5
    <3>7. given = [i \in 1..Len(given) |-> given[i]]
      BY <3>1
    <3> QED
      BY <3>5, <3>6, <3>7
  <2> QED
    BY <2>1, <2>2 DEF AppliedInv
<1>5. CASE ApplyRegisters
  <2>1. pc = "registers" /\ pc' = "pq" /\ UNCHANGED <<doc, todo, plain, models>>
    BY <1>5 DEF ApplyRegisters, otherVars
  <2>2. todo = DOMAIN doc.pq
    BY <2>1 DEF AppliedInv
  <2>3. code' = "OK" => code = "OK"
    BY <1>5 DEF ApplyRegisters
  <2>4. ASSUME "register_access" \in DOMAIN doc.arrays, code' = "OK"
        PROVE  \A i \in 1..Len(doc.arrays["register_access"]) : ~items'[i].failed
    <3> DEFINE given == doc.arrays["register_access"]
    <3>1. PICK failed \in SUBSET (1..Len(given)) :
            /\ items' = [i \in 1..Len(given) |-> [value |-> given[i], failed |-> i \in failed]]
            /\ code' = IF failed = {} THEN code ELSE "INVALID_ARGUMENT"
      BY <1>5, <2>4 DEF ApplyRegisters
    <3>2. failed = {}
      BY <2>4, <3>1
    <3> QED
      BY <3>1, <3>2
  <2> QED
    BY <2>1, <2>2, <2>3, <2>4 DEF AppliedInv
<1>6. ASSUME NEW k \in Keys, ApplyGroup(k) PROVE AppliedInv'
  <2>1. /\ pc = "pq" /\ pc' = "pq" /\ k \in todo /\ todo' = todo \ {k}
        /\ UNCHANGED <<doc, plain, models, items>>
    BY <1>6 DEF ApplyGroup, otherVars, registerVars
  <2>2. ASSUME Answered(doc), code' = "OK"
        PROVE  /\ code = "OK" /\ k # "gamma_parameter"
               /\ SensorStreamSetProperty(k, Handed(k))
    <3>1. k # "gamma_parameter"
      BY <2>1, <2>2 DEF Answered, TypeOK
    <3> QED
      BY <1>6, <2>2, <3>1 DEF ApplyGroup, TooLong
  <2>3. ASSUME Answered(doc), code' = "OK", NEW j \in DOMAIN doc.pq \ todo'
        PROVE  \A f \in DOMAIN doc.pq[j] : json'[j][f] = doc.pq[j][f]
    <3>1. CASE j = k
      BY <2>1, <2>2, <2>3, <3>1, AcceptedIsApplied
    <3>2. CASE j # k
      <4>1. j \in DOMAIN doc.pq \ todo /\ j \in Keys /\ k \in Keys
        BY <2>1, <3>2, DocsAssumption DEF TypeOK, NoDoc
      <4>2. json'[j] = json[j]
        BY <2>1, <2>2, <2>3, <3>2, <4>1, HandedType, StoreAgrees DEF WorkerInv, Applying
      <4>3. GroupApplied(j)
        BY <2>1, <2>2, <2>3, <4>1 DEF AppliedInv
      <4> QED
        BY <4>2, <4>3 DEF GroupApplied
    <3> QED
      BY <3>1, <3>2
  <2> QED
    BY <2>1, <2>2, <2>3 DEF AppliedInv, GroupApplied
<1>7. CASE GroupsApplied
  BY <1>7
    DEF GroupsApplied, AppliedInv, GroupApplied, pqVars, otherVars, registerVars
<1>8. CASE ApplyPorts
  <2>1. pc = "ports" /\ pc' = "custom" /\ UNCHANGED <<doc, json, models, items>>
    BY <1>8 DEF ApplyPorts, pqVars, registerVars
  <2>2. ASSUME Answered(doc), code' = "OK" PROVE DocApplied'
    <3>1. code = "OK" /\ todo = {}
      BY <1>8, <2>1, <2>2 DEF ApplyPorts, VerifiedInv
    <3>2. \A k \in DOMAIN doc'.pq : GroupApplied(k)'
      BY <2>1, <2>2, <3>1 DEF AppliedInv, GroupApplied
    <3>3. \A k \in DOMAIN doc'.plain : plain'[k] = doc'.plain[k]
      <4>1. DOMAIN doc.plain \subseteq PlainKeys
        BY DocsAssumption DEF TypeOK, NoDoc
      <4>2. \A k \in PlainKeys :
              plain'[k] = IF k \in {"number_of_iterations", "format"}
                            THEN Overlay(plain, doc.plain)[k] ELSE plain[k]
        BY <1>8 DEF ApplyPorts
      <4>3. \A k \in DOMAIN doc.plain \ {"number_of_iterations", "format"} : plain[k] = doc.plain[k]
        BY <2>1, <2>2, <3>1 DEF AppliedInv
      <4> QED
        BY <2>1, <4>1, <4>2, <4>3 DEF Overlay, TypeOK
    <3>4. ASSUME doc.ports # <<>>
          PROVE  \A p \in DOMAIN doc.ports : doc.ports[p] = (p \in channels')
      <4>1. \E p \in Ports : ports'[p]
        BY <1>8, <2>1, <3>4 DEF VerifiedInv, VerifyPorts, ApplyPorts
      <4>2. channels' = {p \in Ports : ports'[p]}
        BY <1>8, <2>2, <3>4, <4>1 DEF ApplyPorts, Enabled
      <4>3. /\ DOMAIN doc.ports \subseteq Ports
            /\ \A p \in DOMAIN doc.ports : doc.ports[p] \in BOOLEAN
        BY DocsAssumption DEF TypeOK, NoDoc
      <4>4. \A p \in DOMAIN doc.ports : ports'[p] = doc.ports[p]
        BY <1>8, <4>3 DEF ApplyPorts, Overlay, TypeOK
      <4> QED
        BY <4>2, <4>3, <4>4
    <3>5. /\ "ai_models" \in DOMAIN doc'.arrays => models' = doc'.arrays["ai_models"]
          /\ "register_access" \in DOMAIN doc'.arrays =>
               \A i \in 1..Len(doc'.arrays["register_access"]) : ~items'[i].failed
      BY <2>1, <2>2, <3>1 DEF AppliedInv
    <3> QED
      BY <2>1, <3>2, <3>3, <3>4, <3>5 DEF DocApplied
  <2> QED
    BY <2>1, <2>2 DEF AppliedInv
<1>9. CASE ApplyCustom \/ CustomApplied
  BY <1>0, <1>9 DEF ApplyCustom, CustomApplied
<1>10. ASSUME NEW k \in Keys, MainSets(k) \/ WorkerSets(k) PROVE AppliedInv'
  BY <1>0, <1>10 DEF MainSets, WorkerSets, InCallback, mainVars, WorkerInv, Applying
<1>11. CASE WorkerWritesTree \/ WorkerWritesStruct
  BY <1>0, <1>11 DEF WorkerWritesTree, WorkerWritesStruct, mainVars, WorkerInv, Applying
<1>12. ASSUME NEW r \in Registers, SetsRegister(r) PROVE AppliedInv'
  BY <1>0, <1>12 DEF SetsRegister, InCallback, mainVars, WorkerInv, Applying
<1>13. CASE Iterate \/ Start \/ Report \/ ClearNotification
  BY <1>0, <1>13 DEF Iterate, Start, Report, ClearNotification, mainVars
<1>14. CASE UNCHANGED vars
  BY <1>14
    DEF vars, mainVars, pqVars, otherVars, registerVars, AppliedInv, DocApplied, GroupApplied
<1> QED
  BY <1>1, <1>2, <1>3, <1>4, <1>5, <1>6, <1>7, <1>8, <1>9, <1>10, <1>11, <1>12, <1>13,
     <1>14 DEF Next

-----------------------------------------------------------------------------
(* What is reported *)

\* The tree is made of these variables.
LEMMA TreeOf ==
  ASSUME UNCHANGED <<json, plain, ports, models, items, code>>
  PROVE  Tree' = Tree
  BY DEF Tree, RegisterArray, Live

\* Whatever the main thread changes in the tree raises the notification, and
\* a worker changes it only while Running.
LEMMA ReportStep == TypeOK /\ WorkerInv /\ ReportInv /\ [Next]_vars => ReportInv'
<1> SUFFICES ASSUME TypeOK, WorkerInv, ReportInv, [Next]_vars PROVE ReportInv'
  OBVIOUS
<1> USE DEF ReportInv, Labels, Applying
<1> HIDE DEF Tree
<1>1. CASE InitializeValues
  BY <1>1 DEF InitializeValues
<1>2. ASSUME NEW d \in Docs, Update(d) PROVE ReportInv'
  BY <1>2 DEF Update
<1>3. CASE ApplyCommon \/ ApplyModels \/ ApplyRegisters \/ GroupsApplied \/ ApplyPorts
  <2>1. notify /\ notify' = notify /\ pc' \in Applying
    BY <1>3 DEF ApplyCommon, ApplyModels, ApplyRegisters, GroupsApplied, ApplyPorts
  <2> QED
    BY <2>1
<1>4. CASE ApplyCustom \/ CustomApplied
  BY <1>4 DEF ApplyCustom, CustomApplied
<1>5. ASSUME NEW k \in Keys, ApplyGroup(k) PROVE ReportInv'
  <2>1. pc' = "pq" /\ notify /\ (notify' = notify \/ notify' = (notify \/ IsNews(k, Handed(k))))
    BY <1>5 DEF ApplyGroup, SensorStreamSetProperty, StoreValue
  <2> QED
    BY <2>1
<1>6. ASSUME NEW k \in Keys, MainSets(k) PROVE ReportInv'
  <2>1. PICK v \in AppValues[k] : SensorStreamSetProperty(k, v)
    BY <1>6 DEF MainSets
  <2>2. /\ UNCHANGED <<pc, running, reported, plain, ports, models, items, code>>
        /\ pc \in {"onConfigure", "end"}
    BY <1>6 DEF MainSets, InCallback, mainVars, otherVars, registerVars, workerVars
  <2>3. CASE IsNews(k, v)
    <3>1. notify'
      BY <2>1, <2>3 DEF SensorStreamSetProperty, StoreValue
    <3> QED
      BY <2>2, <3>1
  <2>4. CASE ~IsNews(k, v)
    <3>1. json' = json /\ notify' = notify
      BY <2>1, <2>4 DEF SensorStreamSetProperty, StoreValue, TypeOK
    <3> QED
      BY <2>2, <3>1, TreeOf
  <2> QED
    BY <2>3, <2>4
<1>7. ASSUME NEW k \in Keys, WorkerSets(k) PROVE ReportInv'
  BY <1>7 DEF WorkerSets, mainVars, WorkerInv
<1>8. CASE WorkerWritesTree \/ WorkerWritesStruct
  BY <1>8 DEF WorkerWritesTree, WorkerWritesStruct, mainVars, WorkerInv
<1>9. ASSUME NEW r \in Registers, SetsRegister(r) PROVE ReportInv'
  <2>1. UNCHANGED <<pc, running, reported, json, plain, ports, models, code>>
    BY <1>9 DEF SetsRegister, mainVars, pqVars, otherVars, workerVars
  <2>2. notify' \/ (items' = items /\ notify' = notify)
    BY <1>9 DEF SetsRegister
  <2>3. notify => notify'
    BY <2>2
  <2>4. CASE items' = items /\ notify' = notify
    BY <2>1, <2>4, TreeOf
  <2>5. CASE notify' /\ ~running
    <3>1. pc # "clear"
      BY <1>9, <2>5 DEF SetsRegister, InCallback
    <3> QED
      BY <2>1, <2>3, <2>5, <3>1
  <2>6. CASE notify' /\ running
    BY <2>1, <2>3, <2>6
  <2> QED
    BY <2>2, <2>4, <2>5, <2>6 DEF TypeOK
<1>10. CASE Iterate
  BY <1>10, TreeOf DEF Iterate, pqVars, otherVars, registerVars, workerVars
<1>11. CASE Start
  BY <1>11 DEF Start, mainVars
<1>12. CASE Report
  <2>1. Tree' = Tree
    BY <1>12, TreeOf DEF Report, pqVars, otherVars, registerVars
  <2> QED
    BY <1>12, <2>1 DEF Report, SendState, workerVars
<1>13. CASE ClearNotification
  <2>1. Tree' = Tree
    BY <1>13, TreeOf DEF ClearNotification, pqVars, otherVars, registerVars
  <2> QED
    BY <1>13, <2>1 DEF ClearNotification, workerVars
<1>14. CASE UNCHANGED vars
  BY <1>14, TreeOf DEF vars, mainVars, pqVars, otherVars, registerVars, workerVars
<1> QED
  BY <1>1, <1>2, <1>3, <1>4, <1>5, <1>6, <1>7, <1>8, <1>9, <1>10, <1>11, <1>12, <1>13,
     <1>14 DEF Next

-----------------------------------------------------------------------------
(* The theorems *)

\* Before the stream is open nothing has been verified, applied or reported.
LEMMA SettingsInit == Init => SettingsInv
<1> SUFFICES ASSUME Init PROVE SettingsInv
  OBVIOUS
<1>1. \A k \in Keys : Zero(k) \in [FieldsOf(k) -> Int]
  BY DEF Zero
<1>2. \A k \in Keys : sensor[k] \in [FieldsOf(k) -> Int]
  <2>1. \A k \in Keys : sensor[k] \in InitialSensor[k] /\ InitialSensor[k] \subseteq Tuples(k)
    BY ValuesAssumption DEF Init
  <2>2. \A k \in Keys : Tuples(k) \subseteq [FieldsOf(k) -> Int]
    BY DEF Tuples
  <2> QED
    BY <2>1, <2>2
<1>3. items \in Seq([value : STRING, failed : BOOLEAN])
  BY DEF Init
<1>4. TypeOK
  <2>1. DOMAIN sensor = Keys /\ DOMAIN cache = Keys /\ DOMAIN json = Keys
    BY DEF Init
  <2>2. \A t \in {sensor, cache, json} :
          DOMAIN t = Keys /\ \A k \in Keys : t[k] \in [FieldsOf(k) -> Int]
    BY <1>1, <1>2, <2>1 DEF Init
  <2>3. /\ pc \in Labels /\ code \in Codes /\ notify \in BOOLEAN /\ running \in BOOLEAN
        /\ doc = NoDoc /\ todo = {} /\ worker = "idle"
    BY DEF Init, Labels, Codes
  <2>4. DOMAIN plain = PlainKeys /\ ports \in [Ports -> BOOLEAN] /\ channels \subseteq Ports
    BY DEF Init
  <2>5. index \in Nat \ {0}
    BY DEF Init
  <2> QED
    BY <1>3, <2>2, <2>3, <2>4, <2>5 DEF TypeOK
<1>5. WorkerInv /\ VerifiedInv /\ AppliedInv /\ ReportInv
  BY DEF Init, NoDoc, WorkerInv, VerifiedInv, AppliedInv, ReportInv, Applying
<1>6. StructInv
  BY DEF Init, StructInv
<1> QED
  BY <1>4, <1>5, <1>6 DEF SettingsInv

\* Documents, stores and reports keep the invariant.
THEOREM SettingsInvariance == Spec => []SettingsInv
<1>1. SettingsInv /\ [Next]_vars => SettingsInv'
  BY TypeStep, WorkerStep, StructStep, VerifiedStep, AppliedStep, ReportStep DEF SettingsInv
<1> QED
  BY <1>1, SettingsInit, PTL DEF Spec

\* The settings keep their types.
THEOREM SettingsTypes == Spec => []TypeOK
<1>1. SettingsInv => TypeOK
  BY DEF SettingsInv
<1> QED
  BY <1>1, SettingsInvariance, PTL

\* res_info.code 0 at the end of the common settings: they are all in force.
THEOREM AppliedTheorem == Spec => []OkMeansApplied
<1>1. SettingsInv => OkMeansApplied
  BY DEF SettingsInv, AppliedInv, OkMeansApplied
<1> QED
  BY <1>1, SettingsInvariance, PTL

\* A device that is not Running and has nothing to notify has reported its tree,
\* or the agent did not take the last report (LoopIterate, SendState).
THEOREM ReportedTheorem == Spec => []StoppedIsReported
<1>1. SettingsInv => StoppedIsReported
  BY DEF SettingsInv, ReportInv, StoppedIsReported
<1> QED
  BY <1>1, SettingsInvariance, PTL

\* A group leaves todo because it is applied, or because none is.
LEMMA AppliesGroup ==
  ASSUME SettingsInv, Next, NEW k \in Keys, Applies(k)
  PROVE  sensor' = sensor \/ ApplyGroup(k)
<1>1. todo' # todo /\ k \in todo
  BY DEF Applies
<1>2. CASE \E d \in Docs : Update(d)
  BY <1>1, <1>2 DEF Update, Ready, SettingsInv, VerifiedInv
<1>3. CASE ApplyCommon
  BY <1>3 DEF ApplyCommon, pqVars
<1>4. CASE \E j \in Keys : ApplyGroup(j)
  BY <1>1, <1>4 DEF ApplyGroup, Applies
<1> QED
  BY <1>1, <1>2, <1>3, <1>4
    DEF Next, InitializeValues, ApplyModels, ApplyRegisters, GroupsApplied, ApplyPorts,
        ApplyCustom, CustomApplied, MainSets, WorkerSets, WorkerWritesTree,
        WorkerWritesStruct, SetsRegister, Iterate, Start, Report, ClearNotification,
        mainVars

\* A group is set as it was verified: the struct that completes it has not
\* changed in between.
THEOREM OrderedTheorem == Spec => SetsOrdered
<1> DEFINE Ordered == \A k \in Keys :
                        Applies(k) /\ sensor'[k] # sensor[k] => GroupOrdered(k, sensor'[k])
<1>1. SettingsInv /\ [Next]_vars => [Ordered]_vars
  <2> SUFFICES ASSUME SettingsInv, Next, NEW k \in Keys, Applies(k), sensor'[k] # sensor[k]
               PROVE  GroupOrdered(k, sensor'[k])
    OBVIOUS
  <2>1. ApplyGroup(k)
    BY AppliesGroup
  <2>2. SensorStreamSetProperty(k, Handed(k)) /\ k \in todo
    BY <2>1 DEF ApplyGroup, pqVars
  <2>3. sensor'[k] = Handed(k)
    BY <2>2 DEF SensorStreamSetProperty, SettingsInv, TypeOK
  <2>4. CASE k = Preset
    BY <2>4 DEF GroupOrdered, Preset
  <2>5. CASE k # Preset
    <3>1. Handed(k) = Overlay(cache[k], doc.pq[k])
      BY <2>2, <2>5, HandedType DEF SettingsInv
    <3>2. GroupOrdered(k, Overlay(cache[k], doc.pq[k]))
      BY <2>2 DEF SettingsInv, VerifiedInv, VerifyGroup
    <3> QED
      BY <2>3, <3>1, <3>2
  <2> QED
    BY <2>4, <2>5
<1> QED
  BY <1>1, SettingsInvariance, PTL DEF Spec, SetsOrdered

-----------------------------------------------------------------------------
(* The sensor, when it can be read *)

\* The main thread sets a property: its tree shows it.
LEMMA MainSetsSensor ==
  ASSUME TypeOK, StructInv, SensorInv, pc # "open", worker = "idle", UNCHANGED workerVars,
         NEW k \in Keys, NEW v \in [FieldsOf(k) -> Int], SensorStreamSetProperty(k, v)
  PROVE  SensorInv'
<1>1. \A j \in Keys \ {k} : json'[j] = json[j] /\ sensor'[j] = sensor[j]
  BY StoreAgrees
<1>2. k # "gamma_parameter" => json'[k] = Stored(k, sensor'[k])
  BY StoreAgrees
<1> QED
  BY <1>1, <1>2 DEF SensorInv, Storing, workerVars, Stored

\* If every property can be read, the tree follows the sensor.
LEMMA SensorStep ==
  ASSUME "getFails" \notin Env
  PROVE  SettingsInv /\ SensorInv /\ [Next]_vars => SensorInv'
<1> SUFFICES ASSUME TypeOK, WorkerInv, StructInv, VerifiedInv, SensorInv, [Next]_vars
             PROVE  SensorInv'
  BY DEF SettingsInv
<1>1. CASE InitializeValues
  <2> SUFFICES ASSUME NEW j \in Keys \ {"gamma_parameter"}
               PROVE  json'[j] = Stored(j, sensor'[j])
    BY DEF SensorInv
  <2>1. cache'[j] = sensor[j] /\ json'[j] = Stored(j, cache'[j]) /\ sensor' = sensor
    BY <1>1 DEF InitializeValues, May
  <2> QED
    BY <2>1
<1>2. ASSUME UNCHANGED <<sensor, json, worker, wset>>, pc' # "open" => pc # "open"
      PROVE  SensorInv'
  BY <1>2 DEF SensorInv, Storing, Stored
<1>3. ASSUME NEW d \in Docs, Update(d) PROVE SensorInv'
  BY <1>2, <1>3 DEF Update, Ready, pqVars
<1>4. CASE ApplyCommon \/ ApplyModels \/ ApplyRegisters \/ GroupsApplied \/ ApplyPorts
  BY <1>2, <1>4
    DEF ApplyCommon, ApplyModels, ApplyRegisters, GroupsApplied, ApplyPorts, pqVars, workerVars
<1>5. ASSUME NEW k \in Keys, ApplyGroup(k) PROVE SensorInv'
  <2>1. Handed(k) \in [FieldsOf(k) -> Int] /\ pc = "pq" /\ worker = "idle" /\ UNCHANGED workerVars
    BY <1>5, HandedType DEF ApplyGroup, WorkerInv, Applying
  <2>2. CASE SensorStreamSetProperty(k, Handed(k))
    BY <2>1, <2>2, MainSetsSensor
  <2>3. CASE UNCHANGED pqVars
    BY <1>2, <2>1, <2>3 DEF pqVars, workerVars
  <2> QED
    BY <1>5, <2>2, <2>3 DEF ApplyGroup, pqVars
<1>6. CASE ApplyCustom \/ CustomApplied
  BY <1>2, <1>6 DEF ApplyCustom, CustomApplied, pqVars, workerVars
<1>7. ASSUME NEW k \in Keys, MainSets(k) PROVE SensorInv'
  <2>1. PICK v \in AppValues[k] : SensorStreamSetProperty(k, v)
    BY <1>7 DEF MainSets
  <2>2. v \in [FieldsOf(k) -> Int]
    BY ValuesAssumption DEF Tuples
  <2>3. pc # "open" /\ worker = "idle" /\ UNCHANGED workerVars
    BY <1>7 DEF MainSets, InCallback, WorkerInv, Applying
  <2> QED
    BY <2>1, <2>2, <2>3, MainSetsSensor
<1>8. ASSUME NEW k \in Keys, WorkerSets(k) PROVE SensorInv'
  <2>1. PICK v \in AppValues[k] :
          /\ sensor' = [sensor EXCEPT ![k] = v]
          /\ \/ IsNews(k, v) /\ worker' = "json" /\ wset' = [key |-> k, value |-> Stored(k, v)]
             \/ ~IsNews(k, v) /\ UNCHANGED <<worker, wset>>
    BY <1>8 DEF WorkerSets
  <2>2. /\ pc # "open" /\ worker = "idle" /\ json' = json /\ sensor'[k] = v
        /\ \A j \in Keys \ {k} : sensor'[j] = sensor[j]
    BY <1>8, <2>1 DEF WorkerSets, WorkerInv, TypeOK
  <2>3. \A j \in Keys \ {"gamma_parameter", k} : json'[j] = Stored(j, sensor'[j])
    BY <2>2 DEF SensorInv, Storing
  <2>4. CASE IsNews(k, v)
    BY <2>1, <2>3, <2>4 DEF SensorInv, Storing
  <2>5. CASE ~IsNews(k, v) /\ k # "gamma_parameter"
    <3>1. v \in [FieldsOf(k) -> Int]
      BY ValuesAssumption DEF Tuples
    <3>2. Stored(k, v) = cache[k]
      BY <2>5 DEF IsNews
    <3>3. k = Preset => cache[k]["color_temperature"] \in 0..3
      BY <3>1, <3>2, StoredType, PresetFields
    <3>4. json[k] = cache[k]
      BY <2>2, <3>3 DEF StructInv, Storing, Preset
    <3> QED
      BY <2>1, <2>2, <2>3, <2>5, <3>2, <3>4 DEF SensorInv, Storing
  <2>6. CASE k = "gamma_parameter"
    BY <2>3, <2>6 DEF SensorInv
  <2> QED
    BY <2>4, <2>5, <2>6
<1>9. CASE WorkerWritesTree
  <2>1. /\ pc # "open" /\ wset' = wset /\ sensor' = sensor /\ worker = "json" /\ worker' = "cache"
        /\ \A j \in Keys \ {wset.key} : json'[j] = json[j]
    BY <1>9 DEF WorkerWritesTree, WorkerInv, TypeOK
  <2> QED
    BY <2>1 DEF SensorInv, Storing
<1>10. CASE WorkerWritesStruct
  <2>1. /\ pc # "open" /\ sensor' = sensor /\ json' = json /\ worker = "cache"
        /\ json[wset.key] = Stored(wset.key, sensor[wset.key])
    BY <1>10 DEF WorkerWritesStruct, WorkerInv
  <2> QED
    BY <2>1 DEF SensorInv, Storing
<1>11. ASSUME NEW r \in Registers, SetsRegister(r) PROVE SensorInv'
  BY <1>2, <1>11 DEF SetsRegister, mainVars, pqVars, workerVars
<1>12. CASE Iterate \/ Start \/ Report \/ ClearNotification
  BY <1>2, <1>12 DEF Iterate, Start, Report, ClearNotification, mainVars, pqVars, workerVars
<1>13. CASE UNCHANGED vars
  BY <1>2, <1>13 DEF vars, mainVars, pqVars, workerVars
<1> QED
  BY <1>1, <1>3, <1>4, <1>5, <1>6, <1>7, <1>8, <1>9, <1>10, <1>11, <1>12, <1>13 DEF Next

\* Struct and tree agree, and the tree agrees with the sensor.
LEMMA MirroredFollows == SettingsInv /\ SensorInv => Mirrored
<1> SUFFICES ASSUME TypeOK, StructInv, SensorInv, pc # "open",
                    NEW k \in Keys \ {"gamma_parameter"}, ~Storing(k)
             PROVE  /\ json[k] = Stored(k, sensor[k])
                    /\ k \notin Converted => cache[k] = sensor[k]
  BY DEF SettingsInv, Mirrored
<1>1. json[k] = Stored(k, sensor[k]) /\ sensor[k] \in [FieldsOf(k) -> Int]
  BY DEF SensorInv, TypeOK
<1>2. k \notin Converted => json[k] = cache[k] /\ Stored(k, sensor[k]) = sensor[k]
  BY DEF StructInv, Converted, Stored
<1> QED
  BY <1>1, <1>2

\* Without failing reads the tree mirrors the sensor in every reachable state.
THEOREM MirroredTheorem ==
  ASSUME "getFails" \notin Env
  PROVE  Spec => []Mirrored
<1>1. Init => SensorInv
  BY DEF Init, SensorInv
<1>2. SettingsInv /\ SensorInv /\ [Next]_vars => SensorInv'
  BY SensorStep
<1>3. SettingsInv /\ SensorInv => Mirrored
  BY MirroredFollows
<1> QED
  BY <1>1, <1>2, <1>3, SettingsInvariance, PTL DEF Spec

\* Fields that a document leaves out stay as they are in the sensor.
THEOREM AbsentTheorem ==
  ASSUME "getFails" \notin Env
  PROVE  Spec => AbsentIsKept
<1> DEFINE Kept == \A k \in Keys \ Converted : Applies(k) =>
                     \A f \in FieldsOf(k) \ DOMAIN doc.pq[k] : sensor'[k][f] = sensor[k][f]
<1>1. SettingsInv /\ Mirrored /\ [Next]_vars => [Kept]_vars
  <2> SUFFICES ASSUME SettingsInv, Mirrored, Next, NEW k \in Keys \ Converted, Applies(k),
                      NEW f \in FieldsOf(k) \ DOMAIN doc.pq[k]
               PROVE  sensor'[k][f] = sensor[k][f]
    OBVIOUS
  <2>1. sensor' = sensor \/ ApplyGroup(k)
    BY AppliesGroup
  <2>2. CASE SensorStreamSetProperty(k, Handed(k)) /\ ApplyGroup(k)
    <3>1. k \in todo /\ pc = "pq" /\ worker = "idle"
      BY <2>2 DEF ApplyGroup, SettingsInv, WorkerInv, Applying
    <3>2. Handed(k)[f] = cache[k][f]
      BY <3>1, HandedType DEF SettingsInv
    <3>3. cache[k] = sensor[k]
      BY <3>1 DEF Mirrored, Storing, Converted
    <3>4. sensor'[k] = Handed(k)
      BY <2>2 DEF SensorStreamSetProperty, SettingsInv, TypeOK
    <3> QED
      BY <3>2, <3>3, <3>4
  <2> QED
    BY <2>1, <2>2 DEF ApplyGroup, pqVars
<1>2. Spec => []Mirrored
  BY MirroredTheorem
<1> QED
  BY <1>1, <1>2, SettingsInvariance, PTL DEF Spec, AbsentIsKept
=============================================================================
