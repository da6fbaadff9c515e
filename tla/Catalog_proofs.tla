----------------------------- MODULE Catalog_proofs -----------------------------
(***************************************************************************)
(* Proofs about what administrators arrange and users go by, for any       *)
(* models, channels, settings, tools, skills and packages and any number   *)
(* of requests served at once.                                             *)
(***************************************************************************)
EXTENDS MCCatalog, Counting, FiniteSetTheorems, TLAPS

-----------------------------------------------------------------------------
(* Models and sessions *)

(* A request is about a model of the table, and so is the default. *)
IsCreation(c) ==
  /\ DOMAIN c = {"step", "model", "channel", "checked"}
  /\ c.step \in {"model", "channel", "created"} /\ c.model \in Models

CreationTypeOK ==
  /\ default \in Models \union {NoModel}
  /\ DOMAIN editor = Editors
  /\ \A e \in Editors : editor[e].step = "default" => editor[e].model \in Models \union {NoModel}
  /\ creation # Idle => IsCreation(creation)

(* While a session is created, everything the table has offered since then is *)
(* remembered, and a model whose row has passed was among it.                *)
CreationInv ==
  /\ CreationTypeOK
  /\ creation # Idle => Offered(table) \subseteq offered
  /\ creation.step \in {"channel", "created"} => <<creation.model, creation.channel>> \in offered

(* A step of an administrator leaves the creation alone and is remembered. *)
LEMMA AdministratorSteps ==
  ASSUME CreationInv, NEW e \in Editors,
         \/ \E m \in Models : CreateLooks(e, m) \/ DeleteModel(e, m)
         \/ \E row \in Rows : CreateWrites(e, row) \/ \E m \in Models : UpdateModel(e, m, row)
         \/ ListModels(e) \/ LoadModels(e)
         \/ \E m \in Models \union {NoModel} : ValidateDefault(e, m)
         \/ SaveDefault(e)
  PROVE  CreationInv'
<1>1. creation' = creation
  BY DEF CreateLooks, DeleteModel, CreateWrites, UpdateModel, ListModels, LoadModels,
         ValidateDefault, SaveDefault
<1>2. /\ offered \subseteq offered'
      /\ creation # Idle => Offered(table)' \subseteq offered'
  <2>1. \/ table' = table /\ offered' = offered
        \/ offered' = offered \union Offered(table')
    BY DEF CreateLooks, DeleteModel, CreateWrites, UpdateModel, ListModels, LoadModels,
           ValidateDefault, SaveDefault, Wrote
  <2>2. table' = table => Offered(table)' = Offered(table)
    BY DEF Offered
  <2>3. Offered(table)' = Offered(table')
    BY DEF Offered
  <2>4. QED
    BY <2>1, <2>2, <2>3 DEF CreationInv
<1>3. \E entry : /\ editor' = [editor EXCEPT ![e] = entry]
                 /\ entry.step = "default" => entry.model \in Models \union {NoModel}
  <2>1. Idle.step # "default"
    BY DEF Idle
  <2>2. QED
    BY <2>1 DEF CreateLooks, DeleteModel, CreateWrites, UpdateModel, ListModels, LoadModels,
              ValidateDefault, SaveDefault, Reloads
<1>4. default' \in Models \union {NoModel}
  BY DEF CreateLooks, DeleteModel, CreateWrites, UpdateModel, ListModels, LoadModels,
         ValidateDefault, SaveDefault, CreationInv, CreationTypeOK
<1>5. CreationTypeOK'
  BY <1>1, <1>3, <1>4 DEF CreationInv, CreationTypeOK
<1>6. QED
  BY <1>1, <1>2, <1>5 DEF CreationInv

(* A creation that goes on is one of the same model and channel, and its       *)
(* channel is looked at only once its model has fitted the table.             *)
LEMMA CreationSteps ==
  ASSUME CreationInv,
         \/ CreateWithDefault
         \/ \E m \in Models, k \in Channels \union {NoModel} : CreateWithModel(m, k)
         \/ \E level \in BOOLEAN : CheckModel(level)
         \/ CheckChannel
         \/ CreationEnds
  PROVE  CreationInv'
<1>1. table' = table /\ editor' = editor /\ default' = default
  BY DEF CreateWithDefault, CreateWithModel, Begins, CheckModel, CheckChannel, CreationEnds
<1>2. Offered(table)' = Offered(table)
  BY <1>1 DEF Offered
<1>3. Idle.step = "idle"
  BY DEF Idle
<1>4. SUFFICES /\ creation' # Idle => IsCreation(creation')
               /\ creation' # Idle => Offered(table) \subseteq offered'
               /\ creation'.step \in {"channel", "created"} =>
                    <<creation'.model, creation'.channel>> \in offered'
  BY <1>1, <1>2 DEF CreationInv, CreationTypeOK
<1>5. ASSUME NEW m \in Models, NEW k, Begins(m, k)
      PROVE  /\ IsCreation(creation') /\ creation'.step = "model"
             /\ Offered(table) \subseteq offered'
  BY <1>5 DEF Begins, IsCreation
<1>6. CASE CreateWithDefault
  <2>1. default \in Models /\ Begins(default, ProviderOf(default))
    BY <1>6 DEF CreateWithDefault, CreationInv, CreationTypeOK
  <2>2. QED
    BY <2>1, <1>5
<1>7. CASE \E m \in Models, k \in Channels \union {NoModel} : CreateWithModel(m, k)
  <2>1. \E m \in Models : \E k : Begins(m, k)
    BY <1>7 DEF CreateWithModel
  <2>2. QED
    BY <2>1, <1>5
<1>8. ASSUME creation # Idle, creation' = Idle, offered' = offered
      PROVE  /\ creation' # Idle => IsCreation(creation')
             /\ creation' # Idle => Offered(table) \subseteq offered'
             /\ creation'.step \in {"channel", "created"} =>
                  <<creation'.model, creation'.channel>> \in offered'
  BY <1>3, <1>8
<1>9. creation # Idle => IsCreation(creation)
  BY DEF CreationInv, CreationTypeOK
<1>10. CASE \E level \in BOOLEAN : CheckModel(level)
  <2>1. creation # Idle /\ offered' = offered
    BY <1>3, <1>10 DEF CheckModel
  <2>2. CASE Matches /\ creation' = [creation EXCEPT !.step = "channel"]
    <3>1. IsCreation(creation')
      BY <1>9, <2>1, <2>2 DEF IsCreation
    <3>2. creation'.model = creation.model /\ creation'.channel = creation.channel
      BY <1>9, <2>1, <2>2 DEF IsCreation
    <3>3. <<creation.model, creation.channel>> \in Offered(table)
      BY <1>9, <2>1, <2>2 DEF IsCreation, Matches, IsEnabledModel, Offered
    <3>4. QED
      BY <2>1, <3>1, <3>2, <3>3 DEF CreationInv
  <2>3. QED
    BY <1>8, <1>10, <2>1, <2>2 DEF CheckModel
<1>11. CASE CheckChannel
  <2>1. creation # Idle /\ offered' = offered /\ creation.step = "channel"
    BY <1>3, <1>11 DEF CheckChannel
  <2>2. /\ IsCreation(creation) /\ <<creation.model, creation.channel>> \in offered
        /\ Offered(table) \subseteq offered
    BY <1>9, <2>1 DEF CreationInv
  <2>3. CASE creation' = [creation EXCEPT !.step = "model", !.checked = 1]
    <3>1. IsCreation(creation') /\ creation'.step = "model"
      BY <2>2, <2>3 DEF IsCreation
    <3>2. QED
      BY <2>1, <2>2, <3>1
  <2>4. CASE creation' = [creation EXCEPT !.step = "created"]
    <3>1. IsCreation(creation')
      BY <2>2, <2>4 DEF IsCreation
    <3>2. creation'.model = creation.model /\ creation'.channel = creation.channel
      BY <2>2, <2>4 DEF IsCreation
    <3>3. QED
      BY <2>1, <2>2, <3>1, <3>2
  <2>5. QED
    BY <1>8, <1>11, <2>1, <2>3, <2>4 DEF CheckChannel
<1>12. CASE CreationEnds
  BY <1>3, <1>8, <1>12 DEF CreationEnds
<1>13. QED
  BY <1>6, <1>7, <1>10, <1>11, <1>12

(* Whatever the copy says, a session is created only with a model and a        *)
(* channel that the table offered together while the request was served.      *)
(* (SessionService.Create, model_service.go.)                                 *)
THEOREM SessionsFit == ModelsSpec => []SessionsFitTheTable
<1>1. CatalogInit => CreationInv
  BY DEF CatalogInit, CreationInv, CreationTypeOK, Idle
<1>2. ASSUME CreationInv, [ModelsNext]_catalogVars PROVE CreationInv'
  <2>1. CASE \E e \in Editors :
               \/ \E m \in Models : CreateLooks(e, m) \/ DeleteModel(e, m)
               \/ \E row \in Rows : CreateWrites(e, row) \/ \E m \in Models : UpdateModel(e, m, row)
               \/ ListModels(e) \/ LoadModels(e)
               \/ \E m \in Models \union {NoModel} : ValidateDefault(e, m)
               \/ SaveDefault(e)
    BY <1>2, <2>1, AdministratorSteps
  <2>2. CASE \/ CreateWithDefault
             \/ \E m \in Models, k \in Channels \union {NoModel} : CreateWithModel(m, k)
             \/ \E level \in BOOLEAN : CheckModel(level)
             \/ CheckChannel
             \/ CreationEnds
    BY <1>2, <2>2, CreationSteps
  <2>3. CASE \E k \in Channels : ChangeChannel(k)
    BY <1>2, <2>3 DEF ChangeChannel, CreationInv, CreationTypeOK, IsCreation, Offered
  <2>4. CASE CatalogRestart
    BY <1>2, <2>4 DEF CatalogRestart, CreationInv, CreationTypeOK, IsCreation, Idle
  <2>5. CASE UNCHANGED catalogVars
    BY <1>2, <2>5 DEF catalogVars, CreationInv, CreationTypeOK, IsCreation, Offered
  <2>6. QED
    BY <1>2, <2>1, <2>2, <2>3, <2>4, <2>5 DEF ModelsNext
<1>3. CreationInv => SessionsFitTheTable
  BY DEF CreationInv, SessionsFitTheTable
<1>4. QED
  BY <1>1, <1>2, <1>3, PTL DEF ModelsSpec

-----------------------------------------------------------------------------
(* Settings and what requests go by *)

(* Going by v of a key is going by something that was shown. *)
Justified(k, v) == v \in shown[k] \union {Refused}

(* What the database has can be shown; what was kept or read of it could be    *)
(* shown when it was read, and is still a thing to go by.                     *)
PolicyInv ==
  /\ DOMAIN accepted = Keys /\ DOMAIN reader = Readers
  /\ \A k \in Keys : Shown(k, stored[k]) \in shown[k]
  /\ \A k \in Keys : accepted[k] # Unread => Justified(k, Enforced(k, accepted[k]))
  /\ \A r \in Readers : reader[r].step \in {"read", "used"} => reader[r].key \in Keys
  /\ \A r \in Readers : reader[r].step = "read" /\ reader[r].item # Malformed =>
       Justified(reader[r].key, Enforced(reader[r].key, Clamped(reader[r].key, reader[r].item)))
  /\ PolicyWasShown

(* A value that is read and parsed means what the page shows, or nothing. *)
LEMMA ShownIsEnforced ==
  ASSUME NEW k \in Keys, PolicyItem(k) # Malformed, Shown(k, stored[k]) \in shown[k]
  PROVE  Justified(k, Enforced(k, Clamped(k, PolicyItem(k))))
<1> DEFINE known == PolicyItem(k)
<1>1. stored[k] # Malformed
  BY KindsAssumption DEF PolicyItem
<1>2. CASE k \in Sizes
  <2>1. Clamped(k, known) = known
    BY <1>2, KindsAssumption DEF Clamped
  <2>2. Shown(k, stored[k]) = IF known > Ceiling THEN Ceiling ELSE Clamped(k, known)
    BY <1>1, <1>2 DEF Shown, PolicyItem
  <2>3. Enforced(k, known) \in {Refused, Shown(k, stored[k])}
    BY <1>2, <2>1, <2>2 DEF Enforced
  <2>4. QED
    BY <2>1, <2>3 DEF Justified
<1>3. CASE k \notin Sizes
  <2>1. Shown(k, stored[k]) = Clamped(k, known)
    BY <1>1, <1>3 DEF Shown, PolicyItem
  <2>2. Enforced(k, Clamped(k, known)) = Clamped(k, known)
    BY <1>3 DEF Enforced
  <2>3. QED
    BY <2>1, <2>2 DEF Justified
<1>4. QED
  BY <1>2, <1>3

(* What was shown once stays justified while more is shown. *)
LEMMA MoreIsShown ==
  ASSUME PolicyInv, accepted' = accepted, reader' = reader,
         \A k \in Keys : shown[k] \subseteq shown'[k] /\ Shown(k, stored'[k]) \in shown'[k]
  PROVE  PolicyInv'
<1>1. \A k \in Keys : \A v : Justified(k, v) => Justified(k, v)'
  BY DEF Justified
<1>2. QED
  BY <1>1 DEF PolicyInv, PolicyWasShown, Justified

(* A request reads what the page shows, or cannot read. *)
LEMMA ReadKeepsPolicy ==
  ASSUME PolicyInv, NEW r \in Readers, NEW k \in Keys, ReadPolicy(r, k)
  PROVE  PolicyInv'
<1>1. /\ stored' = stored /\ accepted' = accepted /\ shown' = shown
      /\ Shown(k, stored[k]) \in shown[k]
  BY DEF ReadPolicy, PolicyInv
<1>2. PICK item \in {PolicyItem(k), Malformed} :
        reader' = [reader EXCEPT ![r] = [step |-> "read", key |-> k, item |-> item]]
  BY DEF ReadPolicy
<1>3. item # Malformed => Justified(k, Enforced(k, Clamped(k, item)))
  BY <1>1, <1>2, ShownIsEnforced
<1>4. /\ reader'[r] = [step |-> "read", key |-> k, item |-> item]
      /\ \A x \in Readers : x # r => reader'[x] = reader[x]
      /\ DOMAIN reader' = Readers
  BY <1>2 DEF PolicyInv
<1>5. \A x \in Keys : \A v : Justified(x, v)' <=> Justified(x, v)
  BY <1>1 DEF Justified
<1>6. PolicyWasShown'
  BY <1>1, <1>4 DEF PolicyInv, PolicyWasShown
<1>7. QED
  BY <1>1, <1>3, <1>4, <1>5, <1>6 DEF PolicyInv

(* What a request goes by is what it has read, or what was kept. *)
LEMMA UseKeepsPolicy ==
  ASSUME PolicyInv, NEW r \in Readers, UsePolicy(r)
  PROVE  PolicyInv'
<1> DEFINE k == reader[r].key
           item == reader[r].item
<1>1. /\ stored' = stored /\ shown' = shown /\ k \in Keys /\ reader[r].step = "read"
  BY DEF UsePolicy, PolicyInv
<1>2. \A x \in Keys : \A v : Justified(x, v)' <=> Justified(x, v)
  BY <1>1 DEF Justified
<1>3. /\ item # Malformed => Justified(k, Enforced(k, Clamped(k, item)))
      /\ Justified(k, LastKnownGood(k))
  BY <1>1 DEF PolicyInv, LastKnownGood, Justified
<1>4. \E v : /\ reader' = [reader EXCEPT ![r] = [step |-> "used", key |-> k, value |-> v]]
             /\ Justified(k, v)
  BY <1>3 DEF UsePolicy
<1>5. PICK v : /\ reader' = [reader EXCEPT ![r] = [step |-> "used", key |-> k, value |-> v]]
               /\ Justified(k, v)
  BY <1>4
<1>6. /\ reader'[r] = [step |-> "used", key |-> k, value |-> v]
      /\ \A x \in Readers : x # r => reader'[x] = reader[x]
      /\ DOMAIN reader' = Readers
  BY <1>5 DEF PolicyInv
<1>7. PolicyWasShown'
  BY <1>1, <1>5, <1>6 DEF PolicyInv, PolicyWasShown, Justified
<1>8. /\ DOMAIN accepted' = Keys
      /\ \A x \in Keys : accepted'[x] # Unread => Justified(x, Enforced(x, accepted'[x]))
  BY <1>1, <1>3 DEF UsePolicy, PolicyInv
<1>9. /\ \A x \in Readers : reader'[x].step \in {"read", "used"} => reader'[x].key \in Keys
      /\ \A x \in Readers : reader'[x].step = "read" =>
           reader[x].step = "read" /\ reader'[x] = reader[x]
  BY <1>1, <1>6 DEF PolicyInv
<1>10. QED
  BY <1>1, <1>2, <1>6, <1>7, <1>8, <1>9 DEF PolicyInv

(* What a request goes by is what the settings page could show to somebody     *)
(* since the process runs, or nothing: neither a failing database nor two      *)
(* requests that read at once make it a default nobody chose.                 *)
(* (GetPolicyIntContext, GetPolicyStringContext, GetPolicyBoolContext.)        *)
THEOREM PoliciesWereShown == PolicySpec => []PolicyWasShown
<1>1. PolicyInit => PolicyInv
  <2>1. SUFFICES ASSUME PolicyInit PROVE PolicyInv
    OBVIOUS
  <2>2. QED
    BY <2>1 DEF PolicyInit, PolicyInv, PolicyWasShown
<1>2. ASSUME PolicyInv, [PolicyNext]_policyVars PROVE PolicyInv'
  <2>1. CASE \E updates : SaveBatch(updates)
    <3>1. /\ accepted' = accepted /\ reader' = reader
          /\ shown' = [k \in Keys |-> shown[k] \union {Shown(k, stored'[k])}]
      BY <2>1 DEF SaveBatch
    <3>2. QED
      BY <1>2, <3>1, MoreIsShown
  <2>2. CASE \E r \in Readers, k \in Keys : ReadPolicy(r, k)
    BY <1>2, <2>2, ReadKeepsPolicy
  <2>3. CASE \E r \in Readers : UsePolicy(r)
    BY <1>2, <2>3, UseKeepsPolicy
  <2>4. CASE PolicyRestart
    BY <1>2, <2>4 DEF PolicyRestart, PolicyInv, PolicyWasShown
  <2>5. CASE UNCHANGED policyVars
    <3>1. /\ accepted' = accepted /\ reader' = reader /\ shown' = shown /\ stored' = stored
      BY <2>5 DEF policyVars
    <3>2. QED
      BY <1>2, <3>1, MoreIsShown DEF PolicyInv
  <2>6. QED
    BY <1>2, <2>1, <2>2, <2>3, <2>4, <2>5 DEF PolicyNext
<1>3. PolicyInv => PolicyWasShown
  BY DEF PolicyInv
<1>4. QED
  BY <1>1, <1>2, <1>3, PTL DEF PolicySpec

-----------------------------------------------------------------------------
(* Fonts *)

FontsTypeOK ==
  /\ DOMAIN asset = FontAssets /\ DOMAIN fontWork = FontClerks
  /\ DOMAIN selected = FontKeys

(* What the requests under way may rely on: a new font has its file and is no  *)
(* row yet, and is only one request's; a font about to be selected is locked    *)
(* and may be selected; one whose file is about to go is deleted.              *)
WorkFits(c) ==
  LET f == fontWork[c].font IN
  /\ fontWork[c].step = "create" =>
       /\ f \in FontAssets /\ f \in fontFile /\ asset[f] = "none"
       /\ \A d \in FontClerks \ {c} : ~(fontWork[d].step = "create" /\ fontWork[d].font = f)
  /\ fontWork[c].step = "ask" => DOMAIN fontWork[c] = {"step", "font", "keys"}
  /\ fontWork[c].step = "select" => Selectable(f)
  /\ fontWork[c].step = "remove" => f \in FontAssets /\ asset[f] = "deleted"

(* Every key holds a font that may be used, and every such font has its file,  *)
(* unless the answer to its INSERT was lost.                                   *)
KeysFit  == \A k \in FontKeys : selected[k] \notin {Absent, NoFont} =>
                selected[k] \in FontAssets /\ asset[selected[k]] = "enabled"
FilesFit == \A f \in FontAssets \ unanswered : asset[f] \in {"enabled", "disabled"} => f \in fontFile

FontsInv == FontsTypeOK /\ KeysFit /\ FilesFit /\ \A c \in FontClerks : WorkFits(c)

(* What is selected is what is shown. *)
LEMMA FontsInvSuffices == FontsInv => SelectionIsUsable
<1>1. SUFFICES ASSUME FontsInv PROVE SelectionIsUsable
  OBVIOUS
<1>2. ASSUME NEW slot \in FontSlots PROVE ShownIn(slot) = SelectedIn(slot)
  <2>1. slot \in FontKeys /\ Legacy \in FontKeys
    BY DEF FontKeys
  <2>2. SelectedIn(slot) # NoFont => asset[SelectedIn(slot)] = "enabled"
    BY <1>1, <2>1 DEF SelectedIn, FontsInv, KeysFit
  <2>3. QED
    BY <2>2 DEF ShownIn
<1>3. QED
  BY <1>1, <1>2 DEF SelectionIsUsable, FontsInv, KeysFit, FilesFit

(* One request goes on to an entry that fits, and nothing else changes. *)
LEMMA FontWorkGoesOn ==
  ASSUME FontsInv, NEW c \in FontClerks, NEW entry, Does(c, entry),
         asset' = asset, selected' = selected, fontFile' = fontFile,
         unanswered' = unanswered,
         entry.step # "create",
         entry.step = "ask" => DOMAIN entry = {"step", "font", "keys"},
         entry.step = "select" => Selectable(entry.font),
         entry.step = "remove" => entry.font \in FontAssets /\ asset[entry.font] = "deleted"
  PROVE  FontsInv'
<1>1. /\ fontWork'[c] = entry /\ DOMAIN fontWork' = FontClerks
      /\ \A d \in FontClerks : d # c => fontWork'[d] = fontWork[d]
  BY DEF Does, FontsInv, FontsTypeOK
<1>2. \A f : Selectable(f)' <=> Selectable(f)
  BY DEF Selectable
<1>3. ASSUME NEW d \in FontClerks PROVE WorkFits(d)'
  <2>1. CASE d = c
    BY <1>1, <1>2, <2>1 DEF WorkFits
  <2>2. CASE d # c
    <3>1. fontWork'[d] = fontWork[d] /\ WorkFits(d)
      BY <1>1, <2>2 DEF FontsInv
    <3>2. \A x \in FontClerks : fontWork'[x].step = "create" => fontWork'[x] = fontWork[x]
      BY <1>1
    <3>3. QED
      BY <1>2, <3>1, <3>2 DEF WorkFits
  <2>3. QED
    BY <2>1, <2>2
<1>4. QED
  BY <1>1, <1>3 DEF FontsInv, FontsTypeOK, KeysFit, FilesFit

(* A file is written for a font that no other request works on. *)
LEMMA WriteFileStep ==
  ASSUME FontsInv, NEW c \in FontClerks, NEW f \in FontAssets, NEW current,
         WriteFile(c, f, current)
  PROVE  FontsInv'
<1>1. /\ fontWork'[c] = [step |-> "create", font |-> f, current |-> current]
      /\ DOMAIN fontWork' = FontClerks
      /\ \A d \in FontClerks : d # c => fontWork'[d] = fontWork[d]
      /\ asset' = asset /\ selected' = selected /\ fontFile' = fontFile \union {f}
      /\ asset[f] = "none" /\ unanswered' = unanswered
  BY DEF WriteFile, Does, FontsInv, FontsTypeOK
<1>2. \A d \in FontClerks : fontWork[d].step # "idle" => fontWork[d].font # f
  BY DEF WriteFile, InUse
<1>3. \A x : Selectable(x)' <=> Selectable(x)
  BY <1>1 DEF Selectable
<1>4. ASSUME NEW d \in FontClerks PROVE WorkFits(d)'
  <2>1. CASE d = c
    BY <1>1, <1>2, <2>1 DEF WorkFits
  <2>2. CASE d # c
    <3>1. fontWork'[d] = fontWork[d] /\ WorkFits(d)
      BY <1>1, <2>2 DEF FontsInv
    <3>2. \A x \in FontClerks : x # c => fontWork'[x] = fontWork[x]
      BY <1>1
    <3>3. fontWork[d].step = "create" => fontWork[d].font # f
      BY <1>2
    <3>4. QED
      BY <1>1, <1>3, <3>1, <3>2, <3>3 DEF WorkFits
  <2>3. QED
    BY <2>1, <2>2
<1>5. KeysFit' /\ FilesFit'
  BY <1>1 DEF FontsInv, KeysFit, FilesFit
<1>6. QED
  BY <1>1, <1>4, <1>5 DEF FontsInv, FontsTypeOK

(* The row of a font is stored, or its file goes again, or both. *)
LEMMA CreateFontStep ==
  ASSUME FontsInv, NEW c \in FontClerks, CreateFont(c)
  PROVE  FontsInv'
<1> DEFINE f == fontWork[c].font
<1>1. /\ fontWork[c].step = "create" /\ f \in FontAssets /\ f \in fontFile
      /\ asset[f] = "none" /\ selected' = selected
      /\ \A d \in FontClerks \ {c} : ~(fontWork[d].step = "create" /\ fontWork[d].font = f)
  BY DEF CreateFont, FontsInv, WorkFits
<1>2. \E entry :
        /\ fontWork' = [fontWork EXCEPT ![c] = entry]
        /\ entry.step \in {"ask", "idle"}
        /\ entry.step = "ask" => DOMAIN entry = {"step", "font", "keys"}
        /\ asset' \in {asset, [asset EXCEPT ![f] = "enabled"]}
        /\ fontFile' \in {fontFile, fontFile \ {f}}
        /\ unanswered' \in {unanswered, unanswered \union {f}}
        /\ asset' # asset => fontFile' = fontFile \/ f \in unanswered'
  <2>1. FontIdle.step = "idle"
    BY DEF FontIdle
  <2>2. CASE fontWork[c].current
    BY <2>1, <2>2 DEF CreateFont, Does
  <2>3. CASE ~fontWork[c].current
    BY <2>1, <2>3 DEF CreateFont, Does
  <2>4. QED
    BY <2>2, <2>3
<1>3. PICK entry :
        /\ fontWork' = [fontWork EXCEPT ![c] = entry]
        /\ entry.step \in {"ask", "idle"}
        /\ entry.step = "ask" => DOMAIN entry = {"step", "font", "keys"}
        /\ asset' \in {asset, [asset EXCEPT ![f] = "enabled"]}
        /\ fontFile' \in {fontFile, fontFile \ {f}}
        /\ unanswered' \in {unanswered, unanswered \union {f}}
        /\ asset' # asset => fontFile' = fontFile \/ f \in unanswered'
  BY <1>2
<1>4. /\ fontWork'[c] = entry /\ DOMAIN fontWork' = FontClerks
      /\ \A d \in FontClerks : d # c => fontWork'[d] = fontWork[d]
  BY <1>3 DEF FontsInv, FontsTypeOK
<1>5. /\ DOMAIN asset' = FontAssets
      /\ \A x \in FontAssets : x # f => asset'[x] = asset[x]
      /\ asset'[f] \in {"none", "enabled"}
      /\ asset'[f] = "enabled" => f \in fontFile' \union unanswered'
      /\ \A x \in FontAssets : x # f => (x \in unanswered' <=> x \in unanswered)
      /\ \A x \in FontAssets : x # f => (x \in fontFile' <=> x \in fontFile)
  BY <1>1, <1>3 DEF FontsInv, FontsTypeOK
<1> HIDE DEF f
<1>6. \A x : Selectable(x) => Selectable(x)'
  BY <1>1, <1>5 DEF Selectable
<1>7. ASSUME NEW d \in FontClerks PROVE WorkFits(d)'
  <2>1. CASE d = c
    BY <1>3, <1>4, <2>1 DEF WorkFits
  <2>2. CASE d # c
    <3>1. fontWork'[d] = fontWork[d] /\ WorkFits(d)
      BY <1>4, <2>2 DEF FontsInv
    <3>2. \A x \in FontClerks : fontWork'[x].step = "create" => fontWork'[x] = fontWork[x]
      BY <1>3, <1>4
    <3>3. fontWork[d].step = "create" => fontWork[d].font # f
      BY <1>1, <2>2
    <3>4. fontWork[d].step = "remove" => fontWork[d].font # f
      BY <1>1, <3>1 DEF WorkFits
    <3>5. QED
      BY <1>5, <1>6, <3>1, <3>2, <3>3, <3>4 DEF WorkFits
  <2>3. QED
    BY <2>1, <2>2
<1>8. KeysFit'
  BY <1>1, <1>5 DEF FontsInv, KeysFit
<1>9. FilesFit'
  BY <1>1, <1>5 DEF FontsInv, FilesFit
<1>10. QED
  BY <1>1, <1>4, <1>5, <1>7, <1>8, <1>9 DEF FontsInv, FontsTypeOK

TakesAway(f, state) ==
  /\ asset[f] \in {"enabled", "disabled"} /\ MayChange(f)
  /\ asset' = [asset EXCEPT ![f] = state] /\ fontFile' = fontFile /\ unanswered' = unanswered
  /\ \/ state \in {"disabled", "deleted"} /\ selected' = Cleared(f)
     \/ state = "enabled" /\ selected' = selected
  /\ \/ fontWork' = fontWork
     \/ /\ state = "deleted"
        /\ \E d \in FontClerks : fontWork' = [fontWork EXCEPT ![d] = [step |-> "remove", font |-> f]]

(* A font that is taken away is locked by no selection, and leaves the keys. *)
LEMMA FontTakenAway ==
  ASSUME FontsInv, NEW f \in FontAssets, NEW state, TakesAway(f, state)
  PROVE  FontsInv'
<1>a. /\ asset[f] \in {"enabled", "disabled"} /\ MayChange(f)
      /\ asset' = [asset EXCEPT ![f] = state] /\ fontFile' = fontFile
      /\ unanswered' = unanswered
      /\ \/ state \in {"disabled", "deleted"} /\ selected' = Cleared(f)
         \/ state = "enabled" /\ selected' = selected
  BY DEF TakesAway
<1>0. /\ DOMAIN fontWork' = FontClerks
      /\ \A d \in FontClerks :
           \/ fontWork'[d] = fontWork[d]
           \/ fontWork'[d].step = "remove" /\ fontWork'[d].font = f /\ state = "deleted"
  BY DEF TakesAway, FontsInv, FontsTypeOK
<1>1. /\ DOMAIN asset' = FontAssets /\ asset'[f] = state
      /\ \A x \in FontAssets : x # f => asset'[x] = asset[x]
  BY <1>a DEF FontsInv, FontsTypeOK
<1>2. \A d \in FontClerks : fontWork'[d] = fontWork[d] \/ fontWork'[d].step = "remove"
  BY <1>a, <1>0
<1>3. ASSUME NEW d \in FontClerks PROVE WorkFits(d)'
  <2>1. CASE fontWork'[d] = fontWork[d]
    <3>1. WorkFits(d)
      BY DEF FontsInv
    <3>2. \A x \in FontClerks : fontWork'[x].step = "create" => fontWork'[x] = fontWork[x]
      BY <1>2
    <3>3. fontWork[d].step \in {"create", "remove"} => fontWork[d].font # f
      BY <1>a, <3>1 DEF WorkFits
    <3>4. fontWork[d].step = "select" => fontWork[d].font # f
      BY <1>a DEF MayChange, LockedFont
    <3>5. \A x : Selectable(x) /\ x # f => Selectable(x)'
      BY <1>a, <1>1 DEF Selectable
    <3>6. QED
      BY <1>a, <1>1, <2>1, <3>1, <3>2, <3>3, <3>4, <3>5 DEF WorkFits
  <2>2. CASE fontWork'[d].step = "remove" /\ fontWork'[d].font = f /\ state = "deleted"
    BY <1>a, <1>1, <2>2 DEF WorkFits
  <2>3. QED
    BY <1>a, <1>0, <2>1, <2>2
<1>4. KeysFit' /\ DOMAIN selected' = FontKeys
  <2>1. CASE selected' = Cleared(f)
    BY <1>a, <1>1, <2>1 DEF Cleared, FontsInv, FontsTypeOK, KeysFit
  <2>2. CASE selected' = selected /\ state = "enabled"
    BY <1>a, <1>1, <2>2 DEF FontsInv, FontsTypeOK, KeysFit
  <2>3. QED
    BY <1>a, <2>1, <2>2
<1>5. FilesFit'
  BY <1>a, <1>1 DEF FontsInv, FilesFit
<1>6. QED
  BY <1>a, <1>0, <1>1, <1>2, <1>3, <1>4, <1>5 DEF FontsInv, FontsTypeOK

(* Whatever selections, switches and deletions meet, no key keeps a font that  *)
(* chats may not use, what a slot holds is what is shown, and every font that  *)
(* may be used has its file, unless the answer to its INSERT was lost.         *)
(* (UploadFontHandler, FontRepository, FontSelectionRepository.)               *)
THEOREM SelectionsStayUsable == FontsSpec => []SelectionIsUsable
<1>1. FontsInit => FontsInv
  BY DEF FontsInit, FontsInv, FontsTypeOK, KeysFit, FilesFit, WorkFits, FontIdle
<1>2. ASSUME FontsInv, [FontsNext]_fontVars PROVE FontsInv'
  <2>0. FontIdle.step = "idle"
    BY DEF FontIdle
  <2>1. ASSUME NEW c \in FontClerks, NEW f \in FontAssets, NEW current \in BOOLEAN,
               WriteFile(c, f, current)
        PROVE  FontsInv'
    BY <1>2, <2>1, WriteFileStep
  <2>2. ASSUME NEW c \in FontClerks, NEW f \in FontAssets, DeleteFont(c, f)
        PROVE  FontsInv'
    <3>1. PICK state : state = "deleted"
      OBVIOUS
    <3>2. /\ asset[f] \in {"enabled", "disabled"} /\ MayChange(f)
          /\ asset' = [asset EXCEPT ![f] = state] /\ selected' = Cleared(f)
          /\ fontFile' = fontFile /\ unanswered' = unanswered
      BY <2>2, <3>1 DEF DeleteFont
    <3>3. fontWork' = [fontWork EXCEPT ![c] = [step |-> "remove", font |-> f]]
      BY <2>2 DEF DeleteFont, Does
    <3>4. TakesAway(f, state)
      BY <3>1, <3>2, <3>3 DEF TakesAway
    <3>5. QED
      BY <1>2, <3>4, FontTakenAway
  <2>3. ASSUME NEW c \in FontClerks, NEW f, NEW keys, AskSelection(c, f, keys)
        PROVE  FontsInv'
    BY <1>2, <2>3, FontWorkGoesOn DEF AskSelection
  <2>4. ASSUME NEW c \in FontClerks, CreateFont(c) PROVE FontsInv'
    BY <1>2, <2>4, CreateFontStep
  <2>5. ASSUME NEW c \in FontClerks, LockFont(c) PROVE FontsInv'
    <3>1. CASE /\ EnsureSelectable(fontWork[c].font)
               /\ Does(c, [fontWork[c] EXCEPT !.step = "select"])
      <4> DEFINE entry == [fontWork[c] EXCEPT !.step = "select"]
      <4>1. DOMAIN fontWork[c] = {"step", "font", "keys"}
        BY <1>2, <2>5 DEF LockFont, FontsInv, WorkFits
      <4>2. entry.step = "select" /\ entry.font = fontWork[c].font
        BY <4>1
      <4>3. Selectable(entry.font) /\ Does(c, entry)
        BY <3>1, <4>2 DEF EnsureSelectable
      <4> HIDE DEF entry
      <4>4. QED
        BY <1>2, <2>5, <4>2, <4>3, FontWorkGoesOn DEF LockFont
    <3>2. CASE Does(c, FontIdle)
      BY <1>2, <2>0, <2>5, <3>2, FontWorkGoesOn DEF LockFont
    <3>3. QED
      BY <2>5, <3>1, <3>2 DEF LockFont
  <2>6. ASSUME NEW c \in FontClerks, SelectFont(c) PROVE FontsInv'
    <3>1. /\ asset' = asset /\ fontFile' = fontFile /\ Does(c, FontIdle)
          /\ unanswered' = unanswered /\ Selectable(fontWork[c].font)
      BY <1>2, <2>6 DEF SelectFont, FontsInv, WorkFits
    <3>2. /\ fontWork'[c] = FontIdle /\ DOMAIN fontWork' = FontClerks
          /\ \A d \in FontClerks : d # c => fontWork'[d] = fontWork[d]
      BY <1>2, <3>1 DEF Does, FontsInv, FontsTypeOK
    <3>3. \A x : Selectable(x)' <=> Selectable(x)
      BY <3>1 DEF Selectable
    <3>4. \A d \in FontClerks : WorkFits(d)'
      BY <1>2, <2>0, <3>1, <3>2, <3>3 DEF FontsInv, WorkFits
    <3>5. KeysFit' /\ DOMAIN selected' = FontKeys
      BY <1>2, <2>6, <3>1 DEF SelectFont, Selectable, FontsInv, FontsTypeOK, KeysFit
    <3>6. QED
      BY <1>2, <3>1, <3>2, <3>4, <3>5 DEF FontsInv, FontsTypeOK, FilesFit
  <2>7. ASSUME NEW c \in FontClerks, RemoveFontFile(c) PROVE FontsInv'
    <3>1. /\ asset' = asset /\ selected' = selected /\ Does(c, FontIdle)
          /\ unanswered' = unanswered /\ fontWork[c].font \in FontAssets /\ asset[fontWork[c].font] = "deleted"
          /\ fontFile' \in {fontFile, fontFile \ {fontWork[c].font}}
      BY <1>2, <2>7 DEF RemoveFontFile, FontsInv, WorkFits
    <3>2. /\ fontWork'[c] = FontIdle /\ DOMAIN fontWork' = FontClerks
          /\ \A d \in FontClerks : d # c => fontWork'[d] = fontWork[d]
      BY <1>2, <3>1 DEF Does, FontsInv, FontsTypeOK
    <3>3. \A x : Selectable(x)' <=> Selectable(x)
      BY <3>1 DEF Selectable
    <3>4. \A d \in FontClerks : WorkFits(d)'
      BY <1>2, <2>0, <3>1, <3>2, <3>3 DEF FontsInv, WorkFits
    <3>5. QED
      BY <1>2, <3>1, <3>2, <3>4 DEF FontsInv, FontsTypeOK, KeysFit, FilesFit
  <2>8. ASSUME NEW f \in FontAssets, NEW enabled \in BOOLEAN, PatchFont(f, enabled)
        PROVE  FontsInv'
    <3>1. PICK state : state = IF enabled THEN "enabled" ELSE "disabled"
      OBVIOUS
    <3>2. TakesAway(f, state)
      BY <2>8, <3>1 DEF PatchFont, TakesAway
    <3>3. QED
      BY <1>2, <3>2, FontTakenAway
  <2>9. CASE FontsStop
    BY <1>2, <2>9 DEF FontsStop, FontIdle, FontsInv, FontsTypeOK, KeysFit, FilesFit, WorkFits
  <2>10. CASE UNCHANGED fontVars
    BY <1>2, <2>10 DEF fontVars, FontsInv, FontsTypeOK, KeysFit, FilesFit, WorkFits, Selectable
  <2>11. QED
    BY <1>2, <2>1, <2>2, <2>3, <2>4, <2>5, <2>6, <2>7, <2>8, <2>9, <2>10 DEF FontsNext
<1>3. QED
  BY <1>1, <1>2, FontsInvSuffices, PTL DEF FontsSpec

-----------------------------------------------------------------------------
(* Prompts *)

PromptRows ==
  [kind : {"none", "own", "shared"}, group : PromptGroups \union {Ungrouped},
   name : Labels \union {Plain}, named : BOOLEAN]

PromptsTypeOK ==
  /\ DOMAIN prompt = PromptKeys /\ DOMAIN label = PromptGroups
  /\ DOMAIN writer = Writers
  /\ \A p \in PromptKeys : prompt[p] \in PromptRows
  /\ \A g \in Labelled : label[g] \in Labels

(* A transaction that shares a group has its name, and keeps it from being     *)
(* renamed or deleted; one that has locked a prompt works on one's own.        *)
Shares(w)   == writer[w].step \in {"insert", "patch"}
Changes(w)  == writer[w].step \in {"rename", "delete"}
HasName(w)  == writer[w].group \in Labelled /\ writer[w].name = label[writer[w].group]
Sharing(w) ==
  /\ writer[w].group # Ungrouped => HasName(w)
  /\ \A v \in Writers : Changes(v) => writer[v].group # writer[w].group \/ writer[w].group = Ungrouped

WriterFits(w) ==
  /\ Shares(w) => Sharing(w)
  /\ writer[w].step = "insert" =>
       /\ writer[w].group \in PromptGroups \union {Ungrouped}
       /\ writer[w].name \in Labels \union {Plain}
  /\ writer[w].step \in {"locked", "patch"} =>
       /\ writer[w].prompt \in PromptKeys /\ prompt[writer[w].prompt].kind = "own"
       /\ writer[w].request \in Requests
  /\ writer[w].step = "patch" =>
       writer[w].group = IF Joins(writer[w].request) THEN writer[w].request.group ELSE Ungrouped
  /\ writer[w].step = "rename" => writer[w].name \in Labels
  /\ Changes(w) => writer[w].group \in PromptGroups

PromptsInv ==
  PromptsTypeOK /\ PromptsFollowTheirGroup /\ \A w \in Writers : WriterFits(w)

(* One transaction goes on, and the rest stays. *)
LEMMA WriterGoesOn ==
  ASSUME PromptsInv, NEW w \in Writers, NEW entry,
         writer' = [writer EXCEPT ![w] = entry], prompt' = prompt, label' = label
  PROVE  /\ writer'[w] = entry
         /\ \A v \in Writers : v # w => writer'[v] = writer[v]
         /\ WriterFits(w)' /\ (\A v \in Writers : v # w => WriterFits(v)') => PromptsInv'
<1>1. /\ writer'[w] = entry /\ DOMAIN writer' = Writers
      /\ \A v \in Writers : v # w => writer'[v] = writer[v]
  BY DEF PromptsInv, PromptsTypeOK
<1>2. PromptsTypeOK' /\ PromptsFollowTheirGroup'
  BY <1>1 DEF PromptsInv, PromptsTypeOK, PromptsFollowTheirGroup, Labelled
<1>3. QED
  BY <1>1, <1>2 DEF PromptsInv

(* One that neither shares a group nor changes it lets the others be. *)
LEMMA WriterSteps ==
  ASSUME PromptsInv, NEW w \in Writers, NEW entry,
         writer' = [writer EXCEPT ![w] = entry], prompt' = prompt, label' = label,
         WriterFits(w)',
         \A v \in Writers : v # w /\ Shares(v) /\ writer[v].group # Ungrouped =>
           ~(entry.step \in {"rename", "delete"} /\ entry.group = writer[v].group)
  PROVE  PromptsInv'
<1>1. /\ writer'[w] = entry
      /\ \A v \in Writers : v # w => writer'[v] = writer[v]
      /\ WriterFits(w)' /\ (\A v \in Writers : v # w => WriterFits(v)') => PromptsInv'
  BY WriterGoesOn
<1>2. ASSUME NEW v \in Writers, v # w PROVE WriterFits(v)'
  <2>1. writer'[v] = writer[v] /\ WriterFits(v)
    BY <1>1, <1>2 DEF PromptsInv
  <2>2. Shares(v)' <=> Shares(v)
    BY <2>1 DEF Shares
  <2>3. HasName(v)' <=> HasName(v)
    BY <2>1 DEF HasName, Labelled
  <2>4. Shares(v) => Sharing(v)'
    <3>1. SUFFICES ASSUME Shares(v) PROVE Sharing(v)'
      OBVIOUS
    <3>2. Sharing(v)
      BY <2>1, <3>1 DEF WriterFits
    <3>3. ASSUME NEW x \in Writers, Changes(x)'
          PROVE  writer'[x].group # writer'[v].group \/ writer'[v].group = Ungrouped
      <4>1. CASE x = w
        BY <1>1, <1>2, <2>1, <3>1, <3>3, <4>1 DEF Changes
      <4>2. CASE x # w
        BY <1>1, <2>1, <3>2, <3>3, <4>2 DEF Changes, Sharing
      <4>3. QED
        BY <4>1, <4>2
    <3>4. QED
      BY <2>1, <2>3, <3>2, <3>3 DEF Sharing
  <2>5. Changes(v)' <=> Changes(v)
    BY <2>1 DEF Changes
  <2>6. QED
    BY <2>1, <2>2, <2>4, <2>5 DEF WriterFits, Joins
<1>3. QED
  BY <1>1, <1>2

(* Rows, names and transactions may change as long as every prompt follows its *)
(* group, a transaction that goes on finds the prompt it has locked, and the   *)
(* group it shares keeps the name it has read.                                 *)
LEMMA RowsChange ==
  ASSUME PromptsInv,
         DOMAIN prompt' = PromptKeys, DOMAIN label' = PromptGroups, DOMAIN writer' = Writers,
         \A p \in PromptKeys : prompt'[p] \in PromptRows,
         \A g \in PromptGroups : label'[g] = Ungrouped \/ label'[g] \in Labels,
         PromptsFollowTheirGroup',
         \A v \in Writers :
           \/ writer'[v] = NoWrite
           \/ /\ writer'[v] = writer[v]
              /\ writer[v].step \in {"locked", "patch"} => prompt'[writer[v].prompt].kind = "own"
              /\ Shares(v) /\ writer[v].group # Ungrouped =>
                   label'[writer[v].group] = label[writer[v].group]
  PROVE  PromptsInv'
<1>1. PromptsTypeOK'
  BY DEF PromptsTypeOK, Labelled
<1>2. ASSUME NEW v \in Writers, writer'[v] = NoWrite PROVE WriterFits(v)'
  BY <1>2 DEF NoWrite, WriterFits, Shares, Changes
<1>3. ASSUME NEW v \in Writers, Changes(v)' PROVE Changes(v) /\ writer'[v] = writer[v]
  BY <1>3 DEF Changes, NoWrite
<1>4. ASSUME NEW v \in Writers, writer'[v] # NoWrite PROVE WriterFits(v)'
  <2>1. /\ writer'[v] = writer[v] /\ WriterFits(v)
        /\ writer[v].step \in {"locked", "patch"} => prompt'[writer[v].prompt].kind = "own"
        /\ Shares(v) /\ writer[v].group # Ungrouped =>
             label'[writer[v].group] = label[writer[v].group]
    BY <1>4 DEF PromptsInv
  <2>2. (Shares(v)' <=> Shares(v)) /\ (Changes(v)' <=> Changes(v))
    BY <2>1 DEF Shares, Changes
  <2>3. Shares(v) => Sharing(v)'
    <3>1. SUFFICES ASSUME Shares(v) PROVE Sharing(v)'
      OBVIOUS
    <3>2. Sharing(v)
      BY <2>1, <3>1 DEF WriterFits
    <3>3. writer[v].group # Ungrouped => HasName(v)'
      BY <2>1, <3>1, <3>2 DEF Sharing, HasName, Labelled
    <3>4. QED
      BY <1>3, <2>1, <3>2, <3>3 DEF Sharing
  <2>4. QED
    BY <2>1, <2>2, <2>3 DEF WriterFits, Joins
<1>5. QED
  BY <1>1, <1>2, <1>4 DEF PromptsInv

(* A prompt is inserted with the name its group has had since it was shared. *)
LEMMA InsertStep ==
  ASSUME PromptsInv, NEW w \in Writers, CreateInserts(w) PROVE PromptsInv'
<1> DEFINE row == [kind |-> "own", group |-> writer[w].group, name |-> writer[w].name, named |-> FALSE]
<1>1. /\ writer[w].step = "insert" /\ label' = label
      /\ DOMAIN prompt' = PromptKeys /\ DOMAIN label' = PromptGroups /\ DOMAIN writer' = Writers
      /\ \A p \in PromptKeys : prompt'[p] \in {prompt[p], row}
      /\ \A v \in Writers : writer'[v] \in {writer[v], NoWrite}
  BY DEF CreateInserts, Commits, Continues, PromptsInv, PromptsTypeOK
<1>2. WriterFits(w) /\ Shares(w)
  BY <1>1 DEF PromptsInv, Shares
<1>3. /\ row \in PromptRows
      /\ row.kind = "own"
      /\ row.group # Ungrouped => row.group \in Labelled /\ row.name = label[row.group]
  BY <1>1, <1>2 DEF WriterFits, Sharing, HasName, PromptRows
<1> HIDE DEF row
<1>4. /\ \A p \in PromptKeys : prompt'[p] \in PromptRows
      /\ \A g \in PromptGroups : label'[g] = Ungrouped \/ label'[g] \in Labels
  BY <1>1, <1>3 DEF PromptsInv, PromptsTypeOK, Labelled
<1>5. PromptsFollowTheirGroup'
  BY <1>1, <1>3 DEF PromptsInv, PromptsFollowTheirGroup, Labelled
<1>6. \A v \in Writers : writer[v].step \in {"locked", "patch"} => prompt'[writer[v].prompt].kind = "own"
  BY <1>1, <1>3 DEF PromptsInv, WriterFits
<1>7. QED
  BY <1>1, <1>4, <1>5, <1>6, RowsChange

(* A patch leaves a row of the same kind. *)
LEMMA PatchedRow ==
  ASSUME NEW w, NEW old \in PromptRows, writer[w].request \in Requests,
         Joins(writer[w].request) => writer[w].name \in Labels
  PROVE  Patched(old, w) \in PromptRows /\ Patched(old, w).kind = old.kind
BY ZenonT(60) DEF PromptRows, Requests, Patched

(* A patched prompt keeps the name it was given, or has that of the group it   *)
(* joins, which is shared.                                                     *)
LEMMA PatchStep ==
  ASSUME PromptsInv, NEW w \in Writers, PatchWrites(w) PROVE PromptsInv'
<1> DEFINE p0 == writer[w].prompt
           row == Patched(prompt[p0], w)
<1>1. /\ writer[w].step = "patch" /\ label' = label
      /\ DOMAIN prompt' = PromptKeys /\ DOMAIN label' = PromptGroups /\ DOMAIN writer' = Writers
      /\ \A p \in PromptKeys : prompt'[p] = IF p = p0 THEN row ELSE prompt[p]
      /\ \A v \in Writers : writer'[v] \in {writer[v], NoWrite}
  BY DEF PatchWrites, Commits, Continues, PromptsInv, PromptsTypeOK
<1>2. WriterFits(w) /\ Shares(w)
  BY <1>1 DEF PromptsInv, Shares
<1>3. p0 \in PromptKeys /\ prompt[p0].kind = "own" /\ writer[w].request \in Requests
      /\ (Joins(writer[w].request) =>
            /\ writer[w].request.group \in Labelled
            /\ writer[w].name = label[writer[w].request.group]
            /\ writer[w].name \in Labels)
  BY <1>1, <1>2 DEF WriterFits, Sharing, HasName, Joins, PromptsInv, PromptsTypeOK
<1>4. /\ row \in PromptRows
      /\ row.kind = "own"
  <2>1. prompt[p0] \in PromptRows
    BY <1>3 DEF PromptsInv, PromptsTypeOK
  <2>2. QED
    BY <1>3, <2>1, PatchedRow
<1>5. row.group # Ungrouped =>
        row.group \in Labelled /\ (row.named \/ row.name = label[row.group])
  <2>1. prompt[p0].group # Ungrouped =>
          /\ prompt[p0].group \in Labelled
          /\ prompt[p0].named \/ prompt[p0].name = label[prompt[p0].group]
    BY <1>3 DEF PromptsInv, PromptsFollowTheirGroup
  <2>2. prompt[p0] \in PromptRows
    BY <1>3 DEF PromptsInv, PromptsTypeOK
  <2>3. QED
    BY <1>3, <2>1, <2>2 DEF Patched, Joins, Requests, PromptRows
<1> HIDE DEF p0, row
<1>6. /\ \A p \in PromptKeys : prompt'[p] \in PromptRows
      /\ \A g \in PromptGroups : label'[g] = Ungrouped \/ label'[g] \in Labels
  BY <1>1, <1>4 DEF PromptsInv, PromptsTypeOK, Labelled
<1>7. PromptsFollowTheirGroup'
  BY <1>1, <1>4, <1>5 DEF PromptsInv, PromptsFollowTheirGroup, Labelled
<1>8. \A v \in Writers : writer[v].step \in {"locked", "patch"} => prompt'[writer[v].prompt].kind = "own"
  BY <1>1, <1>4 DEF PromptsInv, WriterFits
<1>9. QED
  BY <1>1, <1>6, <1>7, <1>8, RowsChange

(* A group that is renamed or deleted takes its prompts along, and nobody      *)
(* shares it meanwhile.                                                        *)
LEMMA GroupWrites ==
  ASSUME PromptsInv, NEW w \in Writers, RenameWrites(w) \/ DeleteWrites(w) PROVE PromptsInv'
<1> DEFINE g0 == writer[w].group
<1>1. /\ Changes(w) /\ \A p \in Members(g0) : ~LockedPrompt(p)
      /\ DOMAIN prompt' = PromptKeys /\ DOMAIN label' = PromptGroups /\ DOMAIN writer' = Writers
      /\ \A v \in Writers : writer'[v] \in {writer[v], NoWrite}
      /\ writer'[w] = NoWrite
      /\ \A p \in PromptKeys \ Members(g0) : prompt'[p] = prompt[p]
      /\ \A g \in PromptGroups \ {g0} : label'[g] = label[g]
  BY DEF RenameWrites, DeleteWrites, Commits, Continues, PromptsInv, PromptsTypeOK, Changes
<1>2. g0 \in PromptGroups /\ (writer[w].step = "rename" => writer[w].name \in Labels)
  BY <1>1 DEF PromptsInv, WriterFits
<1>3. /\ label'[g0] = Ungrouped \/ label'[g0] \in Labels
      /\ \A p \in Members(g0) :
           /\ prompt'[p] \in PromptRows
           /\ prompt'[p].group # Ungrouped =>
                /\ prompt'[p].kind = "own" /\ prompt'[p].group = g0
                /\ label'[g0] \in Labels /\ prompt'[p].name = label'[g0]
  <2>1. \A p \in Members(g0) :
          /\ p \in PromptKeys /\ prompt[p] \in PromptRows /\ prompt[p].group = g0
          /\ g0 # Ungrouped => prompt[p].kind = "own"
    BY DEF Members, PromptsInv, PromptsTypeOK, PromptsFollowTheirGroup
  <2>2. CASE RenameWrites(w)
    BY <1>2, <2>1, <2>2, ZenonT(60) DEF RenameWrites, PromptsInv, PromptsTypeOK, PromptRows
  <2>3. CASE DeleteWrites(w)
    BY <1>2, <2>1, <2>3, ZenonT(60) DEF DeleteWrites, PromptsInv, PromptsTypeOK, PromptRows
  <2>4. QED
    BY <2>2, <2>3
<1>4. \A p \in PromptKeys : prompt'[p] \in PromptRows
  BY <1>1, <1>3 DEF PromptsInv, PromptsTypeOK
<1>5. \A g \in PromptGroups : label'[g] = Ungrouped \/ label'[g] \in Labels
  BY <1>1, <1>3 DEF PromptsInv, PromptsTypeOK, Labelled
<1>6. PromptsFollowTheirGroup'
  <2>1. ASSUME NEW p \in PromptKeys, prompt'[p].group # Ungrouped
        PROVE  /\ prompt'[p].kind = "own" /\ prompt'[p].group \in PromptGroups
               /\ label'[prompt'[p].group] # Ungrouped
               /\ prompt'[p].named \/ prompt'[p].name = label'[prompt'[p].group]
    <3>1. CASE p \in Members(g0)
      BY <1>2, <1>3, <2>1, <3>1, LabelsAssumption
    <3>2. CASE p \notin Members(g0)
      BY <1>1, <2>1, <3>2 DEF Members, Labelled, PromptsInv, PromptsFollowTheirGroup
    <3>3. QED
      BY <3>1, <3>2
  <2>2. QED
    BY <2>1 DEF PromptsFollowTheirGroup, Labelled
<1>7. ASSUME NEW v \in Writers, writer'[v] # NoWrite
      PROVE  /\ writer'[v] = writer[v]
             /\ writer[v].step \in {"locked", "patch"} => prompt'[writer[v].prompt].kind = "own"
             /\ Shares(v) /\ writer[v].group # Ungrouped =>
                  label'[writer[v].group] = label[writer[v].group]
  <2>1. writer'[v] = writer[v] /\ WriterFits(v)
    BY <1>1, <1>7 DEF PromptsInv
  <2>2. writer[v].step \in {"locked", "patch"} => prompt'[writer[v].prompt].kind = "own"
    BY <1>1, <2>1 DEF WriterFits, LockedPrompt
  <2>3. Shares(v) /\ writer[v].group # Ungrouped => writer[v].group \in PromptGroups \ {g0}
    BY <1>1, <2>1 DEF WriterFits, Sharing, HasName, Labelled
  <2>4. QED
    BY <1>1, <2>1, <2>2, <2>3
<1> HIDE DEF g0
<1>8. QED
  BY <1>1, <1>4, <1>5, <1>6, <1>7, RowsChange

(* A group is shared by the prompts that join it and kept from those who would *)
(* rename or delete it; who begins to change it finds nobody who shares it.    *)
LEMMA WriterBegins ==
  ASSUME PromptsInv, NEW w \in Writers, NEW entry,
         writer' = [writer EXCEPT ![w] = entry], prompt' = prompt, label' = label,
         \/ /\ entry.step \in {"insert", "patch"}
            /\ entry.group # Ungrouped =>
                 /\ entry.group \in PromptGroups /\ GroupNameForWrite(entry.group)
                 /\ entry.name = label[entry.group]
            /\ entry.step = "insert" => entry.name \in Labels \union {Plain}
            /\ entry.step = "patch" =>
                 /\ entry.prompt \in PromptKeys /\ prompt[entry.prompt].kind = "own"
                 /\ entry.request \in Requests
                 /\ entry.group = IF Joins(entry.request) THEN entry.request.group ELSE Ungrouped
         \/ /\ entry.step = "locked" /\ entry.prompt \in PromptKeys
            /\ prompt[entry.prompt].kind = "own" /\ entry.request \in Requests
         \/ /\ entry.step \in {"rename", "delete"} /\ entry.group \in PromptGroups
            /\ ~SharedGroup(entry.group)
            /\ entry.step = "rename" => entry.name \in Labels
         \/ entry.step = "idle"
  PROVE  PromptsInv'
<1>1. /\ writer'[w] = entry
      /\ \A v \in Writers : v # w => writer'[v] = writer[v]
  BY WriterGoesOn
<1>2. entry.step \in {"insert", "patch"} => Sharing(w)'
  <2>1. SUFFICES ASSUME entry.step \in {"insert", "patch"}, entry.group # Ungrouped
                 PROVE  HasName(w)' /\ \A v \in Writers : Changes(v)' => writer'[v].group # entry.group
    BY <1>1 DEF Sharing
  <2>2. /\ entry.group \in Labelled /\ ~LockedGroup(entry.group)
        /\ entry.name = label[entry.group]
    BY <2>1 DEF GroupNameForWrite, ReadsShared
  <2>3. HasName(w)'
    BY <1>1, <2>2 DEF HasName, Labelled
  <2>4. \A v \in Writers : Changes(v)' => writer'[v].group # entry.group
    BY <1>1, <2>1, <2>2 DEF Changes, LockedGroup
  <2>5. QED
    BY <2>3, <2>4
<1>3. WriterFits(w)'
  BY <1>1, <1>2 DEF WriterFits, Shares, Changes, Joins
<1>4. \A v \in Writers : v # w /\ Shares(v) /\ writer[v].group # Ungrouped =>
        ~(entry.step \in {"rename", "delete"} /\ entry.group = writer[v].group)
  BY DEF Shares, SharedGroup
<1>5. QED
  BY <1>3, <1>4, WriterSteps

(* A shared prompt is in no group, and a prompt nobody works on may go. *)
LEMMA LonePromptStep ==
  ASSUME PromptsInv, NEW p \in PromptKeys,
         \/ CreateShared(p)
         \/ \E kind \in {"own", "shared"} : DeletePrompt(p, kind)
  PROVE  PromptsInv'
<1>1. /\ writer' = writer /\ label' = label
      /\ DOMAIN prompt' = PromptKeys /\ DOMAIN label' = PromptGroups /\ DOMAIN writer' = Writers
      /\ \A q \in PromptKeys : q # p => prompt'[q] = prompt[q]
      /\ prompt'[p] \in PromptRows /\ prompt'[p].group = Ungrouped
      /\ prompt[p] = NoPrompt \/ ~LockedPrompt(p)
  <2>1. DOMAIN prompt = PromptKeys /\ DOMAIN label = PromptGroups /\ DOMAIN writer = Writers
    BY DEF PromptsInv, PromptsTypeOK
  <2>2. /\ NoPrompt \in PromptRows /\ NoPrompt.group = Ungrouped
        /\ [NoPrompt EXCEPT !.kind = "shared"] \in PromptRows
        /\ [NoPrompt EXCEPT !.kind = "shared"].group = Ungrouped
    BY DEF NoPrompt, PromptRows
  <2>3. CASE CreateShared(p)
    BY <2>1, <2>2, <2>3 DEF CreateShared
  <2>4. CASE \E kind \in {"own", "shared"} : DeletePrompt(p, kind)
    BY <2>1, <2>2, <2>4 DEF DeletePrompt
  <2>5. QED
    BY <2>3, <2>4
<1>2. \A v \in Writers : writer[v].step \in {"locked", "patch"} =>
        prompt'[writer[v].prompt].kind = "own"
  BY <1>1 DEF PromptsInv, WriterFits, LockedPrompt, NoPrompt
<1>3. /\ \A q \in PromptKeys : prompt'[q] \in PromptRows
      /\ \A g \in PromptGroups : label'[g] = Ungrouped \/ label'[g] \in Labels
  BY <1>1 DEF PromptsInv, PromptsTypeOK, Labelled
<1>4. PromptsFollowTheirGroup'
  BY <1>1 DEF PromptsInv, PromptsFollowTheirGroup, Labelled
<1>5. QED
  BY <1>1, <1>2, <1>3, <1>4, RowsChange

(* A new group has no prompts, and nobody holds it. *)
LEMMA NewGroupStep ==
  ASSUME PromptsInv, NEW g \in PromptGroups, NEW name \in Labels, CreateGroup(g, name)
  PROVE  PromptsInv'
<1>1. /\ label[g] = Ungrouped /\ writer' = writer /\ prompt' = prompt
      /\ DOMAIN prompt' = PromptKeys /\ DOMAIN label' = PromptGroups /\ DOMAIN writer' = Writers
      /\ \A x \in PromptGroups : label'[x] = IF x = g THEN name ELSE label[x]
  BY DEF CreateGroup, PromptsInv, PromptsTypeOK
<1>2. \A v \in Writers : Shares(v) /\ writer[v].group # Ungrouped =>
        label'[writer[v].group] = label[writer[v].group]
  BY <1>1 DEF PromptsInv, WriterFits, Sharing, HasName, Labelled
<1>3. \A x \in PromptGroups : label'[x] = Ungrouped \/ label'[x] \in Labels
  BY <1>1 DEF PromptsInv, PromptsTypeOK, Labelled
<1>4. PromptsFollowTheirGroup'
  BY <1>1 DEF PromptsInv, PromptsFollowTheirGroup, Labelled
<1>5. \A v \in Writers : writer[v].step \in {"locked", "patch"} => prompt'[writer[v].prompt].kind = "own"
  BY <1>1 DEF PromptsInv, WriterFits
<1>6. QED
  BY <1>1, <1>2, <1>3, <1>4, <1>5, RowsChange DEF PromptsInv, PromptsTypeOK

(* However patches, renames and deletions wait for each other, a prompt is in  *)
(* a group that exists and has its name, unless its last patch named it.       *)
(* (PromptRepository, PromptGroupRepository.)                                  *)
THEOREM PromptsFollow == PromptsSpec => []PromptsFollowTheirGroup
<1>1. PromptsInit => PromptsInv
  BY DEF PromptsInit, PromptsInv, PromptsTypeOK, PromptsFollowTheirGroup, WriterFits, Labelled,
         NoPrompt, PromptRows, NoWrite, Shares, Changes
<1>2. ASSUME PromptsInv, [PromptsNext]_promptVars PROVE PromptsInv'
  <2>1. ASSUME NEW w \in Writers, NEW p \in PromptKeys, NEW request \in Requests,
               CreateBegins(w, p, request)
        PROVE  PromptsInv'
    <3> DEFINE entry == [step |-> "insert", prompt |-> p, group |-> request.group,
                         name |-> IF request.group # Ungrouped THEN label[request.group] ELSE request.name]
    <3>1. /\ writer' = [writer EXCEPT ![w] = entry] /\ prompt' = prompt /\ label' = label
          /\ request.group # Ungrouped => GroupNameForWrite(request.group)
      BY <2>1 DEF CreateBegins, BeginsWrite
    <3>2. /\ entry.step = "insert" /\ entry.group = request.group
          /\ request.group # Ungrouped => request.group \in PromptGroups /\ entry.name = label[request.group]
          /\ request.group = Ungrouped => entry.name \in Labels \union {Plain}
      BY DEF Requests
    <3>3. entry.name \in Labels \union {Plain}
      BY <1>2, <3>1, <3>2 DEF GroupNameForWrite, ReadsShared, PromptsInv, PromptsTypeOK
    <3> HIDE DEF entry
    <3>4. QED
      BY <1>2, <3>1, <3>2, <3>3, WriterBegins
  <2>2. ASSUME NEW w \in Writers, NEW p \in PromptKeys, NEW request \in Requests,
               PatchBegins(w, p, request)
        PROVE  PromptsInv'
    <3> DEFINE entry == [step |-> "locked", prompt |-> p, group |-> Ungrouped, request |-> request]
    <3>1. /\ writer' = [writer EXCEPT ![w] = entry] /\ prompt' = prompt /\ label' = label
          /\ prompt[p].kind = "own"
          /\ entry.step = "locked" /\ entry.prompt = p /\ entry.request = request
      BY <2>2 DEF PatchBegins, BeginsWrite
    <3> HIDE DEF entry
    <3>2. QED
      BY <1>2, <3>1, WriterBegins
  <2>3. ASSUME NEW w \in Writers, NEW g \in PromptGroups, NEW name \in Labels,
               RenameBegins(w, g, name)
        PROVE  PromptsInv'
    <3> DEFINE entry == [step |-> "rename", group |-> g, name |-> name]
    <3>1. /\ writer' = [writer EXCEPT ![w] = entry] /\ prompt' = prompt /\ label' = label
          /\ ~SharedGroup(g)
          /\ entry.step = "rename" /\ entry.group = g /\ entry.name = name
      BY <2>3 DEF RenameBegins, BeginsWrite
    <3> HIDE DEF entry
    <3>2. QED
      BY <1>2, <3>1, WriterBegins
  <2>4. ASSUME NEW w \in Writers, NEW g \in PromptGroups, DeleteBegins(w, g)
        PROVE  PromptsInv'
    <3> DEFINE entry == [step |-> "delete", group |-> g]
    <3>1. /\ writer' = [writer EXCEPT ![w] = entry] /\ prompt' = prompt /\ label' = label
          /\ ~SharedGroup(g)
          /\ entry.step = "delete" /\ entry.group = g
      BY <2>4 DEF DeleteBegins, BeginsWrite
    <3> HIDE DEF entry
    <3>2. QED
      BY <1>2, <3>1, WriterBegins
  <2>5. ASSUME NEW w \in Writers, PatchJoins(w) PROVE PromptsInv'
    <3> DEFINE request == writer[w].request
               entry == [step |-> "patch", prompt |-> writer[w].prompt, request |-> request,
                         group |-> IF Joins(request) THEN request.group ELSE Ungrouped,
                         name |-> IF Joins(request) THEN label[request.group] ELSE Plain]
    <3>1. /\ writer' = [writer EXCEPT ![w] = entry] /\ prompt' = prompt /\ label' = label
          /\ Joins(request) => GroupNameForWrite(request.group)
          /\ writer[w].step = "locked"
      BY <2>5 DEF PatchJoins, Continues
    <3>2. /\ writer[w].prompt \in PromptKeys /\ prompt[writer[w].prompt].kind = "own"
          /\ request \in Requests
      BY <1>2, <3>1 DEF PromptsInv, WriterFits
    <3>3. /\ entry.step = "patch" /\ entry.prompt = writer[w].prompt /\ entry.request = request
          /\ entry.group = IF Joins(request) THEN request.group ELSE Ungrouped
          /\ entry.group # Ungrouped => Joins(request) /\ entry.name = label[request.group]
      OBVIOUS
    <3>4. entry.group # Ungrouped => entry.group \in PromptGroups
      BY <3>2, <3>3 DEF Requests
    <3> HIDE DEF entry, request
    <3>5. entry.group # Ungrouped => GroupNameForWrite(entry.group) /\ entry.name = label[entry.group]
      BY <3>1, <3>3
    <3>6. QED
      BY <1>2, <3>1, <3>2, <3>3, <3>4, <3>5, WriterBegins
  <2>6. ASSUME NEW w \in Writers, Abort(w) PROVE PromptsInv'
    <3>1. /\ writer' = [writer EXCEPT ![w] = NoWrite] /\ prompt' = prompt /\ label' = label
          /\ NoWrite.step = "idle"
      BY <2>6 DEF Abort, Commits, Continues, NoWrite
    <3>2. QED
      BY <1>2, <3>1, WriterBegins
  <2>7. ASSUME NEW w \in Writers,
               CreateInserts(w) \/ PatchWrites(w) \/ RenameWrites(w) \/ DeleteWrites(w)
        PROVE  PromptsInv'
    BY <1>2, <2>7, InsertStep, PatchStep, GroupWrites
  <2>8. ASSUME NEW p \in PromptKeys, CreateShared(p) \/ \E kind \in {"own", "shared"} : DeletePrompt(p, kind)
        PROVE  PromptsInv'
    BY <1>2, <2>8, LonePromptStep
  <2>9. ASSUME NEW g \in PromptGroups, NEW name \in Labels, CreateGroup(g, name) PROVE PromptsInv'
    BY <1>2, <2>9, NewGroupStep
  <2>10. CASE UNCHANGED promptVars
    BY <1>2, <2>10 DEF promptVars, PromptsInv, PromptsTypeOK, PromptsFollowTheirGroup, WriterFits, Labelled,
                       Shares, Changes, Sharing, HasName, Joins
  <2>11. QED
    BY <1>2, <2>1, <2>2, <2>3, <2>4, <2>5, <2>6, <2>7, <2>8, <2>9, <2>10 DEF PromptsNext
<1>3. PromptsInv => PromptsFollowTheirGroup
  BY DEF PromptsInv
<1>4. PromptsSpec => []PromptsInv
  BY <1>1, <1>2, PTL DEF PromptsSpec
<1>5. QED
  BY <1>3, <1>4, PTL

-----------------------------------------------------------------------------
(* The order of the services *)

(* Orders are multiples of ten above zero. *)
IsPlace(x) == \E k \in Nat \ {0} : x = Step * k

(* The greatest of the live orders. *)
LEMMA LastOrderIsLast ==
  ASSUME \A s \in Live : IsPlace(service[s].order)
  PROVE  /\ IsPlace(LastOrder + Step)
         /\ \A s \in Live : service[s].order < LastOrder + Step
<1>1. IsFiniteSet(Live)
  BY ServicesAssumption, FS_Subset DEF Live
<1>2. IsFiniteSet(Orders)
  <2> DEFINE g == [s \in Live |-> service[s].order]
  <2>1. g \in Surjection(Live, Orders)
    BY DEF Orders, Surjection
  <2>2. QED
    BY <1>1, <2>1, FS_Surjection
<1>3. Orders \subseteq Nat /\ \A x \in Orders : IsPlace(x)
  <2>1. \A x \in Orders : IsPlace(x)
    BY DEF Orders
  <2>2. \A x : IsPlace(x) => x \in Nat
    BY DEF IsPlace, Step
  <2>3. QED
    BY <2>1, <2>2
<1>4. CASE Orders = {}
  <2>1. LastOrder = 0 /\ \A s \in Live : FALSE
    BY <1>4 DEF LastOrder, Orders
  <2>2. QED
    BY <2>1 DEF IsPlace, Step
<1>5. CASE Orders # {}
  <2>1. PICK m \in Orders : \A y \in Orders : m >= y
    BY <1>2, <1>3, <1>5, LastExists
  <2>2. Max(Orders) \in Orders /\ \A y \in Orders : Max(Orders) >= y
    BY <2>1, Zenon DEF Max
  <2>3. LastOrder = Max(Orders)
    BY <1>5 DEF LastOrder
  <2>4. LastOrder \in Orders /\ \A y \in Orders : LastOrder >= y
    BY <2>2, <2>3
  <2>5. PICK k \in Nat \ {0} : LastOrder = Step * k
    BY <1>3, <2>4 DEF IsPlace
  <2>6. LastOrder + Step = Step * (k + 1) /\ k + 1 \in Nat \ {0}
    BY <2>5 DEF Step
  <2>7. \A s \in Live : service[s].order \in Orders
    BY DEF Orders
  <2>8. \A s \in Live : service[s].order < LastOrder + Step
    <3>1. ASSUME NEW s \in Live PROVE service[s].order < LastOrder + Step
      <4>1. service[s].order \in Nat /\ LastOrder \in Nat /\ LastOrder >= service[s].order
        BY <1>3, <2>4, <2>7
      <4>2. QED
        BY <4>1 DEF Step
    <3>2. QED
      BY <3>1
  <2>9. QED
    BY <2>6, <2>8 DEF IsPlace
<1>6. QED
  BY <1>4, <1>5

(* Services that share no place fill as many as they are. *)
LEMMA RoomBelow ==
  ASSUME NEW S, S \subseteq Live, NEW x, IsPlace(x),
         \A s \in Live : IsPlace(service[s].order),
         \A s, t \in Live : s # t => service[s].order # service[t].order,
         \A s \in S : service[s].order < x
  PROVE  /\ IsFiniteSet(S) /\ Cardinality(S) \in Nat
         /\ Step * Cardinality(S) < x
<1>1. IsFiniteSet(S)
  BY ServicesAssumption, FS_Subset DEF Live
<1>2. PICK k \in Nat \ {0} : x = Step * k
  BY DEF IsPlace
<1> DEFINE f == [s \in S |-> CHOOSE i \in Nat \ {0} : service[s].order = Step * i]
<1>3. ASSUME NEW s \in S
      PROVE  f[s] \in 1 .. k - 1 /\ service[s].order = Step * f[s]
  <2>1. f[s] = CHOOSE i \in Nat \ {0} : service[s].order = Step * i
    BY <1>3
  <2>2. IsPlace(service[s].order)
    BY <1>3
  <2>3. f[s] \in Nat \ {0} /\ service[s].order = Step * f[s]
    BY <2>1, <2>2, Zenon DEF IsPlace
  <2>4. service[s].order < x
    BY <1>3
  <2>5. QED
    BY <1>2, <2>3, <2>4 DEF Step
<1>4. f \in [S -> 1 .. k - 1]
  BY <1>3
<1>5. \A s, t \in S : f[s] = f[t] => s = t
  BY <1>3
<1>6. f \in Injection(S, 1 .. k - 1)
  <2> HIDE DEF f
  <2>1. DOMAIN f = S
    BY <1>4
  <2>2. IsInjective(f)
    BY <1>5, <2>1 DEF IsInjective
  <2>3. QED
    BY <1>4, <2>2 DEF Injection
<1> HIDE DEF f
<1>7. IsFiniteSet(1 .. k - 1) /\ Cardinality(1 .. k - 1) = k - 1
  BY FS_Interval
<1>8. Cardinality(S) <= k - 1
  BY <1>6, <1>7, FS_Injection
<1>9. Cardinality(S) \in Nat
  BY <1>1, FS_CardinalityType
<1>10. QED
  BY <1>1, <1>2, <1>8, <1>9 DEF Step

OrderRows == [state : {"none", "live", "deleted"}, order : Nat, key : {"none", "own", "dead"}]

OrderTypeOK ==
  /\ DOMAIN service = Services /\ DOMAIN saver = Savers /\ DOMAIN reorder = Orderers
  /\ \A s \in Services : service[s] \in OrderRows
  /\ \A o \in Reorders : DOMAIN reorder[o] = {"step", "seen", "rows"}

(* What a saving request has found is locked if it is there, by it and not by  *)
(* a reorder.                                                                  *)
SaverFits(r) ==
  LET s == saver[r].service IN
  /\ s \in Services /\ IsPlace(saver[r].order)
  /\ s \in Live => HeldBySave(s) /\ \A o \in Reorders : s \notin reorder[o].rows

PlacesFit == \A s \in Live : IsPlace(service[s].order)
OneSaves  == \A q, r \in SavesOfKind : q = r
KeysDie   == \A s \in Services : service[s].key = "dead" => service[s].state = "deleted"
RowsThere == \A o \in Reorders : reorder[o].rows \subseteq Live

(* What holds whether or not a reorder was overtaken. *)
RowsFit ==
  /\ OrderTypeOK /\ PlacesFit /\ KeysDie /\ OneSaves /\ RowsThere
  /\ \A r \in SavesOfKind : SaverFits(r)

(* The services a reorder will place, if it comes to it: those it has locked   *)
(* and those it has yet to lock that are still there.                          *)
Placing(o) == reorder[o].rows \union (reorder[o].seen \cap Live)
Current == Reorders \ overtaken

(* All services a reorder does not know are behind the places it will give,    *)
(* and what is saved is where it was, or behind all others and those places.   *)
PlacesApart == \A s, t \in Live : s # t => service[s].order # service[t].order
OthersBehind(o) == \A s \in Live \ Placing(o) : Step * Cardinality(Placing(o)) < service[s].order
SavedBehind(r) ==
  LET s == saver[r].service IN
  /\ s \in Live => saver[r].order = service[s].order
  /\ s \notin Live =>
       /\ \A t \in Live : service[t].order < saver[r].order
       /\ \A o \in Current : Step * Cardinality(Placing(o)) < saver[r].order
InOrder ==
  /\ PlacesApart
  /\ \A o \in Current : OthersBehind(o)
  /\ \A r \in SavesOfKind : SavedBehind(r)

OrderInv == RowsFit /\ (tangled \/ InOrder)

(* What a reorder will place takes fewer places than lie before a free one.    *)
LEMMA RoomToPlace ==
  ASSUME RowsFit, PlacesApart, NEW S, S \subseteq Live, NEW x, IsPlace(x),
         \A s \in Live : service[s].order < x
  PROVE  Step * Cardinality(S) < x
  BY RoomBelow DEF RowsFit, PlacesFit, PlacesApart

(* A service that is read goes where it is, or behind all others. *)
LEMMA ReadOrderStep ==
  ASSUME OrderInv, NEW r \in Savers, NEW s \in Services, NEW replaced \in BOOLEAN,
         ReadOrder(r, s, replaced)
  PROVE  OrderInv'
<1> DEFINE place == IF s \in Live THEN service[s].order ELSE LastOrder + Step
           entry == [step |-> "read", service |-> s, held |-> s \in Live, replaced |-> replaced,
                     order |-> place]
<1>1. /\ SavesOfKind = {} /\ ~RowLocked(s) /\ service' = service /\ reorder' = reorder
      /\ overtaken' = overtaken /\ tangled' = tangled
      /\ saver' = [saver EXCEPT ![r] = entry] /\ DOMAIN saver = Savers
  BY DEF ReadOrder, MayRead, OrderInv, RowsFit, OrderTypeOK
<1>2. /\ entry.step = "read" /\ entry.service = s
      /\ entry.order = place /\ (entry.held <=> s \in Live)
  OBVIOUS
<1>3. /\ IsPlace(LastOrder + Step)
      /\ \A t \in Live : service[t].order < LastOrder + Step
  BY LastOrderIsLast DEF OrderInv, RowsFit, PlacesFit
<1>4. IsPlace(place)
  BY <1>3 DEF OrderInv, RowsFit, PlacesFit
<1> HIDE DEF entry
<1>5. /\ saver'[r] = entry /\ DOMAIN saver' = Savers /\ saver'[r].service = s
      /\ saver'[r].order = place /\ SavesOfKind' = {r}
      /\ Live' = Live /\ Reorders' = Reorders /\ Current' = Current
      /\ \A o : Placing(o)' = Placing(o)
  BY <1>1, <1>2 DEF Live, SavesOfKind, Reorders, Current, Placing
<1>6. SaverFits(r)'
  <2>1. s \in Live => HeldBySave(s)'
    BY <1>2, <1>5 DEF HeldBySave
  <2>2. QED
    BY <1>1, <1>4, <1>5, <2>1 DEF SaverFits, IsPlace, RowLocked
<1>7. RowsFit'
  BY <1>1, <1>5, <1>6 DEF OrderInv, RowsFit, OrderTypeOK, PlacesFit, KeysDie, OneSaves, RowsThere, IsPlace
<1>8. ASSUME InOrder PROVE InOrder'
  <2>1. ASSUME NEW o \in Current PROVE Step * Cardinality(Placing(o)) < LastOrder + Step
    <3>1. Placing(o) \subseteq Live
      BY DEF OrderInv, RowsFit, RowsThere, Placing, Current
    <3>2. QED
      BY <1>3, <1>8, <3>1, RoomToPlace DEF OrderInv, InOrder
  <2>2. SavedBehind(r)'
    BY <1>1, <1>3, <1>5, <2>1 DEF SavedBehind
  <2>3. QED
    BY <1>1, <1>5, <1>8, <2>2 DEF InOrder, PlacesApart, OthersBehind
<1>9. QED
  BY <1>1, <1>7, <1>8 DEF OrderInv

(* A save keeps the place of a service that is there, and puts a new one       *)
(* behind all others.                                                          *)
LEMMA SaveServiceStep ==
  ASSUME OrderInv, NEW r \in Savers, SaveService(r)
  PROVE  OrderInv'
<1> DEFINE s0 == saver[r].service
           row == [state |-> "live", order |-> saver[r].order,
                   key |-> SavedKey(service[s0], saver[r].replaced)]
<1>1. /\ r \in SavesOfKind /\ SaverFits(r) /\ reorder' = reorder /\ tangled' = tangled
      /\ saver' = [saver EXCEPT ![r] = NoRequest] /\ DOMAIN saver = Savers
      /\ service' \in {service, [service EXCEPT ![s0] = row]}
      /\ overtaken' = IF service' = service \/ s0 \in Live THEN overtaken
                      ELSE overtaken \union {o \in Reorders : s0 \in reorder[o].seen}
  BY DEF SaveService, SavesOfKind, OrderInv, RowsFit, OrderTypeOK
<1>2. DOMAIN saver' = Savers /\ SavesOfKind' = {} /\ Reorders' = Reorders
  BY <1>1 DEF OrderInv, RowsFit, OneSaves, SavesOfKind, NoRequest, Reorders
<1>3. CASE service' = service
  <2>1. /\ Live' = Live /\ Current' = Current /\ \A o : Placing(o)' = Placing(o)
    BY <1>1, <1>2, <1>3 DEF Live, Current, Placing
  <2>2. RowsFit'
    BY <1>1, <1>2, <1>3, <2>1 DEF OrderInv, RowsFit, OrderTypeOK, PlacesFit, KeysDie, OneSaves, RowsThere, IsPlace
  <2>3. InOrder => InOrder'
    BY <1>1, <1>2, <1>3, <2>1 DEF InOrder, PlacesApart, OthersBehind
  <2>4. QED
    BY <1>1, <2>2, <2>3 DEF OrderInv
<1>4. CASE service' = [service EXCEPT ![s0] = row]
  <2>1. s0 \in Services /\ IsPlace(row.order) /\ row.order \in Nat
    BY <1>1 DEF SaverFits, IsPlace, Step
  <2>2. row.state = "live" /\ row.key \in {"none", "own"}
    BY <2>1 DEF SavedKey, OrderInv, RowsFit, OrderTypeOK, OrderRows, KeysDie
  <2>3. row \in OrderRows
    BY <2>1, <2>2 DEF OrderRows
  <2>4. row.order = saver[r].order
    OBVIOUS
  <2> HIDE DEF row, s0
  <2>5. /\ service'[s0] = row /\ DOMAIN service' = Services
        /\ \A t \in Services : t # s0 => service'[t] = service[t]
        /\ Live' = Live \union {s0} /\ Live \subseteq Services
    BY <1>4, <2>1, <2>2 DEF OrderInv, RowsFit, OrderTypeOK, Live
  <2>6. OrderTypeOK' /\ KeysDie' /\ OneSaves'
    BY <1>1, <1>2, <2>2, <2>3, <2>5 DEF OrderInv, RowsFit, OrderTypeOK, KeysDie, OneSaves
  <2>7. PlacesFit'
    BY <2>1, <2>5 DEF OrderInv, RowsFit, PlacesFit, IsPlace
  <2>8. RowsThere'
    BY <1>1, <1>2, <2>5 DEF OrderInv, RowsFit, RowsThere
  <2>9. RowsFit'
    BY <1>2, <2>6, <2>7, <2>8 DEF RowsFit
  <2>10. ASSUME InOrder PROVE InOrder'
    <3>1. SavedBehind(r) /\ PlacesApart
      BY <1>1, <2>10 DEF InOrder
    <3>2. /\ s0 \in Live => row.order = service[s0].order
          /\ s0 \notin Live => /\ \A t \in Live : service[t].order < row.order
                               /\ \A o \in Current : Step * Cardinality(Placing(o)) < row.order
      BY <2>4, <3>1 DEF SavedBehind, s0
    <3>3. \A t \in Live' : t # s0 => t \in Live /\ service'[t] = service[t] /\ service[t].order # row.order
      BY <2>1, <2>5, <3>1, <3>2 DEF OrderInv, RowsFit, OrderTypeOK, OrderRows, PlacesApart
    <3>4. PlacesApart'
      BY <2>5, <3>1, <3>3 DEF PlacesApart
    <3>5. ASSUME NEW o \in Current' PROVE OthersBehind(o)'
      <4>1. o \in Current /\ o \in Reorders /\ OthersBehind(o)
        BY <1>1, <1>2, <2>10, <3>5 DEF Current, InOrder
      <4>2. CASE s0 \in Live
        <5>1. Placing(o)' = Placing(o)
          BY <1>1, <2>5, <4>2 DEF Placing
        <5>2. QED
          BY <2>5, <3>2, <4>1, <4>2, <5>1 DEF OthersBehind
      <4>3. CASE s0 \notin Live
        <5>1. service' # service
          BY <2>1, <2>2, <2>5, <4>3 DEF Live
        <5>2. s0 \notin reorder[o].seen
          BY <1>1, <1>2, <3>5, <4>1, <4>3, <5>1 DEF Current, s0
        <5>3. Placing(o)' = Placing(o)
          BY <1>1, <2>5, <5>2 DEF Placing
        <5>4. QED
          BY <2>5, <3>2, <4>1, <4>3, <5>3 DEF OthersBehind
      <4>4. QED
        BY <4>2, <4>3
    <3>6. QED
      BY <1>2, <3>4, <3>5 DEF InOrder
  <2>11. QED
    BY <1>1, <2>9, <2>10 DEF OrderInv
<1>5. QED
  BY <1>1, <1>3, <1>4

(* A service nobody has locked may go. *)
LEMMA DeleteServiceStep ==
  ASSUME OrderInv, NEW s \in Services, DeleteService(s)
  PROVE  OrderInv'
<1>1. /\ s \in Live /\ ~RowLocked(s) /\ saver' = saver /\ reorder' = reorder
      /\ overtaken' = overtaken /\ tangled' = tangled
      /\ DOMAIN service' = Services
      /\ \A t \in Services : t # s => service'[t] = service[t]
  BY DEF DeleteService, OrderInv, RowsFit, OrderTypeOK
<1>2. service[s] \in OrderRows /\ DOMAIN service = Services
  BY DEF OrderInv, RowsFit, OrderTypeOK
<1>3. service'[s] \in OrderRows /\ service'[s].state = "deleted"
  <2>1. service'[s] = [service[s] EXCEPT !.state = "deleted",
                                         !.key = IF service[s].key = "own" THEN "dead" ELSE service[s].key]
    BY <1>2 DEF DeleteService
  <2>2. CASE service[s].key = "own"
    BY <1>2, <2>1, <2>2 DEF OrderRows
  <2>3. CASE service[s].key # "own"
    BY <1>2, <2>1, <2>3 DEF OrderRows
  <2>4. QED
    BY <2>2, <2>3
<1>4. /\ Live' = Live \ {s} /\ Live \subseteq Services /\ SavesOfKind' = SavesOfKind
      /\ Reorders' = Reorders /\ Current' = Current
  BY <1>1, <1>3 DEF Live, SavesOfKind, Reorders, Current
<1>5. OrderTypeOK' /\ PlacesFit' /\ KeysDie' /\ OneSaves'
  BY <1>1, <1>3, <1>4 DEF OrderInv, RowsFit, OrderTypeOK, PlacesFit, KeysDie, OneSaves, IsPlace
<1>6. RowsThere'
  BY <1>1, <1>4 DEF OrderInv, RowsFit, RowsThere, RowLocked
<1>7. ASSUME NEW r \in SavesOfKind
      PROVE  saver[r].service # s /\ SaverFits(r)'
  <2>1. SaverFits(r)
    BY DEF OrderInv, RowsFit
  <2>2. saver[r].service # s
    BY <1>1, <2>1 DEF SaverFits, RowLocked
  <2>3. HeldBySave(saver[r].service)' <=> HeldBySave(saver[r].service)
    BY <1>1 DEF HeldBySave
  <2>4. QED
    BY <1>1, <1>4, <2>1, <2>2, <2>3 DEF SaverFits, IsPlace
<1>8. RowsFit'
  BY <1>4, <1>5, <1>6, <1>7 DEF RowsFit
<1>9. ASSUME NEW o \in Reorders, NEW x, x \in Nat, Step * Cardinality(Placing(o)) < x
      PROVE  Step * Cardinality(Placing(o)') < x
  <2>1. Placing(o) \subseteq Live /\ Placing(o)' \subseteq Placing(o)
    BY <1>1, <1>4 DEF OrderInv, RowsFit, RowsThere, Placing
  <2>2. IsFiniteSet(Placing(o))
    BY <1>4, <2>1, ServicesAssumption, FS_Subset
  <2>3. /\ IsFiniteSet(Placing(o)') /\ Cardinality(Placing(o)') <= Cardinality(Placing(o))
    BY <2>1, <2>2, FS_Subset
  <2>4. Cardinality(Placing(o)) \in Nat /\ Cardinality(Placing(o)') \in Nat
    BY <2>2, <2>3, FS_CardinalityType
  <2>5. QED
    BY <1>9, <2>3, <2>4 DEF Step
<1>10. ASSUME InOrder PROVE InOrder'
  <2>1. PlacesApart'
    BY <1>1, <1>4, <1>10 DEF InOrder, PlacesApart
  <2>2. ASSUME NEW o \in Current PROVE OthersBehind(o)'
    <3>1. OthersBehind(o) /\ o \in Reorders
      BY <1>10 DEF InOrder, Current
    <3>2. \A t \in Live' \ Placing(o)' : t \in Live \ Placing(o) /\ service'[t] = service[t]
      BY <1>1, <1>4 DEF Placing
    <3>3. \A t \in Live : service[t].order \in Nat
      BY <1>4 DEF OrderInv, RowsFit, OrderTypeOK, OrderRows
    <3>4. QED
      BY <1>9, <3>1, <3>2, <3>3 DEF OthersBehind
  <2>3. ASSUME NEW r \in SavesOfKind PROVE SavedBehind(r)'
    <3>1. SavedBehind(r) /\ saver[r].service # s
      BY <1>7, <1>10 DEF InOrder
    <3>2. saver[r].order \in Nat
      BY DEF OrderInv, RowsFit, SaverFits, IsPlace, Step
    <3>3. \A o \in Current : o \in Reorders
      BY DEF Current
    <3>4. QED
      BY <1>1, <1>4, <1>9, <3>1, <3>2, <3>3 DEF SavedBehind
  <2>4. QED
    BY <1>4, <2>1, <2>2, <2>3 DEF InOrder
<1>11. QED
  BY <1>1, <1>8, <1>10 DEF OrderInv

(* A reorder begins with all the rows, and a service that is being saved will  *)
(* come behind them.                                                           *)
LEMMA ReorderBeginsStep ==
  ASSUME OrderInv, NEW o \in Orderers, ReorderBegins(o)
  PROVE  OrderInv'
<1>1. /\ service' = service /\ saver' = saver /\ overtaken' = overtaken /\ tangled' = tangled
      /\ DOMAIN reorder' = Orderers /\ reorder'[o].rows = {} /\ reorder'[o].seen = Live
      /\ DOMAIN reorder'[o] = {"step", "seen", "rows"}
      /\ \A q \in Orderers : q # o => reorder'[q] = reorder[q]
  BY DEF ReorderBegins, OrderInv, RowsFit, OrderTypeOK
<1>2. /\ Live' = Live /\ SavesOfKind' = SavesOfKind /\ \A s : HeldBySave(s)' <=> HeldBySave(s)
      /\ \A q \in Reorders' : q = o \/ (q \in Reorders /\ reorder'[q] = reorder[q])
  <2>1. Live' = Live /\ SavesOfKind' = SavesOfKind
    BY <1>1 DEF Live, SavesOfKind
  <2>2. \A s : HeldBySave(s)' <=> HeldBySave(s)
    BY <1>1 DEF HeldBySave
  <2>3. ASSUME NEW q \in Reorders', q # o PROVE q \in Reorders /\ reorder'[q] = reorder[q]
    <3>1. q \in Orderers /\ reorder'[q] # NoRequest
      BY <2>3 DEF Reorders
    <3>2. QED
      BY <1>1, <2>3, <3>1 DEF Reorders
  <2>4. QED
    BY <2>1, <2>2, <2>3
<1>3. OrderTypeOK' /\ PlacesFit' /\ KeysDie' /\ OneSaves' /\ RowsThere'
  BY <1>1, <1>2 DEF OrderInv, RowsFit, OrderTypeOK, PlacesFit, KeysDie, OneSaves, RowsThere, IsPlace
<1>4. ASSUME NEW r \in SavesOfKind PROVE SaverFits(r)'
  <2>1. SaverFits(r)
    BY DEF OrderInv, RowsFit
  <2>2. QED
    BY <1>1, <1>2, <2>1 DEF SaverFits, IsPlace
<1>5. RowsFit'
  BY <1>2, <1>3, <1>4 DEF RowsFit
<1>6. ASSUME InOrder PROVE InOrder'
  <2>1. \A q \in Current' : q = o \/ (q \in Current /\ Placing(q)' = Placing(q))
    BY <1>1, <1>2 DEF Current, Placing
  <2>2. Placing(o)' = Live
    BY <1>1, <1>2 DEF Placing
  <2>3. \A q \in Current' : OthersBehind(q)'
    BY <1>1, <1>2, <1>6, <2>1, <2>2 DEF InOrder, OthersBehind
  <2>4. ASSUME NEW r \in SavesOfKind PROVE SavedBehind(r)'
    <3>1. SavedBehind(r) /\ IsPlace(saver[r].order)
      BY <1>6 DEF InOrder, OrderInv, RowsFit, SaverFits
    <3>2. saver[r].service \notin Live => Step * Cardinality(Live) < saver[r].order
      BY <1>6, <3>1, RoomToPlace DEF SavedBehind, OrderInv, InOrder
    <3>3. QED
      BY <1>1, <1>2, <2>1, <2>2, <3>1, <3>2 DEF SavedBehind
  <2>5. QED
    BY <1>1, <1>2, <1>6, <2>3, <2>4 DEF InOrder, PlacesApart
<1>7. QED
  BY <1>1, <1>5, <1>6 DEF OrderInv

(* A row is locked if it is still there and nobody else holds it, so a reorder *)
(* goes on to place the same services.                                         *)
LEMMA ReorderLocksStep ==
  ASSUME OrderInv, NEW o \in Orderers, NEW s \in Services, ReorderLocks(o, s)
  PROVE  OrderInv'
<1> DEFINE entry == [reorder[o] EXCEPT !.seen = @ \ {s}, !.rows = IF s \in Live THEN @ \union {s} ELSE @]
<1>1. /\ service' = service /\ saver' = saver /\ overtaken' = overtaken /\ tangled' = tangled
      /\ reorder' = [reorder EXCEPT ![o] = entry] /\ DOMAIN reorder = Orderers
      /\ o \in Reorders /\ s \in reorder[o].seen /\ ~RowLocked(s)
  BY DEF ReorderLocks, OrderInv, RowsFit, OrderTypeOK
<1>2. /\ DOMAIN reorder' = Orderers
      /\ \A q \in Orderers : q # o => reorder'[q] = reorder[q]
      /\ reorder'[o] = entry
  BY <1>1
<1>3. DOMAIN reorder[o] = {"step", "seen", "rows"}
  BY <1>1 DEF OrderInv, RowsFit, OrderTypeOK, Reorders
<1>4. /\ entry.seen = reorder[o].seen \ {s} /\ DOMAIN entry = {"step", "seen", "rows"}
      /\ entry.rows = IF s \in Live THEN reorder[o].rows \union {s} ELSE reorder[o].rows
  BY <1>3
<1> HIDE DEF entry
<1>5. /\ Live' = Live /\ SavesOfKind' = SavesOfKind /\ \A t : HeldBySave(t)' <=> HeldBySave(t)
      /\ \A q \in Reorders' : q \in Reorders /\ Placing(q)' = Placing(q)
      /\ \A q \in Reorders' : \A t \in reorder'[q].rows : t \in reorder[q].rows \/ (t = s /\ s \in Live)
  <2>1. Live' = Live /\ SavesOfKind' = SavesOfKind /\ \A t : HeldBySave(t)' <=> HeldBySave(t)
    BY <1>1 DEF Live, SavesOfKind, HeldBySave
  <2>2. \A q \in Reorders' : q \in Reorders
    BY <1>1, <1>2 DEF Reorders
  <2>3. Placing(o)' = Placing(o)
    BY <1>1, <1>2, <1>4, <2>1 DEF Placing
  <2>4. \A q \in Reorders' : q # o => Placing(q)' = Placing(q)
    BY <1>2, <2>1 DEF Placing, Reorders
  <2>5. \A q \in Reorders' : \A t \in reorder'[q].rows : t \in reorder[q].rows \/ (t = s /\ s \in Live)
    BY <1>2, <1>4 DEF Reorders
  <2>6. QED
    BY <2>1, <2>2, <2>3, <2>4, <2>5
<1>6. OrderTypeOK' /\ PlacesFit' /\ KeysDie' /\ OneSaves' /\ RowsThere'
  BY <1>1, <1>2, <1>4, <1>5 DEF OrderInv, RowsFit, OrderTypeOK, PlacesFit, KeysDie, OneSaves, RowsThere, IsPlace
<1>7. ASSUME NEW r \in SavesOfKind PROVE SaverFits(r)'
  <2>1. SaverFits(r)
    BY DEF OrderInv, RowsFit
  <2>2. saver[r].service \in Live => saver[r].service # s
    BY <1>1, <2>1 DEF SaverFits, RowLocked
  <2>3. QED
    BY <1>1, <1>5, <2>1, <2>2 DEF SaverFits, IsPlace
<1>8. RowsFit'
  BY <1>5, <1>6, <1>7 DEF RowsFit
<1>9. ASSUME InOrder PROVE InOrder'
  <2>1. \A q \in Current' : q \in Current /\ Placing(q)' = Placing(q)
    BY <1>1, <1>5 DEF Current
  <2>2. QED
    BY <1>1, <1>5, <1>9, <2>1 DEF InOrder, PlacesApart, OthersBehind, SavedBehind
<1>10. QED
  BY <1>1, <1>8, <1>9 DEF OrderInv

(* A reorder that ends leaves everything as it is. *)
LEMMA ReorderEndsStep ==
  ASSUME OrderInv, NEW o \in Orderers, ReorderEnds(o)
  PROVE  OrderInv'
<1>1. /\ service' = service /\ saver' = saver /\ tangled' = tangled
      /\ overtaken' = overtaken \ {o}
      /\ DOMAIN reorder' = Orderers /\ reorder'[o] = NoRequest
      /\ \A q \in Orderers : q # o => reorder'[q] = reorder[q]
  BY DEF ReorderEnds, OrderInv, RowsFit, OrderTypeOK
<1>2. /\ Live' = Live /\ SavesOfKind' = SavesOfKind /\ \A t : HeldBySave(t)' <=> HeldBySave(t)
      /\ \A q \in Reorders' : q \in Reorders /\ q # o /\ reorder'[q] = reorder[q]
  BY <1>1 DEF Live, SavesOfKind, HeldBySave, Reorders
<1>3. RowsFit'
  BY <1>1, <1>2 DEF OrderInv, RowsFit, OrderTypeOK, PlacesFit, KeysDie, OneSaves, RowsThere, SaverFits, IsPlace
<1>4. \A q \in Current' : q \in Current /\ Placing(q)' = Placing(q)
  BY <1>1, <1>2 DEF Current, Placing
<1>5. ASSUME InOrder PROVE InOrder'
  <2>1. \A q \in Current' : OthersBehind(q)'
    BY <1>1, <1>2, <1>4, <1>5 DEF InOrder, OthersBehind
  <2>2. ASSUME NEW r \in SavesOfKind PROVE SavedBehind(r)'
    <3>1. SavedBehind(r)
      BY <1>5 DEF InOrder
    <3>2. QED
      BY <1>1, <1>2, <1>4, <3>1 DEF SavedBehind
  <2>3. QED
    BY <1>1, <1>2, <1>5, <2>1, <2>2 DEF InOrder, PlacesApart
<1>6. QED
  BY <1>1, <1>3, <1>5 DEF OrderInv

(* What the places of a reorder are: the first ones, each for one service. *)
LEMMA PlacedInOrder ==
  ASSUME RowsFit, NEW keys \in Seq(Services), NEW rows, rows \subseteq Live, NamesAll(keys, rows),
         service' = Placed(keys, rows)
  PROVE  /\ Live' = Live /\ DOMAIN service' = Services
         /\ \A s \in Services : service'[s] \in OrderRows /\ service'[s].key = service[s].key
                             /\ service'[s].state = service[s].state
         /\ \A s \in Services \ rows : service'[s] = service[s]
         /\ \A s \in rows : IsPlace(service'[s].order) /\ service'[s].order <= Step * Cardinality(rows)
         /\ \A s, t \in rows : s # t => service'[s].order # service'[t].order
         /\ rows # {} => Cardinality(rows) \in Nat
<1> DEFINE spot(s) == CHOOSE i \in DOMAIN keys : keys[i] = s
<1>1. rows = ToSet(keys) /\ Len(keys) = Cardinality(rows) /\ Live \subseteq Services
  BY DEF NamesAll, Live
<1>2. ASSUME NEW s \in rows
      PROVE  /\ spot(s) \in Nat \ {0} /\ spot(s) <= Cardinality(rows) /\ keys[spot(s)] = s
             /\ Cardinality(rows) \in Nat
  <2>1. \E i \in DOMAIN keys : keys[i] = s
    BY <1>1, <1>2 DEF ToSet
  <2>2. spot(s) \in DOMAIN keys /\ keys[spot(s)] = s
    BY <2>1, Zenon
  <2>3. DOMAIN keys = 1 .. Len(keys) /\ Len(keys) \in Nat
    OBVIOUS
  <2> HIDE DEF spot
  <2>4. QED
    BY <1>1, <2>2, <2>3
<1>3. /\ DOMAIN service' = Services
      /\ \A s \in Services \ rows : service'[s] = service[s]
      /\ \A s \in rows : service'[s] = [service[s] EXCEPT !.order = Step * spot(s)]
  BY <1>1 DEF Placed
<1> HIDE DEF spot
<1>4. ASSUME NEW s \in rows
      PROVE  /\ service'[s] \in OrderRows
             /\ service'[s].state = service[s].state /\ service'[s].key = service[s].key
             /\ service'[s].order = Step * spot(s)
             /\ IsPlace(service'[s].order) /\ service'[s].order <= Step * Cardinality(rows)
  <2>1. service[s] \in [state : {"none", "live", "deleted"}, order : Nat, key : {"none", "own", "dead"}]
    BY <1>1 DEF RowsFit, OrderTypeOK, OrderRows
  <2>2. Step * spot(s) \in Nat
    BY <1>2 DEF Step
  <2>3. /\ service'[s] \in [state : {"none", "live", "deleted"}, order : Nat, key : {"none", "own", "dead"}]
        /\ service'[s].state = service[s].state /\ service'[s].key = service[s].key
        /\ service'[s].order = Step * spot(s)
    BY <1>3, <2>1, <2>2, ZenonT(60)
  <2>4. IsPlace(service'[s].order) /\ service'[s].order <= Step * Cardinality(rows)
    BY <1>2, <2>3 DEF IsPlace, Step
  <2>5. QED
    BY <2>3, <2>4 DEF OrderRows
<1>5. \A s \in Services : service'[s] \in OrderRows /\ service'[s].key = service[s].key
                       /\ service'[s].state = service[s].state
  BY <1>3, <1>4 DEF RowsFit, OrderTypeOK
<1>6. Live' = Live
  BY <1>5 DEF Live
<1>7. \A s, t \in rows : s # t => service'[s].order # service'[t].order
  BY <1>2, <1>4 DEF Step
<1>8. QED
  BY <1>2, <1>3, <1>4, <1>5, <1>6, <1>7

(* A reorder that was not overtaken gives its services the first places, and   *)
(* all others are behind them already.                                         *)
LEMMA ReorderWritesStep ==
  ASSUME OrderInv, NEW o \in Orderers, NEW keys \in Seq(Services), ReorderWrites(o, keys)
  PROVE  OrderInv'
<1> DEFINE rows == reorder[o].rows
<1>1. /\ o \in Reorders /\ saver' = saver /\ reorder[o].seen = {} /\ NamesAll(keys, rows)
      /\ service' = Placed(keys, rows) /\ tangled' = (tangled \/ o \in overtaken)
      /\ overtaken' = (overtaken \ {o}) \union
           {q \in Reorders \ {o} : ~(rows \subseteq reorder[q].seen \union reorder[q].rows)}
  BY DEF ReorderWrites
<1>2. /\ DOMAIN reorder' = Orderers /\ reorder'[o] = NoRequest
      /\ \A q \in Orderers : q # o => reorder'[q] = reorder[q]
  BY DEF ReorderWrites, OrderInv, RowsFit, OrderTypeOK
<1>3. rows \subseteq Live /\ Placing(o) = rows
  BY <1>1 DEF OrderInv, RowsFit, RowsThere, Placing
<1> HIDE DEF rows
<1>4. /\ Live' = Live /\ DOMAIN service' = Services
      /\ \A s \in Services : service'[s] \in OrderRows /\ service'[s].key = service[s].key
                          /\ service'[s].state = service[s].state
      /\ \A s \in Services \ rows : service'[s] = service[s]
      /\ \A s \in rows : IsPlace(service'[s].order) /\ service'[s].order <= Step * Cardinality(rows)
      /\ \A s, t \in rows : s # t => service'[s].order # service'[t].order
      /\ rows # {} => Cardinality(rows) \in Nat
  BY <1>1, <1>3, PlacedInOrder DEF OrderInv
<1>5. /\ SavesOfKind' = SavesOfKind /\ \A t : HeldBySave(t)' <=> HeldBySave(t)
      /\ \A q \in Reorders' : q \in Reorders /\ q # o /\ reorder'[q] = reorder[q]
      /\ Live \subseteq Services
  BY <1>1, <1>2 DEF SavesOfKind, HeldBySave, Reorders, Live
<1>6. RowsFit'
  <2>1. OrderTypeOK' /\ KeysDie' /\ OneSaves'
    BY <1>1, <1>2, <1>4, <1>5 DEF OrderInv, RowsFit, OrderTypeOK, KeysDie, OneSaves
  <2>2. PlacesFit' /\ RowsThere'
    BY <1>4, <1>5 DEF OrderInv, RowsFit, PlacesFit, RowsThere, IsPlace
  <2>3. \A r \in SavesOfKind : SaverFits(r)'
    BY <1>1, <1>4, <1>5 DEF OrderInv, RowsFit, SaverFits, IsPlace
  <2>4. QED
    BY <1>5, <2>1, <2>2, <2>3 DEF RowsFit
<1>7. ASSUME InOrder, o \notin overtaken PROVE InOrder'
  <2>1. OthersBehind(o) /\ PlacesApart
    BY <1>1, <1>7 DEF InOrder, Current
  <2>2. \A s \in Live \ rows : Step * Cardinality(rows) < service[s].order /\ service'[s] = service[s]
    BY <1>3, <1>4, <1>5, <2>1 DEF OthersBehind
  <2>3. \A s \in Live : service'[s].order \in Nat
    BY <1>4, <1>5 DEF OrderRows
  <2>4. PlacesApart'
    <3>1. ASSUME NEW x \in rows, NEW y \in Live \ rows
          PROVE  service'[x].order # service'[y].order
      <4>1. /\ service'[x].order <= Step * Cardinality(rows)
            /\ Step * Cardinality(rows) < service'[y].order
        BY <1>4, <2>2
      <4>2. service'[x].order \in Nat /\ service'[y].order \in Nat /\ Step * Cardinality(rows) \in Nat
        BY <1>3, <1>4, <2>3 DEF Step
      <4>3. QED
        BY <4>1, <4>2
    <3>2. \A s, t \in Live \ rows : s # t => service'[s].order # service'[t].order
      BY <2>1, <2>2 DEF PlacesApart
    <3>3. QED
      BY <1>3, <1>4, <3>1, <3>2 DEF PlacesApart
  <2>5. ASSUME NEW q \in Current' PROVE q \in Current /\ Placing(q)' = Placing(q) /\ OthersBehind(q)'
    <3>1. q \in Reorders /\ q # o /\ reorder'[q] = reorder[q] /\ q \notin overtaken'
      BY <1>5, <2>5 DEF Current
    <3>2. q \in Current /\ rows \subseteq reorder[q].seen \union reorder[q].rows
      BY <1>1, <3>1 DEF Current
    <3>3. Placing(q)' = Placing(q) /\ rows \subseteq Placing(q)
      BY <1>3, <1>4, <3>1, <3>2 DEF Placing
    <3>4. OthersBehind(q)'
      BY <1>4, <1>5, <1>7, <3>2, <3>3 DEF InOrder, OthersBehind
    <3>5. QED
      BY <3>2, <3>3, <3>4
  <2>6. ASSUME NEW r \in SavesOfKind PROVE SavedBehind(r)'
    <3>1. SavedBehind(r) /\ SaverFits(r)
      BY <1>7 DEF InOrder, OrderInv, RowsFit
    <3>2. CASE saver[r].service \in Live
      <4>1. saver[r].service \notin rows
        BY <1>1, <3>1, <3>2 DEF SaverFits, rows
      <4>2. QED
        BY <1>1, <1>4, <1>5, <3>1, <3>2, <4>1 DEF SavedBehind
    <3>3. CASE saver[r].service \notin Live
      <4>1. Step * Cardinality(rows) < saver[r].order /\ \A t \in Live : service[t].order < saver[r].order
        BY <1>1, <1>3, <1>7, <3>1, <3>3 DEF SavedBehind, Current
      <4>2. ASSUME NEW t \in Live PROVE service'[t].order < saver[r].order
        <5>1. CASE t \in rows
          <6>1. /\ service'[t].order <= Step * Cardinality(rows) /\ service'[t].order \in Nat
                /\ Step * Cardinality(rows) \in Nat /\ saver[r].order \in Nat
            BY <1>4, <2>3, <3>1, <5>1 DEF SaverFits, IsPlace, Step
          <6>2. QED
            BY <4>1, <6>1
        <5>2. CASE t \notin rows
          BY <2>2, <4>1, <5>2
        <5>3. QED
          BY <5>1, <5>2
      <4>3. QED
        BY <1>1, <1>4, <2>5, <3>1, <3>3, <4>2 DEF SavedBehind
    <3>4. QED
      BY <3>2, <3>3
  <2>7. QED
    BY <1>5, <2>4, <2>5, <2>6 DEF InOrder
<1>8. QED
  BY <1>1, <1>6, <1>7 DEF OrderInv

(* However saves, deletions and reorders meet, no two services share a place   *)
(* unless a reorder wrote that was overtaken, and none comes back with a key   *)
(* of its former life.  (ChannelRepository.)                                   *)
THEOREM OrdersAreDecided == OrderSpec => []OrderIsDecided
<1>1. OrderInit => OrderInv
  BY DEF OrderInit, OrderInv, RowsFit, InOrder, OrderTypeOK, OrderRows, PlacesApart, PlacesFit, KeysDie,
         OneSaves, RowsThere, Live, SavesOfKind, Reorders, Current, NoService, NoRequest
<1>2. ASSUME OrderInv, [OrderNext]_serviceVars PROVE OrderInv'
  <2>1. ASSUME NEW r \in Savers, NEW s \in Services, NEW replaced \in BOOLEAN, ReadOrder(r, s, replaced)
        PROVE  OrderInv'
    BY <1>2, <2>1, ReadOrderStep
  <2>2. ASSUME NEW r \in Savers, SaveService(r) PROVE OrderInv'
    BY <1>2, <2>2, SaveServiceStep
  <2>3. ASSUME NEW s \in Services, DeleteService(s) PROVE OrderInv'
    BY <1>2, <2>3, DeleteServiceStep
  <2>4. ASSUME NEW o \in Orderers, ReorderBegins(o) PROVE OrderInv'
    BY <1>2, <2>4, ReorderBeginsStep
  <2>5. ASSUME NEW o \in Orderers, NEW s \in Services, ReorderLocks(o, s) PROVE OrderInv'
    BY <1>2, <2>5, ReorderLocksStep
  <2>6. ASSUME NEW o \in Orderers, NEW keys \in SeqOf(Services, Cardinality(Services)), ReorderWrites(o, keys)
        PROVE  OrderInv'
    <3>1. keys \in Seq(Services)
      BY <2>6 DEF SeqOf
    <3>2. QED
      BY <1>2, <2>6, <3>1, ReorderWritesStep
  <2>7. ASSUME NEW o \in Orderers, ReorderEnds(o) PROVE OrderInv'
    BY <1>2, <2>7, ReorderEndsStep
  <2>8. CASE UNCHANGED serviceVars
    <3>1. /\ service' = service /\ saver' = saver /\ reorder' = reorder
          /\ overtaken' = overtaken /\ tangled' = tangled
      BY <2>8 DEF serviceVars
    <3>2. /\ Live' = Live /\ SavesOfKind' = SavesOfKind /\ Reorders' = Reorders /\ Current' = Current
          /\ \A s : HeldBySave(s)' <=> HeldBySave(s)
          /\ \A o : Placing(o)' = Placing(o)
      BY <3>1 DEF Live, SavesOfKind, Reorders, Current, HeldBySave, Placing
    <3>3. RowsFit'
      BY <1>2, <3>1, <3>2 DEF OrderInv, RowsFit, OrderTypeOK, PlacesFit, KeysDie, OneSaves, RowsThere,
                              SaverFits, IsPlace
    <3>4. InOrder => InOrder'
      BY <3>1, <3>2 DEF InOrder, PlacesApart, OthersBehind, SavedBehind
    <3>5. QED
      BY <1>2, <3>1, <3>3, <3>4 DEF OrderInv
  <2>9. QED
    BY <1>2, <2>1, <2>2, <2>3, <2>4, <2>5, <2>6, <2>7, <2>8 DEF OrderNext
<1>3. OrderInv => OrderIsDecided
  BY DEF OrderInv, RowsFit, InOrder, PlacesApart, KeysDie, OrderIsDecided, Live
<1>4. OrderSpec => []OrderInv
  BY <1>1, <1>2, PTL DEF OrderSpec
<1>5. QED
  BY <1>3, <1>4, PTL

-----------------------------------------------------------------------------
(* The audit log *)

(* What an event more does to a log. *)
LEMMA AppendedLog ==
  ASSUME NEW S, NEW log \in Seq(S), NEW e \in S, NEW ext, ext = Append(log, e)
  PROVE  /\ ext \in Seq(S) /\ Len(log) \in Nat /\ Len(ext) = Len(log) + 1
         /\ DOMAIN log = 1 .. Len(log) /\ DOMAIN ext = 1 .. Len(log) + 1
         /\ \A i \in DOMAIN log : i \in DOMAIN ext /\ ext[i] = log[i]
         /\ ext[Len(log) + 1] = e
  OBVIOUS

(* Events that have none of their key between them in the longer log had none *)
(* in the shorter one; and the last of its key stays so if another key follows. *)
LEMMA AppendedBetween ==
  ASSUME NEW S, NEW log \in Seq(S), NEW e \in S, NEW ext, ext = Append(log, e), NEW k
  PROVE  /\ \A i, j : NoneBetween(ext, k, i, j) => NoneBetween(log, k, i, j)
         /\ \A i \in DOMAIN log : NoneBetween(ext, k, i, Len(ext) + 1)
              => e.key # k /\ NoneBetween(log, k, i, Len(log) + 1)
<1>1. /\ Len(log) \in Nat /\ Len(ext) = Len(log) + 1
      /\ DOMAIN log = 1 .. Len(log) /\ DOMAIN ext = 1 .. Len(log) + 1
      /\ \A i \in DOMAIN log : i \in DOMAIN ext /\ ext[i] = log[i]
      /\ ext[Len(log) + 1] = e
  BY AppendedLog
<1>2. \A i, j : NoneBetween(ext, k, i, j) => NoneBetween(log, k, i, j)
  BY <1>1, Zenon DEF NoneBetween
<1>3. ASSUME NEW i \in DOMAIN log, NoneBetween(ext, k, i, Len(ext) + 1)
      PROVE  e.key # k /\ NoneBetween(log, k, i, Len(log) + 1)
  <2>1. Len(log) + 1 \in DOMAIN ext /\ i < Len(log) + 1 /\ Len(log) + 1 < Len(ext) + 1
    BY <1>1
  <2>2. e.key # k
    BY <1>1, <1>3, <2>1, Zenon DEF NoneBetween
  <2>3. ASSUME NEW x \in DOMAIN log, i < x PROVE log[x].key # k
    <3>1. x \in DOMAIN ext /\ ext[x] = log[x] /\ x < Len(ext) + 1
      BY <1>1
    <3>2. QED
      BY <1>3, <2>3, <3>1, Zenon DEF NoneBetween
  <2>4. QED
    BY <2>2, <2>3, Zenon DEF NoneBetween
<1>4. QED
  BY <1>2, <1>3, Zenon

(* An event reverses none, or one of the log that is not yet reversed. *)
MayFollow(log, e) ==
  \/ e.undoes = 0
  \/ /\ e.undoes \in DOMAIN log /\ ~AlreadyRolledBack(log, e.undoes)
     /\ e.before = log[e.undoes].after /\ e.after = log[e.undoes].before

(* The events of a log reverse events of the log. *)
UndoesFit(log) == \A i \in DOMAIN log : log[i].undoes = 0 \/ log[i].undoes \in DOMAIN log

LEMMA AppendedReverses ==
  ASSUME NEW S, NEW log \in Seq(S), NEW e \in S, NEW ext, ext = Append(log, e),
         UndoesFit(log), ReversesOnce(log), MayFollow(log, e)
  PROVE  UndoesFit(ext) /\ ReversesOnce(ext)
<1> DEFINE n == Len(log) + 1
<1>1. /\ n \in Nat \ {0} /\ n \notin DOMAIN log /\ DOMAIN ext = DOMAIN log \union {n}
      /\ 0 \notin DOMAIN log
      /\ \A i \in DOMAIN log : i \in DOMAIN ext /\ ext[i] = log[i]
      /\ ext[n] = e
  BY AppendedLog
<1> HIDE DEF n
<1>2. UndoesFit(ext)
  BY <1>1 DEF UndoesFit, MayFollow
<1>3. ASSUME NEW i \in DOMAIN ext, ext[i].undoes # 0
      PROVE  /\ ext[i].before = ext[ext[i].undoes].after /\ ext[i].after = ext[ext[i].undoes].before
             /\ \A x \in DOMAIN ext \ {i} : ext[x].undoes # ext[i].undoes
  <2>1. CASE i \in DOMAIN log
    <3>1. /\ ext[i] = log[i] /\ log[i].undoes # 0 /\ log[i].undoes \in DOMAIN log
          /\ ext[log[i].undoes] = log[log[i].undoes]
      BY <1>1, <1>3, <2>1 DEF UndoesFit
    <3>2. /\ log[i].before = log[log[i].undoes].after /\ log[i].after = log[log[i].undoes].before
          /\ \A x \in DOMAIN log \ {i} : log[x].undoes # log[i].undoes
      BY <2>1, <3>1 DEF ReversesOnce
    <3>3. e.undoes # log[i].undoes
      BY <2>1, <3>1 DEF MayFollow, AlreadyRolledBack
    <3>4. QED
      BY <1>1, <3>1, <3>2, <3>3
  <2>2. CASE i = n
    <3>1. /\ e.undoes \in DOMAIN log /\ ~AlreadyRolledBack(log, e.undoes)
          /\ e.before = log[e.undoes].after /\ e.after = log[e.undoes].before
      BY <1>1, <1>3, <2>2 DEF MayFollow
    <3>2. \A x \in DOMAIN log : log[x].undoes # e.undoes
      BY <3>1 DEF AlreadyRolledBack
    <3>3. QED
      BY <1>1, <2>2, <3>1, <3>2
  <2>3. QED
    BY <1>1, <2>1, <2>2
<1>4. QED
  BY <1>2, <1>3 DEF ReversesOnce

-----------------------------------------------------------------------------
(* Tools *)

ToolStates == [enabled : BOOLEAN, timeout : Int]
ToolActions == {"update", "rollback"}
ToolEvents == [key : Tools, action : ToolActions, before : ToolStates, after : ToolStates, undoes : Nat]

ToolTypeOK == config \in [Tools -> ToolStates] /\ toolLog \in Seq(ToolEvents)

(* The history is exact, and its rollbacks are of events it has. *)
ToolsInv == ToolTypeOK /\ UndoesFit(toolLog) /\ ToolHistoryIsExact

ToolChanged(t, action, after, undoes) ==
  /\ config' = [config EXCEPT ![t] = after]
  /\ toolLog' = Append(toolLog, Event(t, action, config[t], after, undoes))
  /\ MayFollow(toolLog, Event(t, action, config[t], after, undoes))

(* A change with its event: the event found the row and left the row.  The   *)
(* last event of the tool before it described the row, so it is continued.   *)
LEMMA ToolChanges ==
  ASSUME ToolsInv, NEW t \in Tools, NEW after \in ToolStates, NEW action \in ToolActions, NEW undoes \in Nat,
         ToolChanged(t, action, after, undoes)
  PROVE  ToolsInv'
<1> DEFINE e == Event(t, action, config[t], after, undoes)
           n == Len(toolLog) + 1
<1>1. /\ e \in ToolEvents /\ e.key = t /\ e.before = config[t] /\ e.after = after
      /\ toolLog \in Seq(ToolEvents)
  BY DEF ToolsInv, ToolTypeOK, Event, ToolEvents
<1>2. config' \in [Tools -> ToolStates] /\ config'[t] = after /\ \A u \in Tools \ {t} : config'[u] = config[u]
  BY DEF ToolsInv, ToolTypeOK, ToolChanged
<1>3. toolLog' = Append(toolLog, e) /\ MayFollow(toolLog, e)
  BY DEF ToolChanged
<1> HIDE DEF e
<1>4. /\ toolLog' \in Seq(ToolEvents) /\ Len(toolLog') = n
      /\ \A i \in DOMAIN toolLog : i \in DOMAIN toolLog' /\ toolLog'[i] = toolLog[i] /\ i < n
      /\ n \in Nat /\ toolLog'[n] = e /\ DOMAIN toolLog' = DOMAIN toolLog \union {n}
      /\ DOMAIN toolLog' \subseteq Nat
  BY <1>1, <1>3, AppendedLog
<1>5. UndoesFit(toolLog') /\ ReversesOnce(toolLog')
  <2>1. UndoesFit(toolLog) /\ ReversesOnce(toolLog)
    BY DEF ToolsInv, ToolHistoryIsExact
  <2>2. QED
    BY <1>1, <1>3, <2>1, AppendedReverses
<1>6. ASSUME NEW u \in Tools
      PROVE  IsChained(toolLog', u, IsSame) /\ Describes(toolLog', u, config'[u], IsSame)
  <2>1. /\ \A i, j : NoneBetween(toolLog', u, i, j) => NoneBetween(toolLog, u, i, j)
        /\ \A i \in DOMAIN toolLog : NoneBetween(toolLog', u, i, Len(toolLog') + 1)
             => e.key # u /\ NoneBetween(toolLog, u, i, Len(toolLog) + 1)
    BY <1>1, <1>3, AppendedBetween
  <2>2. \A i, j \in DOMAIN toolLog : i < j /\ toolLog[i].key = u /\ toolLog[j].key = u /\ NoneBetween(toolLog, u, i, j)
          => toolLog[i].after = toolLog[j].before
    BY DEF ToolsInv, ToolHistoryIsExact, IsChained, IsSame
  <2>3. \A i \in DOMAIN toolLog : toolLog[i].key = u /\ NoneBetween(toolLog, u, i, n) => toolLog[i].after = config[u]
    BY DEF ToolsInv, ToolHistoryIsExact, Describes, IsSame
  <2>4. ASSUME NEW i \in DOMAIN toolLog', NEW j \in DOMAIN toolLog', i < j, toolLog'[i].key = u, toolLog'[j].key = u,
               NoneBetween(toolLog', u, i, j)
        PROVE  toolLog'[i].after = toolLog'[j].before
    <3>1. NoneBetween(toolLog, u, i, j)
      BY <2>1, <2>4
    <3>2. i \in DOMAIN toolLog
      BY <1>4, <2>4
    <3>3. CASE j \in DOMAIN toolLog
      BY <1>4, <2>2, <2>4, <3>1, <3>2, <3>3
    <3>4. CASE j = n
      BY <1>1, <1>4, <2>3, <2>4, <3>1, <3>2, <3>4
    <3>5. QED
      BY <1>4, <3>3, <3>4
  <2>5. ASSUME NEW i \in DOMAIN toolLog', toolLog'[i].key = u, NoneBetween(toolLog', u, i, Len(toolLog') + 1)
        PROVE  toolLog'[i].after = config'[u]
    <3>1. CASE i \in DOMAIN toolLog
      BY <1>1, <1>2, <1>4, <2>1, <2>3, <2>5, <3>1
    <3>2. CASE i = n
      BY <1>1, <1>2, <1>4, <2>5, <3>2
    <3>3. QED
      BY <1>4, <3>1, <3>2
  <2>6. QED
    BY <2>4, <2>5 DEF IsChained, Describes, IsSame
<1>7. QED
  BY <1>2, <1>4, <1>5, <1>6 DEF ToolsInv, ToolTypeOK, ToolHistoryIsExact

LEMMA SaveToolStep ==
  ASSUME ToolsInv, NEW t \in Tools, NEW enabled \in BOOLEAN, NEW seconds \in Timeouts, SaveTool(t, enabled, seconds)
  PROVE  ToolsInv'
<1>1. PICK after, action, none : after = Saved(enabled, seconds) /\ action = "update" /\ none = 0
  OBVIOUS
<1>2. after \in ToolStates
  BY <1>1, TimeoutsAssumption DEF Saved, NormalizedTimeout, DefaultTimeout, MaxTimeout, ToolStates
<1>3. action \in ToolActions /\ none \in Nat
  BY <1>1 DEF ToolActions
<1>4. config'[t] = after
  BY <1>1 DEF ToolsInv, ToolTypeOK, SaveTool
<1>5. ToolChanged(t, action, after, none)
  BY <1>1, <1>4 DEF SaveTool, ToolChanged, MayFollow, Event
<1>6. QED
  BY <1>2, <1>3, <1>5, ToolChanges, Zenon

LEMMA RollbackToolStep ==
  ASSUME ToolsInv, NEW i \in DOMAIN toolLog, RollbackTool(i)
  PROVE  ToolsInv'
<1>1. PICK t, before, action : t = toolLog[i].key /\ before = toolLog[i].before /\ action = "rollback"
  OBVIOUS
<1>2. toolLog[i] \in ToolEvents /\ i \in Nat
  BY DEF ToolsInv, ToolTypeOK
<1>3. t \in Tools /\ before \in ToolStates
  BY <1>1, <1>2 DEF ToolEvents
<1>4. action \in ToolActions
  BY <1>1 DEF ToolActions
<1>5. ToolChanged(t, action, before, i)
  BY <1>1 DEF ToolChanged, RollbackTool, MayReverse, MayFollow, Event
<1>6. QED
  BY <1>2, <1>3, <1>4, <1>5, ToolChanges, Zenon

(* The history of the tools is exact, for any tools and any number of changes. *)
THEOREM ToolHistoriesAreExact == ToolsSpec => []ToolHistoryIsExact
<1>1. ToolsInit => ToolsInv
  <2> SUFFICES ASSUME ToolsInit PROVE ToolsInv
    OBVIOUS
  <2>1. toolLog = <<>> /\ DOMAIN toolLog = {} /\ toolLog \in Seq(ToolEvents)
    BY DEF ToolsInit
  <2>2. config \in [Tools -> ToolStates]
    BY DEF ToolsInit, DefaultTimeout, ToolStates
  <2>3. ToolHistoryIsExact /\ UndoesFit(toolLog)
    BY <2>1 DEF ToolHistoryIsExact, IsChained, Describes, ReversesOnce, UndoesFit
  <2>4. QED
    BY <2>1, <2>2, <2>3 DEF ToolsInv, ToolTypeOK
<1>2. ASSUME ToolsInv, [ToolsNext]_toolVars PROVE ToolsInv'
  <2>1. ASSUME NEW t \in Tools, NEW enabled \in BOOLEAN, NEW seconds \in Timeouts, SaveTool(t, enabled, seconds)
        PROVE  ToolsInv'
    BY <1>2, <2>1, SaveToolStep
  <2>2. ASSUME NEW i \in DOMAIN toolLog, RollbackTool(i) PROVE ToolsInv'
    BY <1>2, <2>2, RollbackToolStep
  <2>3. CASE config' = config /\ toolLog' = toolLog
    BY <1>2, <2>3 DEF ToolsInv, ToolTypeOK, ToolHistoryIsExact, UndoesFit, IsChained, Describes, ReversesOnce, NoneBetween
  <2>4. ResolveTools => config' = config /\ toolLog' = toolLog
    BY DEF ResolveTools
  <2>5. UNCHANGED toolVars => config' = config /\ toolLog' = toolLog
    BY DEF toolVars
  <2>6. QED
    BY <1>2, <2>1, <2>2, <2>3, <2>4, <2>5 DEF ToolsNext
<1>3. ToolsInv => ToolHistoryIsExact
  BY DEF ToolsInv
<1>4. QED
  BY <1>1, <1>2, <1>3, PTL DEF ToolsSpec

-----------------------------------------------------------------------------
(* Skills: what the database has committed *)

\* A tombstone is not enabled.
SkillRows == {r \in RowValues : r.deleted => ~r.enabled}

SkillActions == {"create", "update", "import", "delete", "rollback"}
SkillEvents ==
  [key : Skills, action : SkillActions, before : StateValues \union {NoSkill},
   after : StateValues \union {NoSkill}, undoes : Nat]

Databases ==
  [row : [Skills -> SkillRows \union {NoSkill}], records : Seq(Roots), events : Seq(SkillEvents)]

SameFields(state, row) ==
  state.package = row.package /\ state.enabled = row.enabled /\ state.deleted = row.deleted

(* A state of the history names a record with its files. *)
StateFits(records, k, state) ==
  /\ state.deleted => ~state.enabled
  /\ state.record \in DOMAIN records /\ records[state.record] = <<k, state.package>>

EventFits(d, e) ==
  /\ d.row[e.key] # NoSkill
  /\ e.before # NoSkill => StateFits(d.records, e.key, e.before)
  /\ e.after # NoSkill => StateFits(d.records, e.key, e.after)

HistoryOf(d) ==
  /\ \A k \in Skills : IsChained(d.events, k, Agrees) /\ Describes(d.events, k, d.row[k], Agrees)
  /\ ReversesOnce(d.events)

(* The history of a database is exact, is about skills that have a row, and   *)
(* names records that there are.  A deleted skill has a record.               *)
HistoryFits(d) ==
  /\ d \in Databases
  /\ \A i \in DOMAIN d.events : EventFits(d, d.events[i])
  /\ \A k \in Skills : d.row[k] # NoSkill /\ d.row[k].deleted => Matching(d, k, d.row[k].package) # {}
  /\ UndoesFit(d.events) /\ HistoryOf(d)

Extends(old, new) == \A i \in DOMAIN old : i \in DOMAIN new /\ new[i] = old[i]

(* One transaction: it writes a row, may add a record, and its event found    *)
(* the row there was and left the one there is.                               *)
Transacts(d, e, k, row, records, event) ==
  /\ e = [row |-> [d.row EXCEPT ![k] = row], records |-> records, events |-> Append(d.events, event)]
  /\ k \in Skills /\ row \in SkillRows
  /\ records \in Seq(Roots) /\ Extends(d.records, records)
  /\ event \in SkillEvents /\ event.key = k
  /\ d.row[k] # NoSkill => event.before # NoSkill /\ SameFields(event.before, d.row[k])
  /\ event.before # NoSkill => StateFits(records, k, event.before)
  /\ event.after # NoSkill => StateFits(records, k, event.after)
  /\ Agrees(event.after, row)
  /\ row.deleted => \E i \in DOMAIN records : records[i] = <<k, row.package>>
  /\ MayFollow(d.events, event)

LEMMA RowsAreNot == \A r \in SkillRows : r # NoSkill
  BY SkillsAssumption DEF SkillRows

(* A record of the past is a record after it, so a state that fitted fits. *)
LEMMA StateStays ==
  ASSUME NEW old, NEW new, Extends(old, new), NEW k, NEW state, StateFits(old, k, state)
  PROVE  StateFits(new, k, state)
  BY DEF Extends, StateFits

LEMMA ChangeKeepsTypes ==
  ASSUME NEW d, NEW e, NEW k, NEW row, NEW records, NEW event, HistoryFits(d), Transacts(d, e, k, row, records, event)
  PROVE  /\ e \in Databases /\ e.records = records /\ e.events = Append(d.events, event)
         /\ e.row[k] = row /\ row # NoSkill /\ \A u \in Skills \ {k} : e.row[u] = d.row[u]
         /\ k \in Skills /\ d.events \in Seq(SkillEvents) /\ event \in SkillEvents
<1>1. d.row \in [Skills -> SkillRows \union {NoSkill}] /\ d.events \in Seq(SkillEvents)
  BY DEF HistoryFits, Databases
<1>2. /\ e = [row |-> [d.row EXCEPT ![k] = row], records |-> records, events |-> Append(d.events, event)]
      /\ k \in Skills /\ row \in SkillRows /\ records \in Seq(Roots) /\ event \in SkillEvents
  BY DEF Transacts
<1>3. [d.row EXCEPT ![k] = row] \in [Skills -> SkillRows \union {NoSkill}]
  BY <1>1, <1>2
<1>4. Append(d.events, event) \in Seq(SkillEvents)
  BY <1>1, <1>2
<1>5. e \in Databases
  BY <1>2, <1>3, <1>4 DEF Databases
<1>6. QED
  BY <1>1, <1>2, <1>5, RowsAreNot

LEMMA ChangeKeepsEvents ==
  ASSUME NEW d, NEW e, NEW k, NEW row, NEW records, NEW event, HistoryFits(d), Transacts(d, e, k, row, records, event)
  PROVE  \A i \in DOMAIN e.events : EventFits(e, e.events[i])
<1>1. /\ e.records = records /\ e.events = Append(d.events, event) /\ e.row[k] = row /\ row # NoSkill
      /\ \A u \in Skills \ {k} : e.row[u] = d.row[u]
      /\ d.events \in Seq(SkillEvents) /\ event \in SkillEvents
  BY ChangeKeepsTypes
<1> DEFINE n == Len(d.events) + 1
<1>2. /\ DOMAIN e.events = DOMAIN d.events \union {n} /\ e.events[n] = event
      /\ \A i \in DOMAIN d.events : e.events[i] = d.events[i] /\ d.events[i] \in SkillEvents
  BY <1>1, AppendedLog
<1> HIDE DEF n
<1>3. ASSUME NEW i \in DOMAIN d.events PROVE EventFits(e, d.events[i])
  <2>1. PICK old : old = d.events[i]
    OBVIOUS
  <2>2. EventFits(d, old) /\ old.key \in Skills
    BY <1>2, <2>1 DEF HistoryFits, SkillEvents
  <2>3. e.row[old.key] # NoSkill
    BY <1>1, <2>2 DEF EventFits
  <2>4. Extends(d.records, e.records)
    BY <1>1 DEF Transacts
  <2>5. /\ old.before # NoSkill => StateFits(e.records, old.key, old.before)
        /\ old.after # NoSkill => StateFits(e.records, old.key, old.after)
    BY <2>2, <2>4, StateStays DEF EventFits
  <2>6. QED
    BY <2>1, <2>3, <2>5 DEF EventFits
<1>4. EventFits(e, event)
  BY <1>1 DEF Transacts, EventFits
<1>5. QED
  BY <1>2, <1>3, <1>4

LEMMA ChangeKeepsHistory ==
  ASSUME NEW d, NEW e, NEW k, NEW row, NEW records, NEW event, HistoryFits(d), Transacts(d, e, k, row, records, event)
  PROVE  UndoesFit(e.events) /\ HistoryOf(e)
<1>1. /\ e.events = Append(d.events, event) /\ e.row[k] = row
      /\ \A u \in Skills \ {k} : e.row[u] = d.row[u]
      /\ d.events \in Seq(SkillEvents) /\ event \in SkillEvents
  BY ChangeKeepsTypes
<1> DEFINE n == Len(d.events) + 1
<1>2. /\ DOMAIN e.events = DOMAIN d.events \union {n} /\ e.events[n] = event /\ DOMAIN e.events \subseteq Nat
      /\ \A i \in DOMAIN d.events : e.events[i] = d.events[i] /\ d.events[i] \in SkillEvents /\ i < n
      /\ n \in Nat /\ Len(e.events) = n
  BY <1>1, AppendedLog
<1>3. UndoesFit(e.events) /\ ReversesOnce(e.events)
  <2>1. UndoesFit(d.events) /\ ReversesOnce(d.events) /\ MayFollow(d.events, event)
    BY DEF HistoryFits, HistoryOf, Transacts
  <2>2. QED
    BY <1>1, <2>1, AppendedReverses
<1>4. ASSUME NEW u \in Skills
      PROVE  IsChained(e.events, u, Agrees) /\ Describes(e.events, u, e.row[u], Agrees)
  <2>1. /\ \A i, j : NoneBetween(e.events, u, i, j) => NoneBetween(d.events, u, i, j)
        /\ \A i \in DOMAIN d.events : NoneBetween(e.events, u, i, Len(e.events) + 1)
             => event.key # u /\ NoneBetween(d.events, u, i, Len(d.events) + 1)
    BY <1>1, AppendedBetween
  <2>2. \A i, j \in DOMAIN d.events :
          i < j /\ d.events[i].key = u /\ d.events[j].key = u /\ NoneBetween(d.events, u, i, j)
          => Agrees(d.events[i].after, d.events[j].before)
    BY DEF HistoryFits, HistoryOf, IsChained
  <2>3. \A i \in DOMAIN d.events :
          d.events[i].key = u /\ NoneBetween(d.events, u, i, n) => Agrees(d.events[i].after, d.row[u])
    BY DEF HistoryFits, HistoryOf, Describes
  <2> HIDE DEF n
  <2>4. ASSUME NEW i \in DOMAIN e.events, NEW j \in DOMAIN e.events, i < j, e.events[i].key = u, e.events[j].key = u,
               NoneBetween(e.events, u, i, j)
        PROVE  Agrees(e.events[i].after, e.events[j].before)
    <3>1. NoneBetween(d.events, u, i, j)
      BY <2>1, <2>4
    <3>2. i \in DOMAIN d.events
      BY <1>2, <2>4
    <3>3. CASE j \in DOMAIN d.events
      BY <1>2, <2>2, <2>4, <3>1, <3>2, <3>3
    <3>4. CASE j = n
      <4>1. event.key = u /\ k = u /\ d.events[i].key = u
        BY <1>2, <2>4, <3>2, <3>4 DEF Transacts
      <4>2. Agrees(d.events[i].after, d.row[u])
        BY <2>3, <3>1, <3>2, <3>4, <4>1
      <4>3. d.row[u] # NoSkill
        BY <3>2, <4>1 DEF HistoryFits, EventFits
      <4>4. SameFields(event.before, d.row[u])
        BY <4>1, <4>3 DEF Transacts
      <4>5. Agrees(d.events[i].after, event.before)
        BY <4>2, <4>4 DEF Agrees, SameFields
      <4>6. QED
        BY <1>2, <3>2, <3>4, <4>5
    <3>5. QED
      BY <1>2, <3>3, <3>4
  <2>5. ASSUME NEW i \in DOMAIN e.events, e.events[i].key = u, NoneBetween(e.events, u, i, Len(e.events) + 1)
        PROVE  Agrees(e.events[i].after, e.row[u])
    <3>1. CASE i \in DOMAIN d.events
      <4>1. event.key # u /\ NoneBetween(d.events, u, i, n) /\ d.events[i].key = u
        BY <1>2, <2>1, <2>5, <3>1 DEF n
      <4>2. u # k
        BY <4>1 DEF Transacts
      <4>3. QED
        BY <1>1, <1>2, <2>3, <3>1, <4>1, <4>2
    <3>2. CASE i = n
      BY <1>1, <1>2, <2>5, <3>2 DEF Transacts
    <3>3. QED
      BY <1>2, <3>1, <3>2
  <2>6. QED
    BY <2>4, <2>5 DEF IsChained, Describes
<1>5. QED
  BY <1>3, <1>4 DEF HistoryOf

LEMMA ChangeFits ==
  ASSUME NEW d, NEW e, NEW k, NEW row, NEW records, NEW event, HistoryFits(d), Transacts(d, e, k, row, records, event)
  PROVE  HistoryFits(e)
<1>1. /\ e \in Databases /\ e.records = records /\ e.row[k] = row
      /\ \A u \in Skills \ {k} : e.row[u] = d.row[u]
  BY ChangeKeepsTypes
<1>2. \A i \in DOMAIN e.events : EventFits(e, e.events[i])
  BY ChangeKeepsEvents
<1>3. UndoesFit(e.events) /\ HistoryOf(e)
  BY ChangeKeepsHistory
<1>4. ASSUME NEW u \in Skills, e.row[u] # NoSkill, e.row[u].deleted PROVE Matching(e, u, e.row[u].package) # {}
  <2>1. CASE u = k
    BY <1>1, <1>4, <2>1, ZenonT(60) DEF Transacts, Matching
  <2>2. CASE u # k
    <3>1. Matching(d, u, d.row[u].package) # {} /\ e.row[u] = d.row[u]
      BY <1>1, <1>4, <2>2 DEF HistoryFits
    <3>2. Extends(d.records, e.records)
      BY <1>1 DEF Transacts
    <3>3. QED
      BY <3>1, <3>2 DEF Matching, Extends
  <2>3. QED
    BY <2>1, <2>2
<1>5. QED
  BY <1>1, <1>2, <1>3, <1>4 DEF HistoryFits

(* The record of a package is the newest with its files. *)
LEMMA RetainedIsRecorded ==
  ASSUME NEW d, d \in Databases, NEW k, NEW p, Matching(d, k, p) # {}
  PROVE  Retained(d, k, p) \in DOMAIN d.records /\ Retained(d, k, p) \in Nat /\ d.records[Retained(d, k, p)] = <<k, p>>
<1>1. DOMAIN d.records = 1 .. Len(d.records) /\ Len(d.records) \in Nat
  BY DEF Databases
<1>2. Matching(d, k, p) \subseteq 1 .. Len(d.records) /\ Matching(d, k, p) \subseteq Nat
  BY <1>1 DEF Matching
<1>3. IsFiniteSet(Matching(d, k, p))
  <2>1. 1 \in Int /\ Len(d.records) \in Int
    BY <1>1
  <2>2. IsFiniteSet(1 .. Len(d.records))
    BY <2>1, FS_Interval
  <2>3. QED
    BY <1>2, <2>2, FS_Subset
<1>4. PICK x \in Matching(d, k, p) : \A y \in Matching(d, k, p) : y <= x
  BY <1>2, <1>3, LastExists
<1>5. x \in Matching(d, k, p) /\ \A y \in Matching(d, k, p) : x >= y
  BY <1>2, <1>4
<1>6. Retained(d, k, p) \in Matching(d, k, p)
  BY <1>5 DEF Retained, Max
<1>7. QED
  BY <1>2, <1>6 DEF Matching

(* The state of a row with a record. *)
LEMMA StateOfRow ==
  ASSUME NEW d, d \in Databases, NEW k \in Skills, d.row[k] # NoSkill,
         Matching(d, k, d.row[k].package) # {}
  PROVE  /\ StateOf(d, k) \in StateValues /\ StateOf(d, k) # NoSkill
         /\ StateFits(d.records, k, StateOf(d, k)) /\ SameFields(StateOf(d, k), d.row[k])
<1> DEFINE s == StateOf(d, k)
           n == Retained(d, k, d.row[k].package)
<1>1. n \in DOMAIN d.records /\ n \in Nat /\ d.records[n] = <<k, d.row[k].package>>
  BY RetainedIsRecorded
<1>2. d.row[k] \in SkillRows
  BY DEF Databases
<1>3. /\ d.row[k].package \in Packages /\ d.row[k].enabled \in BOOLEAN /\ d.row[k].deleted \in BOOLEAN
      /\ d.row[k].deleted => ~d.row[k].enabled
  BY <1>2 DEF SkillRows, RowValues
<1> HIDE DEF n
<1>4. s = [package |-> d.row[k].package, enabled |-> d.row[k].enabled, deleted |-> d.row[k].deleted, record |-> n]
  BY DEF StateOf, n
<1> HIDE DEF s
<1>5. s \in StateValues
  BY <1>1, <1>3, <1>4 DEF StateValues
<1>6. s # NoSkill
  BY <1>5, SkillsAssumption
<1>7. StateFits(d.records, k, s) /\ SameFields(s, d.row[k])
  BY <1>1, <1>3, <1>4 DEF StateFits, SameFields
<1>8. QED
  BY <1>5, <1>6, <1>7 DEF s

(* The roots of the past and of the present are on a list of their own. *)
RecordedRoots(d) == {d.records[i] : i \in DOMAIN d.records}

(* A snapshot is of the same rows and events, and has a record for the row.  *)
LEMMA SnapshotFits ==
  ASSUME NEW d, HistoryFits(d), NEW k \in Skills
  PROVE  LET s == Snapshot(d, k) IN
         /\ s \in Databases /\ s.row = d.row /\ s.events = d.events
         /\ Extends(d.records, s.records)
         /\ d.row[k] # NoSkill => Matching(s, k, d.row[k].package) # {}
         /\ RecordedRoots(s) \subseteq RetainedRoots(d)
<1> DEFINE s == Snapshot(d, k)
<1>1. d \in Databases /\ d.records \in Seq(Roots) /\ d.row \in [Skills -> SkillRows \union {NoSkill}]
  BY DEF HistoryFits, Databases
<1>2. CASE d.row[k] = NoSkill \/ Matching(d, k, d.row[k].package) # {}
  <2>1. s = d
    BY <1>2 DEF Snapshot
  <2>2. QED
    BY <1>1, <1>2, <2>1 DEF Extends, RecordedRoots, RetainedRoots
<1>3. CASE d.row[k] # NoSkill /\ Matching(d, k, d.row[k].package) = {}
  <2> DEFINE root == <<k, d.row[k].package>>
  <2>1. d.row[k] \in SkillRows /\ ~d.row[k].deleted
    BY <1>1, <1>3 DEF HistoryFits
  <2>2. root \in Roots /\ root \in RetainedRoots(d)
    BY <1>3, <2>1 DEF Roots, SkillRows, RowValues, RetainedRoots, ActiveRoots
  <2>3. s = [d EXCEPT !.records = Append(@, root)]
    BY <1>3 DEF Snapshot
  <2> HIDE DEF s, root
  <2>4. s \in Databases /\ s.row = d.row /\ s.events = d.events /\ s.records = Append(d.records, root)
    <3>1. Append(d.records, root) \in Seq(Roots)
      BY <1>1, <2>2
    <3>2. s = [row |-> d.row, records |-> Append(d.records, root), events |-> d.events]
      BY <1>1, <2>3 DEF Databases
    <3>3. QED
      BY <1>1, <3>1, <3>2 DEF Databases
  <2>5. /\ DOMAIN s.records = DOMAIN d.records \union {Len(d.records) + 1} /\ s.records[Len(d.records) + 1] = root
        /\ \A i \in DOMAIN d.records : s.records[i] = d.records[i]
    BY <1>1, <2>2, <2>4, AppendedLog
  <2>6. Extends(d.records, s.records)
    BY <2>5 DEF Extends
  <2>7. Matching(s, k, d.row[k].package) # {}
    BY <2>5 DEF Matching, root
  <2>8. RecordedRoots(s) \subseteq RetainedRoots(d)
    BY <2>2, <2>5 DEF RecordedRoots, RetainedRoots
  <2>9. QED
    BY <2>4, <2>6, <2>7, <2>8 DEF s
<1>4. QED
  BY <1>2, <1>3

\* The records, and the root of a row that is alive, are retained already or new.
Covers(d, k, row, records, new) ==
  /\ {records[i] : i \in DOMAIN records} \subseteq RetainedRoots(d) \union new
  /\ row.deleted \/ <<k, row.package>> \in RetainedRoots(d) \union new

(* What a transaction retains: records, and the rows it left alone. *)
LEMMA ChangeRetains ==
  ASSUME NEW d, NEW e, NEW k, NEW row, NEW records, NEW event, HistoryFits(d), Transacts(d, e, k, row, records, event),
         NEW new, Covers(d, k, row, e.records, new)
  PROVE  RetainedRoots(e) \subseteq RetainedRoots(d) \union new
<1>1. e.row[k] = row /\ \A u \in Skills \ {k} : e.row[u] = d.row[u]
  BY ChangeKeepsTypes
<1>2. ASSUME NEW u \in Skills, e.row[u] # NoSkill, ~e.row[u].deleted
      PROVE  <<u, e.row[u].package>> \in RetainedRoots(d) \union new
  <2>1. CASE u = k
    BY <1>1, <1>2, <2>1 DEF Covers
  <2>2. CASE u # k
    <3>1. <<u, d.row[u].package>> \in ActiveRoots(d)
      BY <1>1, <1>2, <2>2 DEF ActiveRoots
    <3>2. QED
      BY <1>1, <2>2, <3>1 DEF RetainedRoots
  <2>3. QED
    BY <2>1, <2>2
<1>3. ActiveRoots(e) \subseteq RetainedRoots(d) \union new
  BY <1>2 DEF ActiveRoots
<1>4. QED
  BY <1>3 DEF RetainedRoots, Covers

\* An item of a save, and the root its package is written to.
Items == [skill : Skills, package : Packages, action : SkillActions, enabled : SUBSET BOOLEAN]
RootOf(item) == <<item.skill, item.package>>

LEMMA PatchIsBoolean ==
  ASSUME NEW patched \in SUBSET BOOLEAN, NEW value \in BOOLEAN
  PROVE  PatchedField(patched, value) \in BOOLEAN
<1>1. CASE patched = {}
  BY <1>1 DEF PatchedField
<1>2. CASE patched # {}
  <2>1. (CHOOSE v \in patched : TRUE) \in patched
    BY <1>2
  <2>2. QED
    BY <1>2, <2>1 DEF PatchedField
<1>3. QED
  BY <1>1, <1>2

Stages(d, k, s, saved, row, before, new) ==
  /\ k \in Skills /\ s = Snapshot(d, k)
  /\ saved \in Databases /\ saved.events = s.events
  /\ saved.row = [s.row EXCEPT ![k] = row] /\ saved.row[k] = row /\ row \in SkillRows
  /\ Extends(s.records, saved.records) /\ Matching(saved, k, row.package) # {}
  /\ before = IF s.row[k] = NoSkill THEN NoSkill ELSE StateOf(s, k)
  /\ Covers(d, k, row, saved.records, new)

(* A transaction in its stages: a snapshot s of the database d, and saved,    *)
(* which has another row of one skill and maybe a record more; then its event. *)
LEMMA SavedFits ==
  ASSUME NEW d, HistoryFits(d), NEW k, NEW s, NEW saved, NEW row, NEW before, NEW new,
         Stages(d, k, s, saved, row, before, new), NEW action \in SkillActions
  PROVE  LET e == Audited(saved, k, action, before, StateOf(saved, k), 0) IN
         HistoryFits(e) /\ RetainedRoots(e) \subseteq RetainedRoots(d) \union new
<1>0. /\ k \in Skills /\ s = Snapshot(d, k)
      /\ saved \in Databases /\ saved.events = s.events
      /\ saved.row = [s.row EXCEPT ![k] = row] /\ saved.row[k] = row /\ row \in SkillRows
      /\ Extends(s.records, saved.records) /\ Matching(saved, k, row.package) # {}
      /\ before = IF s.row[k] = NoSkill THEN NoSkill ELSE StateOf(s, k)
      /\ Covers(d, k, row, saved.records, new)
  BY DEF Stages
<1> DEFINE e == Audited(saved, k, action, before, StateOf(saved, k), 0)
<1>1. /\ s \in Databases /\ s.row = d.row /\ s.events = d.events /\ Extends(d.records, s.records)
      /\ d.row[k] # NoSkill => Matching(s, k, d.row[k].package) # {}
  BY <1>0, SnapshotFits
<1>2. /\ d.row \in [Skills -> SkillRows \union {NoSkill}] /\ d.events \in Seq(SkillEvents)
      /\ saved.records \in Seq(Roots) /\ saved.row \in [Skills -> SkillRows \union {NoSkill}]
  BY <1>0 DEF HistoryFits, Databases
<1>3. Extends(d.records, saved.records)
  BY <1>0, <1>1 DEF Extends
<1>4. /\ StateOf(saved, k) \in StateValues /\ StateOf(saved, k) # NoSkill
      /\ StateFits(saved.records, k, StateOf(saved, k)) /\ SameFields(StateOf(saved, k), row)
  <2>1. saved.row[k] # NoSkill
    BY <1>0, RowsAreNot
  <2>2. QED
    BY <1>0, <2>1, StateOfRow
<1>5. d.row[k] # NoSkill => /\ before \in StateValues /\ before # NoSkill
                            /\ StateFits(saved.records, k, before) /\ SameFields(before, d.row[k])
  <2>1. SUFFICES ASSUME d.row[k] # NoSkill
                 PROVE  /\ before \in StateValues /\ before # NoSkill
                        /\ StateFits(saved.records, k, before) /\ SameFields(before, d.row[k])
    OBVIOUS
  <2>2. before = StateOf(s, k)
    BY <1>0, <1>1, <2>1
  <2>3. /\ StateOf(s, k) \in StateValues /\ StateOf(s, k) # NoSkill
        /\ StateFits(s.records, k, StateOf(s, k)) /\ SameFields(StateOf(s, k), d.row[k])
    BY <1>0, <1>1, <2>1, StateOfRow
  <2>4. StateFits(saved.records, k, StateOf(s, k))
    BY <1>0, <2>3, StateStays
  <2>5. QED
    BY <2>2, <2>3, <2>4
<1>6. d.row[k] = NoSkill => before = NoSkill
  BY <1>0, <1>1
<1>7. PICK after : after = StateOf(saved, k)
  OBVIOUS
<1>8. PICK event : event = Event(k, action, before, after, 0)
  OBVIOUS
<1>9. /\ event = [key |-> k, action |-> action, before |-> before, after |-> after, undoes |-> 0]
      /\ event \in SkillEvents
  BY <1>0, <1>4, <1>5, <1>6, <1>7, <1>8 DEF Event, SkillEvents
<1>10. e = [row |-> [d.row EXCEPT ![k] = row], records |-> saved.records, events |-> Append(d.events, event)]
  <2>1. e = [saved EXCEPT !.events = Append(@, event)]
    BY <1>7, <1>8 DEF Audited
  <2> HIDE DEF e
  <2>2. e = [row |-> saved.row, records |-> saved.records, events |-> Append(saved.events, event)]
    BY <1>0, <2>1 DEF Databases
  <2>3. saved.row = [d.row EXCEPT ![k] = row] /\ saved.events = d.events
    BY <1>0, <1>1
  <2>4. QED
    BY <2>2, <2>3
<1> HIDE DEF e
<1>11. Agrees(after, row)
  BY <1>4, <1>7 DEF Agrees, SameFields
<1>12. Transacts(d, e, k, row, saved.records, event)
  <2>1. row.deleted => \E i \in DOMAIN saved.records : saved.records[i] = <<k, row.package>>
    BY <1>0 DEF Matching
  <2>2. MayFollow(d.events, event)
    BY <1>9 DEF MayFollow
  <2>3. QED
    <3>1. event.key = k /\ event.before = before /\ event.after = after
      BY <1>9
    <3>2. d.row[k] # NoSkill => event.before # NoSkill /\ SameFields(event.before, d.row[k])
      BY <1>5, <3>1
    <3>3. event.before # NoSkill => StateFits(saved.records, k, event.before)
      BY <1>5, <1>6, <3>1
    <3>4. StateFits(saved.records, k, event.after) /\ Agrees(event.after, row)
      BY <1>4, <1>7, <1>11, <3>1
    <3>5. QED
      BY <1>0, <1>2, <1>3, <1>9, <1>10, <2>1, <2>2, <3>1, <3>2, <3>3, <3>4 DEF Transacts
<1>13. Covers(d, k, row, e.records, new)
  BY <1>0, <1>10
<1>14. HistoryFits(e)
  BY <1>12, ChangeFits
<1>15. RetainedRoots(e) \subseteq RetainedRoots(d) \union new
  BY <1>12, <1>13, ChangeRetains
<1>16. QED
  BY <1>14, <1>15 DEF e

(* A saved package is recorded, and nothing else is retained more than before. *)
LEMMA SavedPackageFits ==
  ASSUME NEW d, HistoryFits(d), NEW item \in Items
  PROVE  /\ HistoryFits(SavedPackage(d, item))
         /\ RetainedRoots(SavedPackage(d, item)) \subseteq RetainedRoots(d) \union {RootOf(item)}
<1>1. PICK k, s, row, before : /\ k = item.skill /\ s = Snapshot(d, k) /\ row = Merged(s.row[k], item)
                               /\ before = IF s.row[k] = NoSkill THEN NoSkill ELSE StateOf(s, k)
  OBVIOUS
<1>2. PICK saved : saved = Upserted(s, k, row)
  OBVIOUS
<1>3. k \in Skills /\ item.package \in Packages /\ item.action \in SkillActions /\ item.enabled \in SUBSET BOOLEAN
  BY <1>1 DEF Items
<1>4. /\ s \in Databases /\ s.row = d.row /\ s.events = d.events
      /\ RecordedRoots(s) \subseteq RetainedRoots(d)
  BY <1>1, <1>3, SnapshotFits
<1>5. s.row \in [Skills -> SkillRows \union {NoSkill}] /\ s.records \in Seq(Roots)
  BY <1>4 DEF Databases
<1>6. row \in SkillRows /\ row.package = item.package /\ ~row.deleted
  <2>1. (s.row[k] # NoSkill /\ s.row[k].enabled) \in BOOLEAN
    OBVIOUS
  <2>2. PatchedField(item.enabled, s.row[k] # NoSkill /\ s.row[k].enabled) \in BOOLEAN
    BY <1>3, <2>1, PatchIsBoolean
  <2>3. QED
    BY <1>1, <1>3, <2>2 DEF Merged, SkillRows, RowValues
<1>7. <<k, row.package>> = RootOf(item) /\ RootOf(item) \in Roots
  BY <1>1, <1>3, <1>6 DEF RootOf, Roots
<1>8. saved = [row |-> [s.row EXCEPT ![k] = row], records |-> Append(s.records, RootOf(item)), events |-> s.events]
  <2>1. saved = [s EXCEPT !.row[k] = row, !.records = Append(@, RootOf(item))]
    BY <1>2, <1>7 DEF Upserted
  <2>2. QED
    BY <1>4, <2>1 DEF Databases
<1>9. saved \in Databases /\ saved.row[k] = row
  <2>1. [s.row EXCEPT ![k] = row] \in [Skills -> SkillRows \union {NoSkill}]
    BY <1>5, <1>6
  <2>2. Append(s.records, RootOf(item)) \in Seq(Roots)
    BY <1>5, <1>7
  <2>3. QED
    BY <1>3, <1>4, <1>5, <1>8, <2>1, <2>2 DEF Databases
<1>10. /\ DOMAIN saved.records = DOMAIN s.records \union {Len(s.records) + 1}
       /\ saved.records[Len(s.records) + 1] = RootOf(item)
       /\ \A i \in DOMAIN s.records : saved.records[i] = s.records[i]
  BY <1>5, <1>7, <1>8, AppendedLog
<1>11. Extends(s.records, saved.records) /\ Matching(saved, k, row.package) # {}
  BY <1>7, <1>10 DEF Extends, Matching
<1>12. RecordedRoots(saved) \subseteq RetainedRoots(d) \union {RootOf(item)}
  BY <1>4, <1>10 DEF RecordedRoots
<1>13. SavedPackage(d, item) = Audited(saved, k, item.action, before, StateOf(saved, k), 0)
  BY <1>1, <1>2 DEF SavedPackage
<1>14. saved.row = [s.row EXCEPT ![k] = row] /\ saved.events = s.events
  BY <1>8
<1>15. Stages(d, k, s, saved, row, before, {RootOf(item)})
  <2>1. Covers(d, k, row, saved.records, {RootOf(item)})
    BY <1>7, <1>12 DEF Covers, RecordedRoots
  <2>2. QED
    BY <1>1, <1>3, <1>6, <1>9, <1>11, <1>14, <2>1 DEF Stages
<1>16. PICK action \in SkillActions : action = item.action
  BY <1>3
<1>17. QED
  BY <1>13, <1>15, <1>16, SavedFits

(* Saving item after item saves the packages of all. *)
LEMMA SavedPackagesFit ==
  ASSUME NEW d, HistoryFits(d), NEW items \in Seq(Items)
  PROVE  /\ HistoryFits(SavedPackages(d, items))
         /\ RetainedRoots(SavedPackages(d, items))
              \subseteq RetainedRoots(d) \union {RootOf(items[i]) : i \in DOMAIN items}
<1> DEFINE Saves(m, f) == f = [n \in 0 .. m |-> IF n = 0 THEN d ELSE SavedPackage(f[n - 1], items[n])]
           Exist == {m \in Nat : \E f : Saves(m, f)}
           N == Len(items)
           all == {RootOf(items[i]) : i \in DOMAIN items}
<1>1. 0 \in Exist
  <2> DEFINE f == [n \in 0 .. 0 |-> d]
  <2>1. Saves(0, f)
    OBVIOUS
  <2>2. QED
    BY <2>1
<1>2. ASSUME NEW m \in Nat, m \in Exist PROVE m + 1 \in Exist
  <2>1. PICK f : Saves(m, f)
    BY <1>2
  <2> DEFINE g == [n \in 0 .. m + 1 |-> IF n = 0 THEN d ELSE SavedPackage(f[n - 1], items[n])]
             h == [n \in 0 .. m + 1 |-> IF n = 0 THEN d ELSE SavedPackage(g[n - 1], items[n])]
  <2>2. ASSUME NEW n \in 0 .. m + 1, n # 0 PROVE g[n - 1] = f[n - 1]
    <3>1. n - 1 \in 0 .. m /\ n - 1 \in 0 .. m + 1
      BY <2>2
    <3>2. QED
      BY <2>1, <3>1
  <2>3. \A n \in 0 .. m + 1 : g[n] = h[n]
    BY <2>2
  <2>4. g = h
    BY <2>3
  <2>5. Saves(m + 1, g)
    BY <2>4
  <2> HIDE DEF g
  <2>6. QED
    BY <2>5, SMTT(30)
<1> HIDE DEF Exist
<1>3. N \in Nat /\ DOMAIN items = 1 .. N /\ \A i \in 1 .. N : items[i] \in Items
  OBVIOUS
<1>4. \E f : Saves(N, f)
  <2>1. N \in Exist
    BY <1>1, <1>2, <1>3, NumberInduction
  <2>2. QED
    BY <2>1 DEF Exist
<1> DEFINE saved == CHOOSE f : Saves(N, f)
<1>5. Saves(N, saved)
  BY <1>4
<1>6. SavedPackages(d, items) = saved[N]
  BY DEF SavedPackages
<1> HIDE DEF saved, N
<1> DEFINE Good == {n \in Nat : n <= N =>
                     HistoryFits(saved[n]) /\ RetainedRoots(saved[n]) \subseteq RetainedRoots(d) \union all}
<1> HIDE DEF all
<1>7. 0 \in Good
  <2>1. 0 \in 0 .. N
    BY <1>3
  <2>2. saved[0] = d
    BY <1>5, <2>1
  <2>3. QED
    BY <2>2
<1>8. ASSUME NEW n \in Nat, n \in Good PROVE n + 1 \in Good
  <2>1. SUFFICES ASSUME n + 1 <= N
                 PROVE  /\ HistoryFits(saved[n + 1])
                        /\ RetainedRoots(saved[n + 1]) \subseteq RetainedRoots(d) \union all
    OBVIOUS
  <2>2. n + 1 \in 0 .. N /\ n + 1 \in 1 .. N /\ n + 1 # 0 /\ (n + 1) - 1 = n /\ n <= N
    BY <1>3, <2>1
  <2>3. saved[n + 1] = SavedPackage(saved[n], items[n + 1])
    BY <1>5, <2>2
  <2>4. HistoryFits(saved[n]) /\ RetainedRoots(saved[n]) \subseteq RetainedRoots(d) \union all
    BY <1>8, <2>2
  <2>5. items[n + 1] \in Items /\ RootOf(items[n + 1]) \in all
    BY <1>3, <2>2 DEF all
  <2>6. PICK b, item : b = saved[n] /\ item = items[n + 1]
    OBVIOUS
  <2>7. /\ HistoryFits(SavedPackage(b, item))
        /\ RetainedRoots(SavedPackage(b, item)) \subseteq RetainedRoots(b) \union {RootOf(item)}
    BY <2>4, <2>5, <2>6, SavedPackageFits
  <2>8. QED
    BY <2>3, <2>4, <2>5, <2>6, <2>7
<1> HIDE DEF Good
<1>9. N \in Good
  BY <1>3, <1>7, <1>8, NumberInduction
<1>10. QED
  BY <1>3, <1>6, <1>9 DEF Good, all

(* A patch of the metadata of a known skill, and its deletion, retain no more. *)
LEMMA PatchedFits ==
  ASSUME NEW d, HistoryFits(d), NEW k \in Skills, d.row[k] # NoSkill, ~d.row[k].deleted,
         NEW enabled \in SUBSET BOOLEAN
  PROVE  /\ HistoryFits(PatchedMetadata(d, k, enabled))
         /\ RetainedRoots(PatchedMetadata(d, k, enabled)) \subseteq RetainedRoots(d)
<1>1. PICK s, row, before, action :
         /\ s = Snapshot(d, k) /\ row = [s.row[k] EXCEPT !.enabled = PatchedField(enabled, @)]
         /\ before = StateOf(s, k) /\ action = "update"
  OBVIOUS
<1>2. PICK saved : saved = [s EXCEPT !.row[k].enabled = PatchedField(enabled, @)]
  OBVIOUS
<1>3. /\ s \in Databases /\ s.row = d.row /\ s.events = d.events /\ Matching(s, k, d.row[k].package) # {}
      /\ RecordedRoots(s) \subseteq RetainedRoots(d)
  BY <1>1, SnapshotFits
<1>4. s.row \in [Skills -> SkillRows \union {NoSkill}] /\ s.row[k] \in SkillRows
  BY <1>3 DEF Databases
<1>5. row \in SkillRows /\ row.package = d.row[k].package /\ ~row.deleted
  <2>1. s.row[k] \in RowValues /\ ~s.row[k].deleted
    BY <1>3, <1>4 DEF SkillRows
  <2>2. PatchedField(enabled, s.row[k].enabled) \in BOOLEAN
    BY <2>1, PatchIsBoolean DEF RowValues
  <2>3. row = [s.row[k] EXCEPT !.enabled = PatchedField(enabled, s.row[k].enabled)]
    BY <1>1
  <2>4. row \in RowValues /\ row.package = s.row[k].package /\ row.deleted = s.row[k].deleted
    BY <2>1, <2>2, <2>3 DEF RowValues
  <2>5. QED
    BY <1>3, <2>1, <2>4 DEF SkillRows
<1>6. saved = [row |-> [s.row EXCEPT ![k] = row], records |-> s.records, events |-> s.events]
  BY <1>1, <1>2, <1>3, <1>4 DEF Databases
<1>7. saved \in Databases /\ saved.row[k] = row
  <2>1. [s.row EXCEPT ![k] = row] \in [Skills -> SkillRows \union {NoSkill}]
    BY <1>4, <1>5
  <2>2. QED
    BY <1>3, <1>4, <1>6, <2>1 DEF Databases
<1>8. Matching(saved, k, row.package) # {} /\ Extends(s.records, saved.records)
  BY <1>3, <1>5, <1>6 DEF Matching, Extends
<1>9. Covers(d, k, row, saved.records, {})
  <2>1. <<k, d.row[k].package>> \in RetainedRoots(d)
    BY DEF RetainedRoots, ActiveRoots
  <2>2. QED
    BY <1>3, <1>5, <1>6, <2>1 DEF Covers, RecordedRoots
<1>10. Stages(d, k, s, saved, row, before, {})
  BY <1>1, <1>3, <1>5, <1>6, <1>7, <1>8, <1>9 DEF Stages
<1>11. PatchedMetadata(d, k, enabled) = Audited(saved, k, action, before, StateOf(saved, k), 0)
  BY <1>1, <1>2 DEF PatchedMetadata
<1>12. action \in SkillActions
  BY <1>1 DEF SkillActions
<1>13. QED
  BY <1>10, <1>11, <1>12, SavedFits

LEMMA DeletedFits ==
  ASSUME NEW d, HistoryFits(d), NEW k \in Skills, d.row[k] # NoSkill
  PROVE  HistoryFits(Deleted(d, k)) /\ RetainedRoots(Deleted(d, k)) \subseteq RetainedRoots(d)
<1>1. PICK s, row, before, action :
         s = Snapshot(d, k) /\ row = Tombstone(s.row[k]) /\ before = StateOf(s, k) /\ action = "delete"
  OBVIOUS
<1>2. PICK saved : saved = [s EXCEPT !.row[k] = Tombstone(@)]
  OBVIOUS
<1>3. /\ s \in Databases /\ s.row = d.row /\ s.events = d.events /\ Matching(s, k, d.row[k].package) # {}
      /\ RecordedRoots(s) \subseteq RetainedRoots(d)
  BY <1>1, SnapshotFits
<1>4. s.row \in [Skills -> SkillRows \union {NoSkill}] /\ s.row[k] \in SkillRows
  BY <1>3 DEF Databases
<1>5. row \in SkillRows /\ row.package = d.row[k].package /\ row.deleted
  BY <1>1, <1>3, <1>4 DEF SkillRows, RowValues, Tombstone
<1>6. saved = [row |-> [s.row EXCEPT ![k] = row], records |-> s.records, events |-> s.events]
  BY <1>1, <1>2, <1>3, <1>4 DEF Databases
<1>7. saved \in Databases /\ saved.row[k] = row
  <2>1. [s.row EXCEPT ![k] = row] \in [Skills -> SkillRows \union {NoSkill}]
    BY <1>4, <1>5
  <2>2. QED
    BY <1>3, <1>4, <1>6, <2>1 DEF Databases
<1>8. Matching(saved, k, row.package) # {} /\ Extends(s.records, saved.records)
  BY <1>3, <1>5, <1>6 DEF Matching, Extends
<1>9. Covers(d, k, row, saved.records, {})
  BY <1>3, <1>5, <1>6 DEF Covers, RecordedRoots
<1>10. Stages(d, k, s, saved, row, before, {})
  BY <1>1, <1>3, <1>5, <1>6, <1>7, <1>8, <1>9 DEF Stages
<1>11. Deleted(d, k) = Audited(saved, k, action, before, StateOf(saved, k), 0)
  BY <1>1, <1>2 DEF Deleted
<1>12. action \in SkillActions
  BY <1>1 DEF SkillActions
<1>13. QED
  BY <1>10, <1>11, <1>12, SavedFits

(* A rollback restores a state whose record there is. *)
LEMMA RolledBackFits ==
  ASSUME NEW d, HistoryFits(d), NEW i \in DOMAIN d.events, MayRollback(d, i)
  PROVE  HistoryFits(RolledBack(d, i)) /\ RetainedRoots(RolledBack(d, i)) \subseteq RetainedRoots(d)
<1>1. PICK source : source = d.events[i]
  OBVIOUS
<1>2. PICK k, old, row, state, action :
         /\ k = source.key /\ old = d.row[k] /\ row = Restored(old, source.before)
         /\ state = StateOf(d, k) /\ action = "rollback"
  OBVIOUS
<1>3. /\ d \in Databases /\ d.events \in Seq(SkillEvents) /\ d.records \in Seq(Roots)
      /\ d.row \in [Skills -> SkillRows \union {NoSkill}]
  BY DEF HistoryFits, Databases
<1>4. source \in SkillEvents /\ EventFits(d, source) /\ i \in Nat /\ i # 0
  BY <1>1, <1>3 DEF HistoryFits
<1>5. /\ k \in Skills /\ source.before \in StateValues \union {NoSkill}
      /\ source.after \in StateValues \union {NoSkill}
      /\ old \in SkillRows /\ old # NoSkill
      /\ source.before # NoSkill => StateFits(d.records, k, source.before)
  BY <1>2, <1>3, <1>4 DEF SkillEvents, EventFits
<1>6. Matching(d, k, old.package) # {} /\ state = source.after /\ ~AlreadyRolledBack(d.events, i)
  BY <1>1, <1>2 DEF MayRollback
<1>7. /\ state \in StateValues /\ state # NoSkill
      /\ StateFits(d.records, k, state) /\ SameFields(state, old)
  BY <1>2, <1>3, <1>5, <1>6, StateOfRow
<1>8. row \in SkillRows /\ Agrees(source.before, row) /\ \E x \in DOMAIN d.records : d.records[x] = <<k, row.package>>
  <2>1. CASE source.before = NoSkill
    <3>1. row = Tombstone(old)
      BY <1>2, <2>1 DEF Restored
    <3>2. row \in SkillRows /\ row.deleted /\ row.package = old.package
      BY <1>5, <3>1 DEF Tombstone, SkillRows, RowValues
    <3>3. \E x \in DOMAIN d.records : d.records[x] = <<k, row.package>>
      BY <1>6, <3>2 DEF Matching
    <3>4. QED
      BY <2>1, <3>2, <3>3 DEF Agrees
  <2>2. CASE source.before # NoSkill
    <3>1. PICK before : before = source.before
      OBVIOUS
    <3>2. before \in StateValues /\ before # NoSkill /\ StateFits(d.records, k, before)
      BY <1>5, <2>2, <3>1
    <3> DEFINE active == [package |-> before.package, enabled |-> before.enabled, deleted |-> FALSE]
    <3>3. row = IF before.deleted THEN Tombstone(active) ELSE active
      BY <1>2, <3>1, <3>2 DEF Restored
    <3>4. /\ before.package \in Packages /\ before.enabled \in BOOLEAN /\ before.deleted \in BOOLEAN
          /\ before.deleted => ~before.enabled
          /\ before.record \in DOMAIN d.records /\ d.records[before.record] = <<k, before.package>>
      BY <3>2 DEF StateValues, StateFits
    <3>5. row = [package |-> before.package, enabled |-> before.enabled, deleted |-> before.deleted]
      BY <3>3, <3>4 DEF Tombstone
    <3>6. row \in SkillRows
      BY <3>4, <3>5 DEF SkillRows, RowValues
    <3>7. Agrees(before, row)
      BY <3>2, <3>5 DEF Agrees
    <3>8. QED
      BY <3>1, <3>4, <3>5, <3>6, <3>7
  <2>3. QED
    BY <2>1, <2>2
<1>9. PICK event : event = Event(k, action, state, source.before, i)
  OBVIOUS
<1>10. /\ event = [key |-> k, action |-> action, before |-> state, after |-> source.before, undoes |-> i]
       /\ event \in SkillEvents
  BY <1>2, <1>4, <1>5, <1>7, <1>9 DEF Event, SkillEvents, SkillActions
<1> DEFINE e == RolledBack(d, i)
<1>11. e = [row |-> [d.row EXCEPT ![k] = row], records |-> d.records, events |-> Append(d.events, event)]
  <2> DEFINE saved == [d EXCEPT !.row[k] = row]
  <2>1. saved = [row |-> [d.row EXCEPT ![k] = row], records |-> d.records, events |-> d.events]
    BY <1>3, SMTT(30) DEF Databases
  <2>2. e = Audited(saved, k, action, state, source.before, i)
    BY <1>1, <1>2 DEF RolledBack
  <2> HIDE DEF e, saved
  <2>3. e = [saved EXCEPT !.events = Append(@, event)]
    BY <1>9, <2>2 DEF Audited
  <2>4. QED
    BY <2>1, <2>3
<1> HIDE DEF e
<1>12. Transacts(d, e, k, row, d.records, event)
  <2>1. event.key = k /\ event.before = state /\ event.after = source.before /\ event.undoes = i
    BY <1>10
  <2>2. MayFollow(d.events, event)
    BY <1>1, <1>6, <2>1 DEF MayFollow
  <2>3. Extends(d.records, d.records)
    BY DEF Extends
  <2>4. SameFields(event.before, d.row[k]) /\ StateFits(d.records, k, event.before) /\ event.before # NoSkill
    BY <1>2, <1>7, <2>1
  <2>5. event.after # NoSkill => StateFits(d.records, k, event.after)
    BY <1>5, <2>1
  <2>6. QED
    BY <1>3, <1>5, <1>8, <1>10, <1>11, <2>1, <2>2, <2>3, <2>4, <2>5 DEF Transacts
<1>13. Covers(d, k, row, e.records, {})
  BY <1>8, <1>11 DEF Covers, RetainedRoots
<1>14. QED
  BY <1>12, <1>13, ChangeFits, ChangeRetains DEF e

-----------------------------------------------------------------------------
(* Skills: packages on disk *)

Tasks == [step : {"decided", "saving"}, items : Seq(Items), written : Nat]

\* What a request has decided, and the roots it has written while it held the mutex.
TaskFits(w, files) ==
  \/ w = AwayFromDesk
  \/ /\ w \in Tasks /\ w.items # <<>> /\ w.written <= Len(w.items)
     /\ w.step = "decided" => w.written = 0
     /\ w.step = "saving" => \A i \in DOMAIN w.items : i <= w.written => files[RootOf(w.items[i])] = "whole"

OneHoldsMutex(desks) == \A c, x \in Clerks : desks[c].step = "saving" /\ desks[x].step = "saving" => c = x

(* The database fits, every root it retains is whole, and so is what the     *)
(* request that holds the mutex has written.                                 *)
PackagesInv ==
  /\ HistoryFits(db)
  /\ disk \in [Roots -> {"none", "partial", "whole"}]
  /\ \A root \in RetainedRoots(db) : disk[root] = "whole"
  /\ DOMAIN clerk = Clerks /\ OneHoldsMutex(clerk)
  /\ \A c \in Clerks : TaskFits(clerk[c], disk)

LEMMA RetainedAreRoots ==
  ASSUME NEW d, HistoryFits(d)
  PROVE  RetainedRoots(d) \subseteq Roots
<1>1. d.records \in Seq(Roots) /\ d.row \in [Skills -> SkillRows \union {NoSkill}]
  BY DEF HistoryFits, Databases
<1>2. ActiveRoots(d) \subseteq Roots
  BY <1>1 DEF ActiveRoots, Roots, SkillRows, RowValues
<1>3. QED
  BY <1>1, <1>2 DEF RetainedRoots

(* A step that only changes the database: the mutex may be held by a save. *)
LEMMA CommitKeeps ==
  ASSUME PackagesInv, disk' = disk, clerk' = clerk,
         NEW d, db' = d, HistoryFits(d), RetainedRoots(d) \subseteq RetainedRoots(db)
  PROVE  PackagesInv'
<1>1. HistoryFits(db') /\ \A root \in RetainedRoots(db') : disk'[root] = "whole"
  BY DEF PackagesInv
<1>2. OneHoldsMutex(clerk') /\ \A c \in Clerks : TaskFits(clerk'[c], disk')
  BY DEF PackagesInv
<1>3. QED
  BY <1>1, <1>2 DEF PackagesInv

LEMMA DecideStep ==
  ASSUME PackagesInv, NEW c \in Clerks, NEW items \in Seq(Items), items # <<>>, Decide(c, items)
  PROVE  PackagesInv'
<1> DEFINE w == [step |-> "decided", items |-> items, written |-> 0]
<1>1. clerk' = [clerk EXCEPT ![c] = w] /\ db' = db /\ disk' = disk
  BY DEF Decide
<1>2. TaskFits(w, disk')
  BY DEF TaskFits, Tasks
<1>3. w.step = "decided"
  OBVIOUS
<1> HIDE DEF w
<1>4. DOMAIN clerk' = Clerks /\ clerk'[c] = w /\ \A x \in Clerks \ {c} : clerk'[x] = clerk[x]
  BY <1>1 DEF PackagesInv
<1>5. OneHoldsMutex(clerk')
  BY <1>3, <1>4 DEF PackagesInv, OneHoldsMutex
<1>6. \A x \in Clerks : TaskFits(clerk'[x], disk')
  BY <1>1, <1>2, <1>4 DEF PackagesInv
<1>7. HistoryFits(db') /\ \A root \in RetainedRoots(db') : disk'[root] = "whole"
  BY <1>1 DEF PackagesInv
<1>8. QED
  BY <1>1, <1>4, <1>5, <1>6, <1>7 DEF PackagesInv

LEMMA ItemIsItem ==
  ASSUME NEW k \in Skills, NEW p \in Packages, NEW action \in SkillActions, NEW enabled \in SUBSET BOOLEAN
  PROVE  <<Item(k, p, action, enabled)>> \in Seq(Items) /\ <<Item(k, p, action, enabled)>> # <<>>
<1>1. Item(k, p, action, enabled) \in Items
  BY DEF Item, Items
<1>2. QED
  BY <1>1

LEMMA ImportedIsItem ==
  ASSUME PackagesInv, NEW k \in Skills, NEW p \in Packages
  PROVE  Imported(k, p) \in Items
  BY DEF Imported, Item, Items, SkillActions

LEMMA DecisionSteps ==
  ASSUME PackagesInv, NEW c \in Clerks,
         \/ \E k \in Skills, p \in Packages, enabled \in BOOLEAN : CreateManual(c, k, p, enabled)
         \/ \E k \in Skills, p \in Packages, enabled \in {{}, {FALSE}} : UpdateContent(c, k, p, enabled)
         \/ \E some \in SUBSET Skills : \E chosen \in [some -> Packages] : ImportPackages(c, chosen)
         \/ \E k \in Skills, p \in Packages : UpdatePackage(c, k, p)
  PROVE  PackagesInv'
<1>1. SUFFICES \E items \in Seq(Items) : items # <<>> /\ Decide(c, items)
  BY DecideStep
<1>2. ASSUME NEW k \in Skills, NEW p \in Packages, NEW enabled \in BOOLEAN, CreateManual(c, k, p, enabled)
      PROVE  \E items \in Seq(Items) : items # <<>> /\ Decide(c, items)
  <2>1. PICK action : action = IF Known(k) THEN "update" ELSE "create"
    OBVIOUS
  <2>2. action \in SkillActions /\ {enabled} \in SUBSET BOOLEAN
    BY <2>1 DEF SkillActions
  <2>3. <<Item(k, p, action, {enabled})>> \in Seq(Items) /\ <<Item(k, p, action, {enabled})>> # <<>>
    BY <2>2, ItemIsItem
  <2>4. QED
    BY <1>2, <2>1, <2>3 DEF CreateManual
<1>3. ASSUME NEW k \in Skills, NEW p \in Packages, NEW enabled \in {{}, {FALSE}}, UpdateContent(c, k, p, enabled)
      PROVE  \E items \in Seq(Items) : items # <<>> /\ Decide(c, items)
  <2>1. PICK action : action = "update"
    OBVIOUS
  <2>2. action \in SkillActions /\ enabled \in SUBSET BOOLEAN
    BY <2>1 DEF SkillActions
  <2>3. <<Item(k, p, action, enabled)>> \in Seq(Items) /\ <<Item(k, p, action, enabled)>> # <<>>
    BY <2>2, ItemIsItem
  <2>4. QED
    BY <1>3, <2>1, <2>3 DEF UpdateContent
<1>4. ASSUME NEW some \in SUBSET Skills, NEW chosen \in [some -> Packages], ImportPackages(c, chosen)
      PROVE  \E items \in Seq(Items) : items # <<>> /\ Decide(c, items)
  <2> DEFINE news == {k \in DOMAIN chosen : ~(Known(k) /\ db.row[k].package = chosen[k])}
  <2>1. PICK order \in SetToSeqs(news) : Decide(c, [i \in DOMAIN order |-> Imported(order[i], chosen[order[i]])])
    BY <1>4 DEF ImportPackages
  <2>2. news \subseteq some /\ news # {}
    BY <1>4 DEF ImportPackages
  <2> HIDE DEF news
  <2>3. Cardinality(news) \in Nat /\ Cardinality(news) # 0
    <3>1. IsFiniteSet(news)
      BY <2>2, SkillsAssumption, FS_Subset
    <3>2. QED
      BY <2>2, <3>1, FS_CardinalityType, FS_EmptySet
  <2>4. order \in [1 .. Cardinality(news) -> news]
    BY <2>1 DEF SetToSeqs
  <2> DEFINE items == [i \in 1 .. Cardinality(news) |-> Imported(order[i], chosen[order[i]])]
  <2>5. \A i \in 1 .. Cardinality(news) : Imported(order[i], chosen[order[i]]) \in Items
    BY <2>2, <2>4, ImportedIsItem
  <2>6. items \in Seq(Items)
    BY <2>3, <2>5
  <2>7. items # <<>>
    BY <2>3
  <2>8. Decide(c, items)
    BY <2>1, <2>4
  <2>9. QED
    BY <2>6, <2>7, <2>8
<1>5. ASSUME NEW k \in Skills, NEW p \in Packages, UpdatePackage(c, k, p)
      PROVE  \E items \in Seq(Items) : items # <<>> /\ Decide(c, items)
  <2>1. Imported(k, p) \in Items
    BY ImportedIsItem
  <2>2. <<Imported(k, p)>> \in Seq(Items) /\ <<Imported(k, p)>> # <<>>
    BY <2>1
  <2>3. QED
    BY <1>5, <2>2 DEF UpdatePackage
<1>6. QED
  BY <1>2, <1>3, <1>4, <1>5

(* A root is written whole, or left in part when it was not whole before. *)
LEMMA WriteNextStep ==
  ASSUME PackagesInv, NEW c \in Clerks, WriteNext(c)
  PROVE  PackagesInv'
<1>1. PICK w, n : w = clerk[c] /\ n = w.written + 1
  OBVIOUS
<1>2. PICK root : root = RootOf(w.items[n])
  OBVIOUS
<1>3. /\ w \in Tasks /\ w.items # <<>> /\ w.written <= Len(w.items)
      /\ w.step = "decided" => w.written = 0
      /\ w.step = "saving" => \A i \in DOMAIN w.items : i <= w.written => disk[RootOf(w.items[i])] = "whole"
  <2>1. w.step \in {"decided", "saving"}
    BY <1>1 DEF WriteNext
  <2>2. w # AwayFromDesk
    BY <2>1 DEF AwayFromDesk
  <2>3. TaskFits(w, disk)
    BY <1>1 DEF PackagesInv
  <2>4. QED
    BY <2>2, <2>3, SMTT(30) DEF TaskFits
<1>4. /\ w.items \in Seq(Items) /\ w.written \in Nat /\ Len(w.items) \in Nat
      /\ DOMAIN w.items = 1 .. Len(w.items) /\ Len(w.items) # 0
      /\ \A i \in DOMAIN w.items : w.items[i] \in Items
  BY <1>3, SMTT(30) DEF Tasks
<1>5. /\ \/ w.step = "decided" /\ ~Locked
         \/ w.step = "saving" /\ w.written < Len(w.items)
      /\ db' = db
  <2>1. w = clerk[c]
    BY <1>1
  <2>2. QED
    BY <2>1 DEF WriteNext
<1>6. n \in DOMAIN w.items /\ n <= Len(w.items) /\ n \in Nat
  <2>1. w.written = 0 \/ w.written < Len(w.items)
    BY <1>3, <1>5
  <2>2. QED
    BY <1>1, <1>4, <2>1
<1>7. \A i \in DOMAIN w.items : RootOf(w.items[i]) \in Roots
  BY <1>4 DEF RootOf, Roots, Items
<1>8. root \in Roots
  BY <1>2, <1>6, <1>7
<1>9. ASSUME disk' = [disk EXCEPT ![root] = "whole"],
             clerk' = [clerk EXCEPT ![c] = [w EXCEPT !.step = "saving", !.written = @ + 1]]
      PROVE  PackagesInv'
  <2>1. PICK v : v = [w EXCEPT !.step = "saving", !.written = @ + 1]
    OBVIOUS
  <2>2. v \in Tasks /\ v.items = w.items /\ v.written = n /\ v.step = "saving"
    BY <1>1, <1>3, <1>6, <2>1 DEF Tasks
  <2>3. DOMAIN clerk' = Clerks /\ clerk'[c] = v /\ \A x \in Clerks \ {c} : clerk'[x] = clerk[x]
    BY <1>9, <2>1 DEF PackagesInv
  <2>4. /\ disk' \in [Roots -> {"none", "partial", "whole"}]
        /\ disk'[root] = "whole" /\ \A r \in Roots : disk[r] = "whole" => disk'[r] = "whole"
    BY <1>8, <1>9 DEF PackagesInv
  <2>5. \A r : disk[r] = "whole" /\ r \in Roots => disk'[r] = "whole"
    BY <2>4
  <2>6. TaskFits(v, disk')
    <3>1. ASSUME NEW i \in DOMAIN v.items, i <= v.written PROVE disk'[RootOf(v.items[i])] = "whole"
      <4>1. CASE i = n
        BY <1>2, <2>2, <2>4, <4>1
      <4>2. CASE i # n
        <5>1. i \in Nat /\ i <= w.written /\ i \in DOMAIN w.items
          BY <1>1, <1>4, <2>2, <3>1, <4>2
        <5>2. w.step = "saving"
          BY <1>3, <1>4, <1>5, <5>1
        <5>3. disk[RootOf(w.items[i])] = "whole"
          BY <1>3, <5>1, <5>2
        <5>4. QED
          BY <1>7, <2>2, <2>5, <5>1, <5>3
      <4>3. QED
        BY <4>1, <4>2
    <3>2. v.items # <<>> /\ v.written <= Len(v.items)
      BY <1>3, <1>6, <2>2
    <3>3. QED
      BY <2>2, <3>1, <3>2 DEF TaskFits
  <2>7. \A x \in Clerks \ {c} : clerk[x].step # "saving"
    BY <1>1, <1>5 DEF Locked, PackagesInv, OneHoldsMutex
  <2>8. OneHoldsMutex(clerk')
    BY <2>3, <2>7 DEF OneHoldsMutex
  <2>9. ASSUME NEW x \in Clerks PROVE TaskFits(clerk'[x], disk')
    <3>1. CASE x = c
      BY <2>3, <2>6, <3>1
    <3>2. CASE x # c
      <4>1. clerk'[x] = clerk[x] /\ clerk[x].step # "saving" /\ TaskFits(clerk[x], disk)
        BY <2>3, <2>7, <3>2 DEF PackagesInv
      <4>2. QED
        BY <4>1 DEF TaskFits
    <3>3. QED
      BY <3>1, <3>2
  <2>10. HistoryFits(db') /\ \A r \in RetainedRoots(db') : disk'[r] = "whole"
    <3>1. \A r \in RetainedRoots(db) : r \in Roots
      BY RetainedAreRoots DEF PackagesInv
    <3>2. QED
      BY <1>5, <2>5, <3>1 DEF PackagesInv
  <2>11. QED
    BY <2>3, <2>4, <2>8, <2>9, <2>10 DEF PackagesInv
<1>10. ASSUME disk[root] # "whole", disk' = [disk EXCEPT ![root] = "partial"],
              clerk' = [clerk EXCEPT ![c] = AwayFromDesk]
       PROVE  PackagesInv'
  <2>1. DOMAIN clerk' = Clerks /\ clerk'[c] = AwayFromDesk /\ \A x \in Clerks \ {c} : clerk'[x] = clerk[x]
    BY <1>10 DEF PackagesInv
  <2>2. /\ disk' \in [Roots -> {"none", "partial", "whole"}]
        /\ \A r : disk[r] = "whole" => disk'[r] = "whole"
    BY <1>8, <1>10 DEF PackagesInv
  <2>3. AwayFromDesk.step # "saving"
    BY DEF AwayFromDesk
  <2>4. OneHoldsMutex(clerk')
    BY <2>1, <2>3 DEF OneHoldsMutex, PackagesInv
  <2>5. ASSUME NEW x \in Clerks PROVE TaskFits(clerk'[x], disk')
    <3>1. CASE x = c
      BY <2>1, <3>1 DEF TaskFits
    <3>2. CASE x # c
      <4>1. clerk'[x] = clerk[x] /\ TaskFits(clerk[x], disk)
        BY <2>1, <3>2 DEF PackagesInv
      <4>2. QED
        BY <2>2, <4>1 DEF TaskFits
    <3>3. QED
      BY <3>1, <3>2
  <2>6. HistoryFits(db') /\ \A r \in RetainedRoots(db') : disk'[r] = "whole"
    BY <1>5, <2>2 DEF PackagesInv
  <2>7. QED
    BY <2>1, <2>2, <2>4, <2>5, <2>6 DEF PackagesInv
<1>11. QED
  BY <1>1, <1>2, <1>9, <1>10 DEF WriteNext, RootOf

(* The transaction makes active what the request has written. *)
LEMMA ActivateStep ==
  ASSUME PackagesInv, NEW c \in Clerks, Activate(c)
  PROVE  PackagesInv'
<1>1. PICK w, items : w = clerk[c] /\ items = w.items
  OBVIOUS
<1>2. /\ w.step = "saving" /\ w.written = Len(items) /\ disk' = disk
      /\ clerk' = [clerk EXCEPT ![c] = AwayFromDesk]
      /\ db' = db \/ db' = SavedPackages(db, items)
  BY <1>1 DEF Activate
<1>3. w # AwayFromDesk
  BY <1>2 DEF AwayFromDesk
<1>4. TaskFits(w, disk)
  BY <1>1 DEF PackagesInv
<1>5. items \in Seq(Items) /\ \A i \in DOMAIN items : i <= Len(items) => disk[RootOf(items[i])] = "whole"
  BY <1>1, <1>2, <1>3, <1>4 DEF TaskFits, Tasks
<1>6. \A i \in DOMAIN items : disk[RootOf(items[i])] = "whole"
  BY <1>5
<1>7. HistoryFits(db') /\ \A root \in RetainedRoots(db') : disk'[root] = "whole"
  <2>1. CASE db' = db
    BY <1>2, <2>1 DEF PackagesInv
  <2>2. CASE db' = SavedPackages(db, items)
    <3>1. PICK d : d = db
      OBVIOUS
    <3>2. HistoryFits(d)
      BY <3>1 DEF PackagesInv
    <3>3. /\ HistoryFits(SavedPackages(d, items))
          /\ RetainedRoots(SavedPackages(d, items))
               \subseteq RetainedRoots(d) \union {RootOf(items[i]) : i \in DOMAIN items}
      BY <1>5, <3>2, SavedPackagesFit
    <3>4. \A root \in RetainedRoots(d) : disk[root] = "whole"
      BY <3>1 DEF PackagesInv
    <3>5. QED
      BY <1>2, <1>6, <2>2, <3>1, <3>3, <3>4
  <2>3. QED
    BY <1>2, <2>1, <2>2
<1>8. DOMAIN clerk' = Clerks /\ clerk'[c] = AwayFromDesk /\ \A x \in Clerks \ {c} : clerk'[x] = clerk[x]
  BY <1>2 DEF PackagesInv
<1>9. AwayFromDesk.step # "saving"
  BY DEF AwayFromDesk
<1>10. OneHoldsMutex(clerk')
  BY <1>8, <1>9 DEF OneHoldsMutex, PackagesInv
<1>11. \A x \in Clerks : TaskFits(clerk'[x], disk')
  BY <1>2, <1>8 DEF PackagesInv, TaskFits
<1>12. QED
  BY <1>2, <1>7, <1>8, <1>10, <1>11 DEF PackagesInv

(* What retains a root never loses it: none that the database names is swept. *)
LEMMA SweepStep ==
  ASSUME PackagesInv, Sweep
  PROVE  PackagesInv'
<1>1. PICK expired : disk' = [root \in Roots |-> IF root \in expired \ RetainedRoots(db) THEN "none" ELSE disk[root]]
  BY DEF Sweep
<1>2. db' = db /\ clerk' = clerk /\ \A c \in Clerks : clerk[c].step # "saving"
  BY DEF Sweep, Locked
<1>3. RetainedRoots(db) \subseteq Roots
  BY RetainedAreRoots DEF PackagesInv
<1>4. disk' \in [Roots -> {"none", "partial", "whole"}] /\ \A root \in RetainedRoots(db) : disk'[root] = disk[root]
  BY <1>1, <1>3 DEF PackagesInv
<1>5. \A c \in Clerks : TaskFits(clerk'[c], disk')
  BY <1>2 DEF PackagesInv, TaskFits
<1>6. HistoryFits(db') /\ \A root \in RetainedRoots(db') : disk'[root] = "whole"
  BY <1>2, <1>4 DEF PackagesInv
<1>7. QED
  BY <1>2, <1>4, <1>5, <1>6 DEF PackagesInv

LEMMA CrashStep ==
  ASSUME PackagesInv, PackagesCrash
  PROVE  PackagesInv'
<1>1. PICK half : disk' = [root \in Roots |-> IF root \in half /\ disk[root] # "whole" THEN "partial" ELSE disk[root]]
  BY DEF PackagesCrash
<1>2. db' = db /\ clerk' = [c \in Clerks |-> AwayFromDesk]
  BY DEF PackagesCrash
<1>3. disk' \in [Roots -> {"none", "partial", "whole"}] /\ \A root \in Roots : disk[root] = "whole" => disk'[root] = "whole"
  BY <1>1 DEF PackagesInv
<1>4. RetainedRoots(db) \subseteq Roots
  BY RetainedAreRoots DEF PackagesInv
<1>5. DOMAIN clerk' = Clerks /\ OneHoldsMutex(clerk') /\ \A c \in Clerks : TaskFits(clerk'[c], disk')
  BY <1>2 DEF OneHoldsMutex, TaskFits, AwayFromDesk
<1>6. HistoryFits(db') /\ \A root \in RetainedRoots(db') : disk'[root] = "whole"
  BY <1>2, <1>3, <1>4 DEF PackagesInv
<1>7. QED
  BY <1>3, <1>5, <1>6 DEF PackagesInv

LEMMA GovernanceSteps ==
  ASSUME PackagesInv,
         \/ \E k \in Skills, enabled \in {{}, {TRUE}, {FALSE}} : UpdateMetadata(k, enabled)
         \/ \E k \in Skills : Delete(k)
         \/ \E i \in DOMAIN db.events : Rollback(i)
  PROVE  PackagesInv'
<1>1. PICK d : d = db
  OBVIOUS
<1>2. HistoryFits(d)
  BY <1>1 DEF PackagesInv
<1>3. disk' = disk /\ clerk' = clerk
  BY DEF UpdateMetadata, Delete, Rollback
<1>4. SUFFICES \E e : db' = e /\ HistoryFits(e) /\ RetainedRoots(e) \subseteq RetainedRoots(d)
  BY <1>1, <1>3, CommitKeeps
<1>5. ASSUME NEW k \in Skills, NEW enabled \in {{}, {TRUE}, {FALSE}}, UpdateMetadata(k, enabled)
      PROVE  \E e : db' = e /\ HistoryFits(e) /\ RetainedRoots(e) \subseteq RetainedRoots(d)
  <2>1. d.row[k] # NoSkill /\ ~d.row[k].deleted /\ db' = PatchedMetadata(d, k, enabled)
    BY <1>1, <1>5 DEF UpdateMetadata, Known
  <2>2. enabled \in SUBSET BOOLEAN
    OBVIOUS
  <2>3. QED
    BY <1>2, <2>1, <2>2, PatchedFits
<1>6. ASSUME NEW k \in Skills, Delete(k)
      PROVE  \E e : db' = e /\ HistoryFits(e) /\ RetainedRoots(e) \subseteq RetainedRoots(d)
  <2>1. d.row[k] # NoSkill /\ db' = Deleted(d, k)
    BY <1>1, <1>6 DEF Delete, Known
  <2>2. QED
    BY <1>2, <2>1, DeletedFits
<1>7. ASSUME NEW i \in DOMAIN db.events, Rollback(i)
      PROVE  \E e : db' = e /\ HistoryFits(e) /\ RetainedRoots(e) \subseteq RetainedRoots(d)
  <2>1. i \in DOMAIN d.events /\ MayRollback(d, i) /\ db' = RolledBack(d, i)
    BY <1>1, <1>7 DEF Rollback
  <2>2. QED
    BY <1>2, <2>1, RolledBackFits
<1>8. QED
  BY <1>5, <1>6, <1>7

LEMMA PackagesStart ==
  ASSUME PackagesInit
  PROVE  PackagesInv
<1>1. PICK legacy \in SUBSET Skills, p \in Packages :
        /\ db = [row |-> [k \in Skills |->
                   IF k \in legacy THEN [package |-> p, enabled |-> TRUE, deleted |-> FALSE] ELSE NoSkill],
                 records |-> <<>>, events |-> <<>>]
        /\ disk = [root \in Roots |-> IF root[1] \in legacy /\ root[2] = p THEN "whole" ELSE "none"]
  BY DEF PackagesInit
<1>2. db.records = <<>> /\ db.events = <<>> /\ DOMAIN db.events = {} /\ DOMAIN db.records = {}
  BY <1>1
<1>3. /\ db.row \in [Skills -> SkillRows \union {NoSkill}]
      /\ \A k \in Skills : db.row[k] # NoSkill => k \in legacy /\ db.row[k].package = p /\ ~db.row[k].deleted
  BY <1>1 DEF SkillRows, RowValues
<1>4. db \in Databases
  <2>1. <<>> \in Seq(Roots) /\ <<>> \in Seq(SkillEvents)
    OBVIOUS
  <2>2. PICK rows : rows = db.row
    OBVIOUS
  <2>3. db = [row |-> rows, records |-> <<>>, events |-> <<>>]
    BY <1>1, <2>2
  <2>4. rows \in [Skills -> SkillRows \union {NoSkill}]
    BY <1>3, <2>2
  <2>5. QED
    BY <2>1, <2>3, <2>4 DEF Databases
<1>5. UndoesFit(db.events) /\ HistoryOf(db)
  BY <1>2 DEF UndoesFit, HistoryOf, IsChained, Describes, ReversesOnce
<1>6. HistoryFits(db)
  BY <1>2, <1>3, <1>4, <1>5 DEF HistoryFits
<1>7. disk \in [Roots -> {"none", "partial", "whole"}]
  BY <1>1
<1>8. \A root \in RetainedRoots(db) : disk[root] = "whole"
  <2>1. ASSUME NEW k \in Skills, db.row[k] # NoSkill PROVE disk[<<k, db.row[k].package>>] = "whole"
    <3>1. k \in legacy /\ db.row[k].package = p
      BY <1>3, <2>1
    <3>2. <<k, p>> \in Roots /\ <<k, p>>[1] = k /\ <<k, p>>[2] = p
      BY DEF Roots
    <3>3. QED
      BY <1>1, <3>1, <3>2
  <2>2. QED
    BY <1>2, <2>1 DEF RetainedRoots, ActiveRoots
<1>9. DOMAIN clerk = Clerks /\ OneHoldsMutex(clerk) /\ \A c \in Clerks : TaskFits(clerk[c], disk)
  BY DEF PackagesInit, OneHoldsMutex, TaskFits, AwayFromDesk
<1>10. QED
  BY <1>6, <1>7, <1>8, <1>9 DEF PackagesInv

LEMMA PackagesStep == PackagesInv /\ [PackagesNext]_packageVars => PackagesInv'
<1> SUFFICES ASSUME PackagesInv, [PackagesNext]_packageVars PROVE PackagesInv'
  OBVIOUS
<1>1. ASSUME NEW c \in Clerks,
             \/ \E k \in Skills, p \in Packages, enabled \in BOOLEAN : CreateManual(c, k, p, enabled)
             \/ \E k \in Skills, p \in Packages, enabled \in {{}, {FALSE}} : UpdateContent(c, k, p, enabled)
             \/ \E some \in SUBSET Skills : \E chosen \in [some -> Packages] : ImportPackages(c, chosen)
             \/ \E k \in Skills, p \in Packages : UpdatePackage(c, k, p)
      PROVE  PackagesInv'
  BY <1>1, DecisionSteps
<1>2. ASSUME NEW c \in Clerks, WriteNext(c) PROVE PackagesInv'
  BY <1>2, WriteNextStep
<1>3. ASSUME NEW c \in Clerks, Activate(c) PROVE PackagesInv'
  BY <1>3, ActivateStep
<1>4. ASSUME \/ \E k \in Skills, enabled \in {{}, {TRUE}, {FALSE}} : UpdateMetadata(k, enabled)
             \/ \E k \in Skills : Delete(k)
             \/ \E i \in DOMAIN db.events : Rollback(i)
      PROVE  PackagesInv'
  BY <1>4, GovernanceSteps
<1>5. CASE Sweep
  BY <1>5, SweepStep
<1>6. CASE PackagesCrash
  BY <1>6, CrashStep
<1>7. CASE UNCHANGED packageVars
  <2>1. db' = db /\ disk' = disk /\ clerk' = clerk
    BY <1>7 DEF packageVars
  <2>2. QED
    BY <2>1 DEF PackagesInv
<1>8. QED
  BY <1>1, <1>2, <1>3, <1>4, <1>5, <1>6, <1>7 DEF PackagesNext

LEMMA PackagesHold == PackagesSpec => []PackagesInv
<1>1. PackagesInit => PackagesInv
  BY PackagesStart
<1>2. QED
  BY <1>1, PackagesStep, PTL DEF PackagesSpec

LEMMA PackagesInvKeeps == PackagesInv => PackagesAreKept
<1> SUFFICES ASSUME PackagesInv PROVE PackagesAreKept
  OBVIOUS
<1>1. ASSUME NEW k \in Skills, Known(k) PROVE disk[<<k, db.row[k].package>>] = "whole"
  BY <1>1 DEF PackagesInv, Known, RetainedRoots, ActiveRoots
<1>2. ASSUME NEW i \in DOMAIN db.events, NEW state \in {db.events[i].before, db.events[i].after} \ {NoSkill}
      PROVE  /\ db.records[state.record] = <<db.events[i].key, state.package>>
             /\ disk[<<db.events[i].key, state.package>>] = "whole"
  <2>1. EventFits(db, db.events[i])
    BY DEF PackagesInv, HistoryFits
  <2>2. StateFits(db.records, db.events[i].key, state)
    BY <1>2, <2>1 DEF EventFits
  <2>3. <<db.events[i].key, state.package>> \in RetainedRoots(db)
    BY <2>2 DEF StateFits, RetainedRoots
  <2>4. QED
    BY <2>2, <2>3 DEF StateFits, PackagesInv
<1>3. QED
  BY <1>1, <1>2 DEF PackagesAreKept

(* The files of every active skill are on disk, and so are those of every      *)
(* package of the history, for any skills and packages, any number of requests *)
(* that save at once, any failures of the disk and the database, and a sweep at *)
(* any moment.                                                                 *)
THEOREM PackagesStayKept == PackagesSpec => []PackagesAreKept
  BY PackagesHold, PackagesInvKeeps, PTL

(* The history of the skills is exact.  A saved package is one transaction for *)
(* all its items, whatever their number.                                       *)
THEOREM SkillHistoriesAreExact == PackagesSpec => []HistoryIsExact
<1>1. PackagesInv => HistoryIsExact
  BY DEF PackagesInv, HistoryFits, HistoryOf, HistoryIsExact
<1>2. QED
  BY <1>1, PackagesHold, PTL

-----------------------------------------------------------------------------
(* All that is arranged *)

(* Each part of what users and administrators arrange moves by itself, so each *)
(* keeps what was proved of it: services their order, prompts their group,     *)
(* and fonts what may be selected.                                             *)
THEOREM ArrangementsAreKept == ArrangedSpec => []ArrangementIsKept
<1>1. ArrangedInit => OrderInit /\ PromptsInit /\ FontsInit
  BY DEF ArrangedInit
<1>2. [ArrangedNext]_allVars => [OrderNext]_serviceVars
  BY DEF ArrangedNext, allVars
<1>3. [ArrangedNext]_allVars => [PromptsNext]_promptVars
  BY DEF ArrangedNext, allVars
<1>4. [ArrangedNext]_allVars => [FontsNext]_fontVars
  BY DEF ArrangedNext, allVars
<1>5. ArrangedSpec => OrderSpec /\ PromptsSpec /\ FontsSpec
  BY <1>1, <1>2, <1>3, <1>4, PTL DEF ArrangedSpec, OrderSpec, PromptsSpec, FontsSpec
<1>6. OrderIsDecided /\ PromptsFollowTheirGroup /\ SelectionIsUsable => ArrangementIsKept
  BY DEF ArrangementIsKept
<1>7. QED
  BY <1>5, <1>6, OrdersAreDecided, PromptsFollow, SelectionsStayUsable, PTL

(* What the histories of skills and of tools offer to take back is what was    *)
(* done, while administrators of both are at work.                             *)
THEOREM HistoriesStayExact == ArrangedSpec => []HistoriesAreExact
<1>1. ArrangedInit => PackagesInit /\ ToolsInit
  BY DEF ArrangedInit
<1>2. [ArrangedNext]_allVars => [PackagesNext]_packageVars
  BY DEF ArrangedNext, allVars
<1>3. [ArrangedNext]_allVars => [ToolsNext]_toolVars
  BY DEF ArrangedNext, allVars
<1>4. ArrangedSpec => PackagesSpec /\ ToolsSpec
  BY <1>1, <1>2, <1>3, PTL DEF ArrangedSpec, PackagesSpec, ToolsSpec
<1>5. HistoryIsExact /\ ToolHistoryIsExact => HistoriesAreExact
  BY DEF HistoriesAreExact
<1>6. QED
  BY <1>4, <1>5, SkillHistoriesAreExact, ToolHistoriesAreExact, PTL

=============================================================================
