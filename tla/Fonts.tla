-------------------------------- MODULE Fonts --------------------------------
(***************************************************************************)
(* Fonts administrators upload, and the fonts chats are shown in: one for  *)
(* each slot, and one under the key from before there were slots.  A slot  *)
(* without a key takes the font of the old key; a slot whose key is null   *)
(* has the font of the system.  A selection locks the row of its font, so  *)
(* does every change of the font.                                          *)
(***************************************************************************)
EXTENDS FiniteSets

CONSTANTS
  FontAssets,  \* keys of fonts; each is uploaded at most once
  FontSlots,   \* "chinese", "latin", "code"
  Legacy,      \* the old key
  NoFont,      \* null: the font of the system
  Absent,      \* the row of a key is not there
  FontClerks   \* requests that change several things

VARIABLES
  asset,    \* the row of each font: "none", "enabled", "disabled", "deleted"
  fontFile, \* fonts whose file is on the disk
  selected, \* the value of each key
  fontWork, \* of each request, what it has done so far
  unanswered \* history: fonts whose row was stored and the answer lost

fontVars == <<asset, fontFile, selected, fontWork, unanswered>>
FontKeys == FontSlots \union {Legacy}
FontIdle == [step |-> "idle"]

FontsInit ==
  /\ asset = [f \in FontAssets |-> "none"] /\ fontFile = {} /\ unanswered = {}
  /\ selected = [k \in FontKeys |-> Absent]
  /\ fontWork = [c \in FontClerks |-> FontIdle]

Selectable(f) == f \in {NoFont} \union {a \in FontAssets : asset[a] = "enabled"}
\* What readers see in a slot.
SelectedIn(slot) ==
  LET of(k) == IF selected[k] = Absent THEN NoFont ELSE selected[k] IN
  IF selected[slot] = Absent THEN of(Legacy) ELSE of(slot)
\* A font that is not enabled, or cannot be read, is not shown.
ShownIn(slot) == LET f == SelectedIn(slot) IN IF f # NoFont /\ asset[f] = "enabled" THEN f ELSE NoFont

Does(c, entry) == fontWork' = [fontWork EXCEPT ![c] = entry]
InUse(f) == \E c \in FontClerks : fontWork[c].step # "idle" /\ fontWork[c].font = f
LockedFont(f) == \E c \in FontClerks : fontWork[c].step = "select" /\ fontWork[c].font = f

-----------------------------------------------------------------------------
\* The file is written first, and removed again after every error of the
\* INSERT, also when only its answer was lost and the row is stored: that font
\* is enabled without its file.  The process may end in between.
WriteFile(c, f, current) ==
  /\ fontWork[c] = FontIdle /\ asset[f] = "none" /\ ~InUse(f)
  /\ fontFile' = fontFile \union {f}
  /\ Does(c, [step |-> "create", font |-> f, current |-> current])
  /\ UNCHANGED <<asset, selected, unanswered>>
CreateFont(c) ==
  LET f == fontWork[c].font
      stores == asset' = [asset EXCEPT ![f] = "enabled"]
      gives_up == fontFile' \in {fontFile, fontFile \ {f}} /\ Does(c, FontIdle) IN
  /\ fontWork[c].step = "create"
  /\ \/ /\ stores /\ UNCHANGED <<fontFile, unanswered>>
        /\ Does(c, IF fontWork[c].current THEN [step |-> "ask", font |-> f, keys |-> {Legacy}] ELSE FontIdle)
     \/ stores /\ gives_up /\ unanswered' = unanswered \union {f}
     \/ gives_up /\ UNCHANGED <<asset, unanswered>>
  /\ UNCHANGED selected

\* The key of the slot; the Chinese slot is mirrored to the old key.
KeysOf(slot) == IF slot = "chinese" THEN {slot, Legacy} ELSE {slot}
AskSelection(c, f, keys) ==
  /\ fontWork[c] = FontIdle /\ Does(c, [step |-> "ask", font |-> f, keys |-> keys])
  /\ UNCHANGED <<asset, fontFile, selected, unanswered>>
\* The row of the font is locked until the selection is committed.
EnsureSelectable(f) == Selectable(f) /\ (f = NoFont \/ ~LockedFont(f))
LockFont(c) ==
  /\ fontWork[c].step = "ask"
  /\ \/ EnsureSelectable(fontWork[c].font) /\ Does(c, [fontWork[c] EXCEPT !.step = "select"])
     \/ ~Selectable(fontWork[c].font) /\ Does(c, FontIdle)
  /\ UNCHANGED <<asset, fontFile, selected, unanswered>>
SelectFont(c) ==
  /\ fontWork[c].step = "select"
  /\ selected' \in {selected, [k \in FontKeys |-> IF k \in fontWork[c].keys THEN fontWork[c].font ELSE selected[k]]}
  /\ Does(c, FontIdle) /\ UNCHANGED <<asset, fontFile, unanswered>>

-----------------------------------------------------------------------------
\* In the transaction that takes the font away: every key that holds it.
Cleared(f) == [k \in FontKeys |-> IF selected[k] = f THEN NoFont ELSE selected[k]]

MayChange(f) == ~LockedFont(f)
PatchFont(f, enabled) ==
  /\ asset[f] \in {"enabled", "disabled"} /\ MayChange(f)
  /\ asset' = [asset EXCEPT ![f] = IF enabled THEN "enabled" ELSE "disabled"]
  /\ selected' = IF enabled THEN selected ELSE Cleared(f)
  /\ UNCHANGED <<fontFile, fontWork, unanswered>>
\* The file goes after the commit; its removal may fail, and is not retried.
DeleteFont(c, f) ==
  /\ fontWork[c] = FontIdle /\ asset[f] \in {"enabled", "disabled"} /\ MayChange(f)
  /\ asset' = [asset EXCEPT ![f] = "deleted"] /\ selected' = Cleared(f)
  /\ Does(c, [step |-> "remove", font |-> f]) /\ UNCHANGED <<fontFile, unanswered>>
RemoveFontFile(c) ==
  /\ fontWork[c].step = "remove" /\ fontFile' \in {fontFile, fontFile \ {fontWork[c].font}}
  /\ Does(c, FontIdle) /\ UNCHANGED <<asset, selected, unanswered>>
FontsStop ==
  /\ fontWork' = [c \in FontClerks |-> FontIdle] /\ UNCHANGED <<asset, fontFile, selected, unanswered>>

FontsNext ==
  \/ \E c \in FontClerks, f \in FontAssets :
       (\E current \in BOOLEAN : WriteFile(c, f, current)) \/ DeleteFont(c, f)
  \/ \E c \in FontClerks, f \in FontAssets \union {NoFont} :
       AskSelection(c, f, {Legacy}) \/ (\E slot \in FontSlots : AskSelection(c, f, KeysOf(slot)))
  \/ \E c \in FontClerks : CreateFont(c) \/ LockFont(c) \/ SelectFont(c) \/ RemoveFontFile(c)
  \/ \E f \in FontAssets, enabled \in BOOLEAN : PatchFont(f, enabled)
  \/ FontsStop

FontsSpec == FontsInit /\ [][FontsNext]_fontVars

-----------------------------------------------------------------------------
\* Whatever selections, switches and deletions meet, no key keeps a font that
\* chats may not use, so what a slot holds is what is shown, and every font
\* that may be used has its file, unless the answer to its INSERT was lost:
\* the upload then takes the file of a stored font away.
SelectionIsUsable ==
  /\ \A k \in FontKeys : selected[k] \notin {Absent, NoFont} => asset[selected[k]] = "enabled"
  /\ \A slot \in FontSlots : ShownIn(slot) = SelectedIn(slot)
  /\ \A f \in FontAssets \ unanswered : asset[f] \in {"enabled", "disabled"} => f \in fontFile
=============================================================================
