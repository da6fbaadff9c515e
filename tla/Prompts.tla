------------------------------- MODULE Prompts -------------------------------
(***************************************************************************)
(* Prompts of a user and the groups they are put in.  A prompt keeps the   *)
(* name of its group beside the key of the group.  Every write is a        *)
(* transaction of several statements that waits for row locks: a prompt is *)
(* locked to be patched, a group is shared by the prompts that join it and *)
(* locked to be renamed or deleted.  Prompts everyone may read are written *)
(* by administrators, whose patches leave group and name alone.           *)
(***************************************************************************)
EXTENDS Naturals, FiniteSets

CONSTANTS
  PromptKeys,  \* keys of prompts
  PromptGroups,\* keys of groups
  Labels,      \* names users give to groups
  Ungrouped,   \* no group
  Plain,       \* the name of the default group
  Writers,     \* transactions
  MaxPatches   \* bounds the transactions that begin

\* A name a user gives is never the lack of one.
ASSUME LabelsAssumption == Ungrouped \notin Labels

VARIABLES
  prompt,   \* the row of each prompt
  label,    \* the committed name of each group, Ungrouped if it has no row
  writer,   \* of each transaction, what it does, holds and has read
  patches

promptVars == <<prompt, label, writer, patches>>

NoPrompt == [kind |-> "none", group |-> Ungrouped, name |-> Plain, named |-> FALSE]
NoWrite == [step |-> "idle"]

PromptsInit ==
  /\ prompt = [p \in PromptKeys |-> NoPrompt]
  /\ label = [g \in PromptGroups |-> Ungrouped]
  /\ writer = [w \in Writers |-> NoWrite]
  /\ patches = 0

\* What a transaction asks of a prompt: the group, the name, either may be
\* left out of a patch.
Requests ==
  {r \in [group : PromptGroups \union {Ungrouped}, sets : BOOLEAN, name : Labels \union {Plain}, names : BOOLEAN] :
     (r.sets \/ r.group = Ungrouped) /\ (r.names \/ r.name = Plain)}
Joins(request) == request.sets /\ request.group # Ungrouped

Busy(w) == writer[w].step # "idle"
LockedPrompt(p) == \E w \in Writers : writer[w].step \in {"locked", "patch"} /\ writer[w].prompt = p
LockedGroup(g) == \E w \in Writers : writer[w].step \in {"rename", "delete"} /\ writer[w].group = g
SharedGroup(g) == \E w \in Writers : writer[w].step \in {"insert", "patch"} /\ writer[w].group = g
Labelled == {g \in PromptGroups : label[g] # Ungrouped}

BeginsWrite(w, entry) ==
  /\ ~Busy(w) /\ patches < MaxPatches
  /\ writer' = [writer EXCEPT ![w] = entry] /\ patches' = patches + 1
Continues(w, entry) == writer' = [writer EXCEPT ![w] = entry] /\ UNCHANGED patches
Commits(w) == Continues(w, NoWrite)

\* A group is shared until the transaction ends, so it keeps the name read.
ReadsShared(g) == g \in Labelled /\ ~LockedGroup(g)
ReadsUnlocked(g) == g \in Labelled

GroupNameForWrite(g) == ReadsShared(g)

\* The name of the group goes before the name of the request.
CreateBegins(w, p, request) ==
  /\ prompt[p] = NoPrompt /\ \A v \in Writers : ~(writer[v].step = "insert" /\ writer[v].prompt = p)
  /\ request.sets
  /\ request.group # Ungrouped => GroupNameForWrite(request.group)
  /\ BeginsWrite(w, [step |-> "insert", prompt |-> p, group |-> request.group,
                name |-> IF request.group # Ungrouped THEN label[request.group] ELSE request.name])
  /\ UNCHANGED <<prompt, label>>
CreateInserts(w) ==
  /\ writer[w].step = "insert"
  /\ prompt' = [prompt EXCEPT ![writer[w].prompt] =
       [kind |-> "own", group |-> writer[w].group, name |-> writer[w].name, named |-> FALSE]]
  /\ Commits(w) /\ UNCHANGED label
CreateShared(p) ==
  /\ prompt[p] = NoPrompt /\ \A v \in Writers : ~(writer[v].step = "insert" /\ writer[v].prompt = p)
  /\ patches < MaxPatches
  /\ prompt' = [prompt EXCEPT ![p] = [NoPrompt EXCEPT !.kind = "shared"]]
  /\ patches' = patches + 1 /\ UNCHANGED <<label, writer>>

\* The row is read again under its lock.
PatchBegins(w, p, request) ==
  /\ prompt[p].kind = "own" /\ ~LockedPrompt(p)
  /\ BeginsWrite(w, [step |-> "locked", prompt |-> p, group |-> Ungrouped, request |-> request])
  /\ UNCHANGED <<prompt, label>>
PatchJoins(w) ==
  LET request == writer[w].request IN
  /\ writer[w].step = "locked"
  /\ Joins(request) => GroupNameForWrite(request.group)
  /\ Continues(w, [step |-> "patch", prompt |-> writer[w].prompt, request |-> request,
                   group |-> IF Joins(request) THEN request.group ELSE Ungrouped,
                   name |-> IF Joins(request) THEN label[request.group] ELSE Plain])
  /\ UNCHANGED <<prompt, label>>

\* A name of its own goes before the name of the group here.  A prompt that
\* leaves its group keeps the name.
Patched(row, w) ==
  LET request == writer[w].request IN
  [row EXCEPT !.group = IF request.sets THEN request.group ELSE @,
              !.name = IF request.names THEN request.name ELSE IF Joins(request) THEN writer[w].name ELSE @,
              !.named = request.names \/ (~Joins(request) /\ @)]
PatchWrites(w) ==
  /\ writer[w].step = "patch"
  /\ prompt' = [prompt EXCEPT ![writer[w].prompt] = Patched(@, w)]
  /\ Commits(w) /\ UNCHANGED label

DeletePrompt(p, kind) ==
  /\ prompt[p].kind = kind /\ ~LockedPrompt(p)
  /\ prompt' = [prompt EXCEPT ![p] = NoPrompt] /\ UNCHANGED <<label, writer, patches>>

-----------------------------------------------------------------------------
\* Names of groups are unique; one that is being given away counts.
Taken(name) == \/ \E g \in Labelled : label[g] = name
               \/ \E w \in Writers : writer[w].step = "rename" /\ writer[w].name = name

CreateGroup(g, name) ==
  /\ label[g] = Ungrouped /\ ~Taken(name)
  /\ label' = [label EXCEPT ![g] = name] /\ UNCHANGED <<prompt, writer, patches>>

RenameBegins(w, g, name) ==
  /\ g \in Labelled /\ ~LockedGroup(g) /\ ~SharedGroup(g) /\ ~Taken(name)
  /\ BeginsWrite(w, [step |-> "rename", group |-> g, name |-> name])
  /\ UNCHANGED <<prompt, label>>
DeleteBegins(w, g) ==
  /\ g \in Labelled /\ ~LockedGroup(g) /\ ~SharedGroup(g)
  /\ BeginsWrite(w, [step |-> "delete", group |-> g])
  /\ UNCHANGED <<prompt, label>>

\* The prompts of the group, once each is free.
Members(g) == {p \in PromptKeys : prompt[p].group = g}
RenameWrites(w) ==
  LET g == writer[w].group IN
  /\ writer[w].step = "rename" /\ \A p \in Members(g) : ~LockedPrompt(p)
  /\ label' = [label EXCEPT ![g] = writer[w].name]
  /\ prompt' = [p \in PromptKeys |->
       IF p \in Members(g) THEN [prompt[p] EXCEPT !.name = writer[w].name, !.named = FALSE] ELSE prompt[p]]
  /\ Commits(w)
DeleteWrites(w) ==
  LET g == writer[w].group IN
  /\ writer[w].step = "delete" /\ \A p \in Members(g) : ~LockedPrompt(p)
  /\ label' = [label EXCEPT ![g] = Ungrouped]
  /\ prompt' = [p \in PromptKeys |->
       IF p \in Members(g) THEN [prompt[p] EXCEPT !.group = Ungrouped, !.name = Plain, !.named = FALSE] ELSE prompt[p]]
  /\ Commits(w)

\* A statement fails, the request goes away, or the transaction is the one
\* the database ends because two wait for each other.
Abort(w) == Busy(w) /\ Commits(w) /\ UNCHANGED <<prompt, label>>

PromptsNext ==
  \/ \E w \in Writers :
       \/ \E p \in PromptKeys, request \in Requests : CreateBegins(w, p, request) \/ PatchBegins(w, p, request)
       \/ \E g \in PromptGroups : (\E name \in Labels : RenameBegins(w, g, name)) \/ DeleteBegins(w, g)
       \/ CreateInserts(w) \/ PatchJoins(w) \/ PatchWrites(w) \/ RenameWrites(w) \/ DeleteWrites(w) \/ Abort(w)
  \/ \E p \in PromptKeys : CreateShared(p) \/ (\E kind \in {"own", "shared"} : DeletePrompt(p, kind))
  \/ \E g \in PromptGroups, name \in Labels : CreateGroup(g, name)

PromptsSpec == PromptsInit /\ [][PromptsNext]_promptVars

-----------------------------------------------------------------------------
\* However patches, renames and deletions wait for each other, no prompt is in
\* a group that is gone, and each has the name its group has now, unless its
\* last patch named the group itself.  Shared prompts are in no group.
PromptsFollowTheirGroup ==
  \A p \in PromptKeys :
    /\ prompt[p].group # Ungrouped =>
         /\ prompt[p].kind = "own" /\ prompt[p].group \in Labelled
         /\ prompt[p].named \/ prompt[p].name = label[prompt[p].group]
=============================================================================
