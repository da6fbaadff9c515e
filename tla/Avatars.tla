------------------------------ MODULE Avatars ------------------------------
(***************************************************************************)
(* Avatars: a file on the disk and its address in the user's row, changed  *)
(* by requests that stage a file, swap the address under the row's lock    *)
(* and remove what the swap replaced.  The commit of a swap may be lost in *)
(* doubt, when only the rows can tell which of the two files is in use.    *)
(***************************************************************************)
EXTENDS Naturals, FiniteSets

CONSTANTS
  Owners,    \* accounts
  Pictures,  \* file names: fresh uuids
  NoPicture,
  Uploads    \* avatar requests served at the same time

ASSUME AvatarsAssumption == NoPicture \notin Pictures

VARIABLES
  avatar,   \* users.avatar_url
  files,    \* what is in the avatar directory
  upload,   \* the requests being served
  named,    \* file names given out so far
  orphans   \* history: files an error or a crash left to nobody

avatarVars == <<avatar, files, upload, named, orphans>>

NoUpload == [phase |-> "none", owner |-> NoPicture, staged |-> NoPicture, check |-> {}]
Referenced(p) == \E o \in Owners : avatar[o] = p

-----------------------------------------------------------------------------
AvatarsInit ==
  /\ avatar = [o \in Owners |-> NoPicture]
  /\ files = {} /\ named = {} /\ orphans = {}
  /\ upload = [t \in Uploads |-> NoUpload]

\* Upload writes a new file; a write that fails leaves what it wrote.
StoreAvatar(t, o, p) ==
  /\ upload[t].phase = "none" /\ p \notin named
  /\ named' = named \union {p}
  /\ files' = files \union {p}
  /\ \/ /\ upload' = [upload EXCEPT ![t] = [phase |-> "swap", owner |-> o, staged |-> p, check |-> {}]]
        /\ orphans' = orphans
     \/ upload' = upload /\ orphans' = orphans \union {p}
  /\ UNCHANGED avatar

DeleteAvatar(t, o) ==
  /\ upload[t].phase = "none"
  /\ upload' = [upload EXCEPT ![t] = [phase |-> "swap", owner |-> o, staged |-> NoPicture, check |-> {}]]
  /\ UNCHANGED <<avatar, files, named, orphans>>

\* ReplacedAvatarURL: what the locked row held, if the swap changes it.
Replaced(q) == {avatar[q.owner]} \ {q.staged}

\* SwapAvatarContext answers: the address is changed and what it replaced may go.
SwapCommitted(t) ==
  LET q == upload[t] IN
  /\ q.phase = "swap"
  /\ avatar' = [avatar EXCEPT ![q.owner] = q.staged]
  /\ upload' = [upload EXCEPT ![t].phase = "clean", ![t].check = Replaced(q) \ {NoPicture}]
  /\ UNCHANGED <<files, named, orphans>>

\* In doubt, looking at the staged file only.
StagedOnly(q) == {q.staged} \ {NoPicture}

\* ErrUserCommitUnknown: it may have been changed; either file may be in use.
Candidates(q) == (Replaced(q) \union {q.staged}) \ {NoPicture}

SwapUnknown(t) ==
  LET q == upload[t] IN
  /\ q.phase = "swap"
  /\ avatar' \in {avatar, [avatar EXCEPT ![q.owner] = q.staged]}
  /\ upload' = [upload EXCEPT ![t].phase = "clean", ![t].check = Candidates(q)]
  /\ UNCHANGED <<files, named, orphans>>

\* Any other error: nothing was committed and the staged file is the request's.
SwapFailed(t) ==
  LET q == upload[t] IN
  /\ q.phase = "swap"
  /\ files' = files \ {q.staged}
  /\ upload' = [upload EXCEPT ![t] = NoUpload]
  /\ UNCHANGED <<avatar, named, orphans>>

\* removeManagedIfUnreferenced; a check that cannot be made keeps the file.
CleanAvatar(t, p) ==
  LET q == upload[t] IN
  /\ q.phase = "clean" /\ p \in q.check
  /\ \/ Referenced(p) /\ UNCHANGED <<files, orphans>>
     \/ ~Referenced(p) /\ files' = files \ {p} /\ UNCHANGED orphans
     \/ ~Referenced(p) /\ orphans' = orphans \union {p} /\ UNCHANGED files
  /\ upload' = [upload EXCEPT ![t].check = @ \ {p}]
  /\ UNCHANGED <<avatar, named>>

AvatarAnswered(t) ==
  /\ upload[t].phase = "clean" /\ upload[t].check = {}
  /\ upload' = [upload EXCEPT ![t] = NoUpload]
  /\ UNCHANGED <<avatar, files, named, orphans>>

AvatarsCrash ==
  /\ upload' = [t \in Uploads |-> NoUpload]
  /\ orphans' = orphans \union {p \in files : ~Referenced(p)}
  /\ UNCHANGED <<avatar, files, named>>

AvatarsNext ==
  \/ \E t \in Uploads :
       \/ \E o \in Owners, p \in Pictures : StoreAvatar(t, o, p)
       \/ \E o \in Owners : DeleteAvatar(t, o)
       \/ SwapCommitted(t) \/ SwapUnknown(t) \/ SwapFailed(t)
       \/ \E p \in upload[t].check : CleanAvatar(t, p)
       \/ AvatarAnswered(t)
  \/ AvatarsCrash

AvatarsSpec == AvatarsInit /\ [][AvatarsNext]_avatarVars

-----------------------------------------------------------------------------
\* Rows and disk agree whatever uploads and deletions race and however their
\* commits end: an address in a row has its file, and a file without an
\* address is some request's to remove, or was left by an error or a crash.
AvatarsMatchFiles ==
  /\ \A o \in Owners : avatar[o] # NoPicture => avatar[o] \in files
  /\ \A p \in files : \/ Referenced(p) \/ p \in orphans
                      \/ \E t \in Uploads : upload[t].staged = p \/ p \in upload[t].check
=============================================================================
