---------------------------- MODULE SharedLinks ----------------------------
(***************************************************************************)
(* What a share link promises its owner (ShareChatModal.svelte): a link    *)
(* holds the snapshot its owner last took of the chat.  Going on with the  *)
(* chat does not change it; only taking another snapshot does.  A revoked  *)
(* link never holds anything again, and revoking a chat's link revokes     *)
(* every snapshot there is of the chat.                                    *)
(***************************************************************************)
CONSTANTS Chats, Links, Contents, None, NotYet, Gone

VARIABLES
  doc,      \* what each chat contains, None where there is no chat
  link      \* what each link holds: NotYet, [of, content], or Gone

vars == <<doc, link>>

Snapshots == [of : Chats, content : Contents]
Held      == {l \in Links : link[l] \in Snapshots}

Init == /\ doc  = [c \in Chats |-> None]
        /\ link = [l \in Links |-> NotYet]

\* Chats come, change and go; the links do not follow.
Edit == /\ doc' \in [Chats -> Contents \union {None}]
        /\ UNCHANGED link

\* The owner takes a snapshot of c, under a new link or under one c has.
Take(l, c) ==
  /\ doc[c] \in Contents
  /\ link[l] = NotYet \/ (l \in Held /\ link[l].of = c)
  /\ link' = [link EXCEPT ![l] = [of |-> c, content |-> doc[c]]]
  /\ UNCHANGED doc

\* All links of the chats D are withdrawn, perhaps because the chats go.
Revoke(D) ==
  /\ link' = [l \in Links |-> IF l \in Held /\ link[l].of \in D
                              THEN Gone ELSE link[l]]
  /\ doc' \in [Chats -> Contents \union {None}]
  /\ \A c \in Chats \ D : doc[c] # None => doc'[c] = doc[c]

Next == \/ Edit
        \/ \E l \in Links, c \in Chats : Take(l, c)
        \/ \E D \in SUBSET Chats : Revoke(D)

Spec == Init /\ [][Next]_vars
=============================================================================
