-------------------------- MODULE ChatStoreProofs --------------------------
(***************************************************************************)
(* Proofs about ChatStore for any number of chats, links and updates:      *)
(* types, the ownership of share ids, deleted chats, and that the shared   *)
(* copies implement SharedLinks.                                           *)
(***************************************************************************)
EXTENDS ChatStore, TLAPS

USE ChatStoreAssumption

(* The type of what exists. *)
LEMMA RowTypes ==
  ASSUME TypeOK
  PROVE  /\ \A c \in Live : c \in Chats /\ chat[c] \in Documents
         /\ \A l \in Links : Exists(copy[l]) <=> copy[l] \in Snapshots
         /\ \A l \in Links : Opened(l) \subseteq Contents
<1>1. /\ \A c \in Live : c \in Chats /\ chat[c] \in Documents
      /\ \A l \in Links : Exists(copy[l]) <=> copy[l] \in Snapshots
  BY DEF TypeOK, Live, Exists
<1> QED BY <1>1 DEF Opened, Documents

(* Every row and every update under way keeps its shape, whatever the      *)
(* routes of routers/chats.py do to them and wherever the process dies.    *)
THEOREM TypeCorrect == Spec => []TypeOK
<1>1. Init => TypeOK
  BY DEF Init, TypeOK
<1>2. TypeOK /\ [Next]_vars => TypeOK'
  <2> SUFFICES ASSUME TypeOK, Next PROVE TypeOK'
    BY DEF vars, TypeOK
  <2>0. /\ \A c \in Live : chat[c] \in Documents
        /\ \A l \in Links : Opened(l) \subseteq Contents
    BY RowTypes
  <2>1. ASSUME NEW c \in Chats, CreateChat(c) PROVE TypeOK'
    BY <2>1 DEF CreateChat, Insert, TypeOK, Documents, Contents, Snapshots
  <2>2. ASSUME NEW c \in Chats, ReplaceChats(c) PROVE TypeOK'
    BY <2>2 DEF ReplaceChats, DropCopies, CopiesOf, TypeOK, Documents,
       Contents, Snapshots
  <2>3. ASSUME NEW c \in Chats, Unshare(c) PROVE TypeOK'
    BY <2>0, <2>3 DEF Unshare, DropCopies, CopiesOf, SetShare, TypeOK, Documents,
       Contents, Snapshots
  <2>4. ASSUME NEW c \in Chats, UnshareCrashes(c) PROVE TypeOK'
    BY <2>4 DEF UnshareCrashes, DropCopies, CopiesOf, TypeOK, Documents,
       Contents, Snapshots
  <2>5. ASSUME NEW c \in Chats, DeleteChat(c) PROVE TypeOK'
    BY <2>5 DEF DeleteChat, DropChats, DropCopies, CopiesOf, TypeOK,
       Documents, Contents, Snapshots
  <2>6. ASSUME NEW c \in Chats, DeleteChatCrashes(c) PROVE TypeOK'
    BY <2>6 DEF DeleteChatCrashes, DropChats, TypeOK, Documents, Contents,
       Snapshots
  <2>7. ASSUME NEW c \in Chats, NEW d \in Chats, CloneChat(c, d) PROVE TypeOK'
    BY <2>0, <2>7 DEF CloneChat, Insert, TypeOK, Documents, Contents, Snapshots
  <2>8. ASSUME NEW c \in Chats, NEW d \in Chats, BranchChat(c, d) PROVE TypeOK'
    BY <2>0, <2>8 DEF BranchChat, Insert, TypeOK, Documents, Contents, Snapshots
  <2>9. ASSUME NEW c \in Chats, NEW l \in Links, ShareFirst(c, l) PROVE TypeOK'
    BY <2>0, <2>9 DEF ShareFirst, Snapshot, SetShare, TypeOK, Documents, Contents,
       Snapshots
  <2>10. ASSUME NEW c \in Chats, NEW l \in Links, ShareFirstCrashes(c, l)
        PROVE  TypeOK'
    BY <2>0, <2>10 DEF ShareFirstCrashes, Snapshot, TypeOK, Documents, Contents,
       Snapshots
  <2>11. ASSUME NEW c \in Chats, NEW l \in Links, ShareAgain(c, l) PROVE TypeOK'
    BY <2>0, <2>11 DEF ShareAgain, Snapshot, CopiesOf, TypeOK, Documents, Contents,
       Snapshots
  <2>12. ASSUME NEW c \in Chats, NEW l \in Links, CloneSharedChat(c, l)
        PROVE  TypeOK'
    BY <2>0, <2>12 DEF CloneSharedChat, Insert, TypeOK, Documents, Contents,
       Snapshots
  <2>13. ASSUME NEW r \in Requests, NEW c \in Chats, NEW form \in Forms, BeginUpdate(r, c, form)
        PROVE  TypeOK'
    BY <2>0, <2>13 DEF BeginUpdate, Merge, Forms, Updates, TypeOK, Documents,
       Contents, Snapshots
  <2>14. ASSUME NEW r \in Requests, WriteUpdate(r) PROVE TypeOK'
    BY <2>0, <2>14 DEF WriteUpdate, SetContent, Updates, TypeOK, Documents, Contents,
       Snapshots
  <2>15. ASSUME NEW c \in Chats, NEW text \in Texts, UpsertMessage(c, text)
        PROVE  TypeOK'
    BY <2>0, <2>15 DEF UpsertMessage, SetContent, TypeOK, Documents, Contents,
       Snapshots
  <2>16. ASSUME NEW c \in Chats, NEW title \in Titles, SetTitle(c, title)
        PROVE  TypeOK'
    BY <2>0, <2>16 DEF SetTitle, SetContent, TypeOK, Documents, Contents, Snapshots
  <2>17. ASSUME NEW c \in Chats, NEW folder \in BOOLEAN, MoveChat(c, folder)
        PROVE  TypeOK'
    BY <2>0, <2>17 DEF MoveChat, TypeOK, Documents, Contents, Snapshots
  <2>18. ASSUME DeleteAllChats PROVE TypeOK'
    BY <2>18 DEF DeleteAllChats, DropChats, DropCopies, CopiesOf, TypeOK,
       Documents, Contents, Snapshots
  <2>19. ASSUME DeleteAllChatsCrashes PROVE TypeOK'
    BY <2>19 DEF DeleteAllChatsCrashes, DropCopies, CopiesOf, TypeOK,
       Documents, Contents, Snapshots
  <2>20. ASSUME DeleteFolder PROVE TypeOK'
    BY <2>20 DEF DeleteFolder, DropChats, Folder, TypeOK, Documents, Contents,
       Snapshots
  <2>21. ASSUME Restart PROVE TypeOK'
    BY <2>21 DEF Restart, TypeOK, Documents, Contents, Snapshots
  <2> QED BY <2>1, <2>2, <2>3, <2>4, <2>5, <2>6, <2>7, <2>8, <2>9, <2>10,
       <2>11, <2>12, <2>13, <2>14, <2>15, <2>16, <2>17, <2>18, <2>19, <2>20,
       <2>21 DEF Next
<1> QED BY <1>1, <1>2, PTL DEF Spec

(* A deleted chat stays deleted, also when an update that read it before    *)
(* comes to write it (Chats.update_chat_by_id finds no row).               *)
THEOREM DeletedChatsStayDeleted == Spec => DeletedStaysDeleted
<1>1. TypeOK /\ [Next]_vars =>
        [\A c \in Chats : chat[c] = Gone => chat'[c] = Gone]_vars
  <2> SUFFICES ASSUME TypeOK, Next, NEW b \in Chats, chat[b] = Gone
               PROVE  chat'[b] = Gone
    OBVIOUS
  <2>1. ASSUME NEW c \in Chats, CreateChat(c) PROVE chat'[b] = Gone
    BY <2>1 DEF CreateChat, Insert, TypeOK, Live, Exists
  <2>2. ASSUME NEW c \in Chats, ReplaceChats(c) PROVE chat'[b] = Gone
    BY <2>2 DEF ReplaceChats, DropCopies, CopiesOf, TypeOK, Live, Exists
  <2>3. ASSUME NEW c \in Chats, Unshare(c) PROVE chat'[b] = Gone
    BY <2>3 DEF Unshare, DropCopies, CopiesOf, SetShare, TypeOK, Live,
       Exists
  <2>4. ASSUME NEW c \in Chats, UnshareCrashes(c) PROVE chat'[b] = Gone
    BY <2>4 DEF UnshareCrashes, DropCopies, CopiesOf, TypeOK, Live, Exists
  <2>5. ASSUME NEW c \in Chats, DeleteChat(c) PROVE chat'[b] = Gone
    BY <2>5 DEF DeleteChat, DropChats, DropCopies, CopiesOf, TypeOK, Live,
       Exists
  <2>6. ASSUME NEW c \in Chats, DeleteChatCrashes(c) PROVE chat'[b] = Gone
    BY <2>6 DEF DeleteChatCrashes, DropChats, TypeOK, Live, Exists
  <2>7. ASSUME NEW c \in Chats, NEW d \in Chats, CloneChat(c, d) PROVE chat'[b] = Gone
    BY <2>7 DEF CloneChat, Insert, TypeOK, Live, Exists
  <2>8. ASSUME NEW c \in Chats, NEW d \in Chats, BranchChat(c, d) PROVE chat'[b] = Gone
    BY <2>8 DEF BranchChat, Insert, TypeOK, Live, Exists
  <2>9. ASSUME NEW c \in Chats, NEW l \in Links, ShareFirst(c, l) PROVE chat'[b] = Gone
    BY <2>9 DEF ShareFirst, Snapshot, SetShare, TypeOK, Live, Exists
  <2>10. ASSUME NEW c \in Chats, NEW l \in Links, ShareFirstCrashes(c, l)
         PROVE  chat'[b] = Gone
    BY <2>10 DEF ShareFirstCrashes, Snapshot, TypeOK, Live, Exists
  <2>11. ASSUME NEW c \in Chats, NEW l \in Links, ShareAgain(c, l) PROVE chat'[b] = Gone
    BY <2>11 DEF ShareAgain, Snapshot, CopiesOf, TypeOK, Live, Exists
  <2>12. ASSUME NEW c \in Chats, NEW l \in Links, CloneSharedChat(c, l)
         PROVE  chat'[b] = Gone
    BY <2>12 DEF CloneSharedChat, Insert, Opened, TypeOK, Live, Exists
  <2>13. ASSUME NEW r \in Requests, NEW c \in Chats, NEW form \in Forms,
                 BeginUpdate(r, c, form)
         PROVE  chat'[b] = Gone
    BY <2>13 DEF BeginUpdate, Merge, Forms, Updates, TypeOK, Live, Exists
  <2>14. ASSUME NEW r \in Requests, WriteUpdate(r) PROVE chat'[b] = Gone
    BY <2>14 DEF WriteUpdate, SetContent, Updates, TypeOK, Live, Exists
  <2>15. ASSUME NEW c \in Chats, NEW text \in Texts, UpsertMessage(c, text)
         PROVE  chat'[b] = Gone
    BY <2>15 DEF UpsertMessage, SetContent, TypeOK, Live, Exists
  <2>16. ASSUME NEW c \in Chats, NEW title \in Titles, SetTitle(c, title)
         PROVE  chat'[b] = Gone
    BY <2>16 DEF SetTitle, SetContent, TypeOK, Live, Exists
  <2>17. ASSUME NEW c \in Chats, NEW folder \in BOOLEAN, MoveChat(c, folder)
         PROVE  chat'[b] = Gone
    BY <2>17 DEF MoveChat, TypeOK, Live, Exists
  <2>18. ASSUME DeleteAllChats PROVE chat'[b] = Gone
    BY <2>18 DEF DeleteAllChats, DropChats, DropCopies, CopiesOf, TypeOK,
       Live, Exists
  <2>19. ASSUME DeleteAllChatsCrashes PROVE chat'[b] = Gone
    BY <2>19 DEF DeleteAllChatsCrashes, DropCopies, CopiesOf, TypeOK, Live,
       Exists
  <2>20. ASSUME DeleteFolder PROVE chat'[b] = Gone
    BY <2>20 DEF DeleteFolder, DropChats, Folder, TypeOK, Live, Exists
  <2>21. ASSUME Restart PROVE chat'[b] = Gone
    BY <2>21 DEF Restart, TypeOK, Live, Exists
  <2> QED BY <2>1, <2>2, <2>3, <2>4, <2>5, <2>6, <2>7, <2>8, <2>9, <2>10,
       <2>11, <2>12, <2>13, <2>14, <2>15, <2>16, <2>17, <2>18, <2>19, <2>20,
       <2>21 DEF Next
<1> QED BY <1>1, TypeCorrect, PTL DEF Spec, DeletedStaysDeleted

(* No two chats answer to the same link, and a link never leads to another  *)
(* chat's copy.  The invariant is inductive over the types: a share id is  *)
(* drawn among those no chat and no copy has used.                         *)
THEOREM LinksStayOwn == Spec => []LinksAreOwn
<1>1. Init => LinksAreOwn
  BY DEF Init, LinksAreOwn, Live, Exists
<1>2. TypeOK /\ LinksAreOwn /\ [Next]_vars => LinksAreOwn'
  <2> SUFFICES ASSUME TypeOK, LinksAreOwn, Next PROVE LinksAreOwn'
    BY DEF vars, LinksAreOwn, Live, Exists
  <2>0. \A c \in Live : c \in Chats /\ chat[c] \in Documents
    BY RowTypes
  <2>1. ASSUME NEW c \in Chats, CreateChat(c) PROVE LinksAreOwn'
    BY <2>0, <2>1 DEF CreateChat, Insert, LinksAreOwn, TypeOK, Live, Exists,
       Documents, Snapshots
  <2>2. ASSUME NEW c \in Chats, ReplaceChats(c) PROVE LinksAreOwn'
    <3>1. \A d \in Live' : d = c
      BY <2>2 DEF ReplaceChats, Live, Exists
    <3>2. PICK content \in Contents :
            chat'[c] = [content |-> content, folder |-> FALSE, share |-> None]
      BY <2>2 DEF ReplaceChats
    <3>3. chat'[c].share = None
      BY <3>2
    <3> QED BY <3>1, <3>3 DEF LinksAreOwn
  <2>3. ASSUME NEW c \in Chats, Unshare(c) PROVE LinksAreOwn'
    BY <2>0, <2>3 DEF Unshare, DropCopies, CopiesOf, SetShare, LinksAreOwn,
       TypeOK, Live, Exists, Documents, Snapshots
  <2>4. ASSUME NEW c \in Chats, UnshareCrashes(c) PROVE LinksAreOwn'
    BY <2>0, <2>4 DEF UnshareCrashes, DropCopies, CopiesOf, LinksAreOwn,
       TypeOK, Live, Exists, Documents, Snapshots
  <2>5. ASSUME NEW c \in Chats, DeleteChat(c) PROVE LinksAreOwn'
    BY <2>0, <2>5 DEF DeleteChat, DropChats, DropCopies, CopiesOf,
       LinksAreOwn, TypeOK, Live, Exists, Documents, Snapshots
  <2>6. ASSUME NEW c \in Chats, DeleteChatCrashes(c) PROVE LinksAreOwn'
    BY <2>0, <2>6 DEF DeleteChatCrashes, DropChats, LinksAreOwn, TypeOK,
       Live, Exists, Documents, Snapshots
  <2>7. ASSUME NEW c \in Chats, NEW d \in Chats, CloneChat(c, d)
         PROVE  LinksAreOwn'
    BY <2>0, <2>7 DEF CloneChat, Insert, LinksAreOwn, TypeOK, Live, Exists,
       Documents, Snapshots
  <2>8. ASSUME NEW c \in Chats, NEW d \in Chats, BranchChat(c, d)
         PROVE  LinksAreOwn'
    BY <2>0, <2>8 DEF BranchChat, Insert, LinksAreOwn, TypeOK, Live, Exists,
       Documents, Snapshots
  <2>9. ASSUME NEW c \in Chats, NEW l \in Links, ShareFirst(c, l)
         PROVE  LinksAreOwn'
    BY <2>0, <2>9 DEF ShareFirst, Snapshot, SetShare, LinksAreOwn, TypeOK,
       Live, Exists, Documents, Snapshots
  <2>10. ASSUME NEW c \in Chats, NEW l \in Links, ShareFirstCrashes(c, l)
         PROVE  LinksAreOwn'
    BY <2>0, <2>10 DEF ShareFirstCrashes, Snapshot, LinksAreOwn, TypeOK,
       Live, Exists, Documents, Snapshots
  <2>11. ASSUME NEW c \in Chats, NEW l \in Links, ShareAgain(c, l)
         PROVE  LinksAreOwn'
    BY <2>0, <2>11 DEF ShareAgain, Snapshot, CopiesOf, LinksAreOwn, TypeOK,
       Live, Exists, Documents, Snapshots
  <2>12. ASSUME NEW c \in Chats, NEW l \in Links, CloneSharedChat(c, l)
         PROVE  LinksAreOwn'
    BY <2>0, <2>12 DEF CloneSharedChat, Insert, Opened, LinksAreOwn, TypeOK,
       Live, Exists, Documents, Snapshots
  <2>13. ASSUME NEW r \in Requests, NEW c \in Chats, NEW form \in Forms,
                 BeginUpdate(r, c, form)
         PROVE  LinksAreOwn'
    BY <2>0, <2>13 DEF BeginUpdate, Merge, Forms, Updates, LinksAreOwn,
       TypeOK, Live, Exists, Documents, Snapshots
  <2>14. ASSUME NEW r \in Requests, WriteUpdate(r) PROVE LinksAreOwn'
    BY <2>0, <2>14 DEF WriteUpdate, SetContent, Updates, LinksAreOwn,
       TypeOK, Live, Exists, Documents, Snapshots
  <2>15. ASSUME NEW c \in Chats, NEW text \in Texts, UpsertMessage(c, text)
         PROVE  LinksAreOwn'
    BY <2>0, <2>15 DEF UpsertMessage, SetContent, LinksAreOwn, TypeOK, Live,
       Exists, Documents, Snapshots
  <2>16. ASSUME NEW c \in Chats, NEW title \in Titles, SetTitle(c, title)
         PROVE  LinksAreOwn'
    BY <2>0, <2>16 DEF SetTitle, SetContent, LinksAreOwn, TypeOK, Live,
       Exists, Documents, Snapshots
  <2>17. ASSUME NEW c \in Chats, NEW folder \in BOOLEAN, MoveChat(c, folder)
         PROVE  LinksAreOwn'
    BY <2>0, <2>17 DEF MoveChat, LinksAreOwn, TypeOK, Live, Exists,
       Documents, Snapshots
  <2>18. ASSUME DeleteAllChats PROVE LinksAreOwn'
    BY <2>0, <2>18 DEF DeleteAllChats, DropChats, DropCopies, CopiesOf,
       LinksAreOwn, TypeOK, Live, Exists, Documents, Snapshots
  <2>19. ASSUME DeleteAllChatsCrashes PROVE LinksAreOwn'
    BY <2>0, <2>19 DEF DeleteAllChatsCrashes, DropCopies, CopiesOf,
       LinksAreOwn, TypeOK, Live, Exists, Documents, Snapshots
  <2>20. ASSUME DeleteFolder PROVE LinksAreOwn'
    BY <2>0, <2>20 DEF DeleteFolder, DropChats, Folder, LinksAreOwn, TypeOK,
       Live, Exists, Documents, Snapshots
  <2>21. ASSUME Restart PROVE LinksAreOwn'
    BY <2>0, <2>21 DEF Restart, LinksAreOwn, TypeOK, Live, Exists,
       Documents, Snapshots
  <2> QED BY <2>1, <2>2, <2>3, <2>4, <2>5, <2>6, <2>7, <2>8, <2>9, <2>10,
       <2>11, <2>12, <2>13, <2>14, <2>15, <2>16, <2>17, <2>18, <2>19, <2>20,
       <2>21 DEF Next
<1> QED BY <1>1, <1>2, TypeCorrect, PTL DEF Spec

(* The copies implement SharedLinks for any number of chats and links:     *)
(* sharing is Take, unsharing and the deletions that drop copies are       *)
(* Revoke, the other routes change at most the chats, and a process that   *)
(* dies between two commits leaves a state the promise allows.             *)
THEOREM CopiesKeepThePromise == Spec => CopiesAreSnapshots
<1>1. Init => Promise!Init
  BY DEF Init, Promise!Init, Doc, Exists
<1>2. TypeOK /\ TypeOK' /\ [Next]_vars => [Promise!Next]_(Promise!vars)
  <2> DEFINE Mapped == Promise!Next \/ UNCHANGED Promise!vars
  <2> SUFFICES ASSUME TypeOK, TypeOK', Next PROVE Mapped
    BY DEF vars, Promise!vars, Doc
  <2>0. /\ Doc' \in [Chats -> Contents \union {None}]
        /\ \A c \in Live : c \in Chats /\ chat[c] \in Documents
        /\ \A l \in Links : Exists(copy[l]) <=> copy[l] \in Snapshots
    <3>1. Doc' \in [Chats -> Contents \union {None}]
      BY DEF TypeOK, Doc, Exists, Documents
    <3> QED BY <3>1, RowTypes
  <2>1. ASSUME NEW c \in Chats, CreateChat(c) PROVE Mapped
    BY <2>0, <2>1 DEF CreateChat, Insert, Promise!Next, Promise!Edit
  <2>2. ASSUME NEW c \in Chats, ReplaceChats(c) PROVE Mapped
    <3>1. Live \in SUBSET Chats
      BY DEF Live
    <3>2. copy' = [k \in Links |-> IF k \in Promise!Held /\ copy[k].of \in Live
                                  THEN Gone ELSE copy[k]]
      BY <2>0, <2>2 DEF ReplaceChats, DropCopies, CopiesOf, Promise!Held,
         Promise!Snapshots, Snapshots
    <3>3. \A b \in Chats \ Live : Doc[b] # None => Doc'[b] = Doc[b]
      BY <2>0, <2>2 DEF ReplaceChats, Doc, Live, Exists, TypeOK, Documents
    <3> QED BY <2>0, <3>1, <3>2, <3>3 DEF Promise!Next, Promise!Revoke
  <2>3. ASSUME NEW c \in Chats, Unshare(c) PROVE Mapped
    <3>1. {c} \in SUBSET Chats
      BY DEF Live
    <3>2. copy' = [k \in Links |-> IF k \in Promise!Held /\ copy[k].of \in {c}
                                  THEN Gone ELSE copy[k]]
      BY <2>0, <2>3 DEF Unshare, DropCopies, CopiesOf, Promise!Held,
         Promise!Snapshots, Snapshots
    <3>3. \A b \in Chats \ {c} : Doc[b] # None => Doc'[b] = Doc[b]
      BY <2>0, <2>3 DEF Unshare, SetShare, Doc, Live, Exists, TypeOK,
         Documents
    <3> QED BY <2>0, <3>1, <3>2, <3>3 DEF Promise!Next, Promise!Revoke
  <2>4. ASSUME NEW c \in Chats, UnshareCrashes(c) PROVE Mapped
    <3>1. {c} \in SUBSET Chats
      BY DEF Live
    <3>2. copy' = [k \in Links |-> IF k \in Promise!Held /\ copy[k].of \in {c}
                                  THEN Gone ELSE copy[k]]
      BY <2>0, <2>4 DEF UnshareCrashes, DropCopies, CopiesOf, Promise!Held,
         Promise!Snapshots, Snapshots
    <3>3. \A b \in Chats \ {c} : Doc[b] # None => Doc'[b] = Doc[b]
      BY <2>0, <2>4 DEF UnshareCrashes, Doc, Live, Exists, TypeOK, Documents
    <3> QED BY <2>0, <3>1, <3>2, <3>3 DEF Promise!Next, Promise!Revoke
  <2>5. ASSUME NEW c \in Chats, DeleteChat(c) PROVE Mapped
    <3>1. {c} \in SUBSET Chats
      BY DEF Live
    <3>2. copy' = [k \in Links |-> IF k \in Promise!Held /\ copy[k].of \in {c}
                                  THEN Gone ELSE copy[k]]
      BY <2>0, <2>5 DEF DeleteChat, DropCopies, CopiesOf, Promise!Held,
         Promise!Snapshots, Snapshots
    <3>3. \A b \in Chats \ {c} : Doc[b] # None => Doc'[b] = Doc[b]
      BY <2>0, <2>5 DEF DeleteChat, DropChats, Doc, Live, Exists, TypeOK,
         Documents
    <3> QED BY <2>0, <3>1, <3>2, <3>3 DEF Promise!Next, Promise!Revoke
  <2>6. ASSUME NEW c \in Chats, DeleteChatCrashes(c) PROVE Mapped
    BY <2>0, <2>6 DEF DeleteChatCrashes, Promise!Next, Promise!Edit
  <2>7. ASSUME NEW c \in Chats, NEW d \in Chats, CloneChat(c, d) PROVE Mapped
    BY <2>0, <2>7 DEF CloneChat, Insert, Promise!Next, Promise!Edit
  <2>8. ASSUME NEW c \in Chats, NEW d \in Chats, BranchChat(c, d) PROVE Mapped
    BY <2>0, <2>8 DEF BranchChat, Insert, Promise!Next, Promise!Edit
  <2>9. ASSUME NEW c \in Chats, NEW l \in Links, ShareFirst(c, l) PROVE Mapped
    <3>1. c \in Live /\ UNCHANGED Doc
      BY <2>0, <2>9 DEF ShareFirst, Snapshot, SetShare, Live, Exists, Doc,
         TypeOK, Documents, Contents
    <3>2. Doc[c] = chat[c].content /\ Doc[c] \in Contents
      BY <2>0, <3>1 DEF Doc, Live, Documents
    <3>3. copy[l] = NotYet \/ (l \in Promise!Held /\ copy[l].of = c)
      BY <2>0, <2>9 DEF ShareFirst, Snapshot, SetShare, Live, Exists,
         Promise!Held, Promise!Snapshots, Snapshots
    <3> QED
      BY <2>9, <3>1, <3>2, <3>3 DEF ShareFirst, Snapshot, Promise!Next,
         Promise!Take
  <2>10. ASSUME NEW c \in Chats, NEW l \in Links, ShareFirstCrashes(c, l)
         PROVE  Mapped
    <3>1. c \in Live /\ UNCHANGED Doc
      BY <2>0, <2>10 DEF ShareFirstCrashes, Snapshot, Live, Exists, Doc,
         TypeOK, Documents, Contents
    <3>2. Doc[c] = chat[c].content /\ Doc[c] \in Contents
      BY <2>0, <3>1 DEF Doc, Live, Documents
    <3>3. copy[l] = NotYet \/ (l \in Promise!Held /\ copy[l].of = c)
      BY <2>0, <2>10 DEF ShareFirstCrashes, Snapshot, Live, Exists,
         Promise!Held, Promise!Snapshots, Snapshots
    <3> QED
      BY <2>10, <3>1, <3>2, <3>3 DEF ShareFirstCrashes, Snapshot,
         Promise!Next, Promise!Take
  <2>11. ASSUME NEW c \in Chats, NEW l \in Links, ShareAgain(c, l) PROVE Mapped
    <3>1. c \in Live /\ UNCHANGED Doc
      BY <2>0, <2>11 DEF ShareAgain, Snapshot, CopiesOf, Live, Exists, Doc,
         TypeOK, Documents, Contents
    <3>2. Doc[c] = chat[c].content /\ Doc[c] \in Contents
      BY <2>0, <3>1 DEF Doc, Live, Documents
    <3>3. copy[l] = NotYet \/ (l \in Promise!Held /\ copy[l].of = c)
      BY <2>0, <2>11 DEF ShareAgain, Snapshot, CopiesOf, Live, Exists,
         Promise!Held, Promise!Snapshots, Snapshots
    <3> QED
      BY <2>11, <3>1, <3>2, <3>3 DEF ShareAgain, Snapshot, Promise!Next,
         Promise!Take
  <2>12. ASSUME NEW c \in Chats, NEW l \in Links, CloneSharedChat(c, l)
         PROVE  Mapped
    BY <2>0, <2>12 DEF CloneSharedChat, Insert, Promise!Next, Promise!Edit
  <2>13. ASSUME NEW r \in Requests, NEW c \in Chats, NEW form \in Forms, BeginUpdate(r, c, form)
         PROVE  Mapped
    BY <2>13 DEF BeginUpdate, Doc, Promise!vars
  <2>14. ASSUME NEW r \in Requests, WriteUpdate(r) PROVE Mapped
    BY <2>0, <2>14 DEF WriteUpdate, Promise!Next, Promise!Edit
  <2>15. ASSUME NEW c \in Chats, NEW text \in Texts, UpsertMessage(c, text)
         PROVE  Mapped
    BY <2>0, <2>15 DEF UpsertMessage, Promise!Next, Promise!Edit
  <2>16. ASSUME NEW c \in Chats, NEW title \in Titles, SetTitle(c, title)
         PROVE  Mapped
    BY <2>0, <2>16 DEF SetTitle, Promise!Next, Promise!Edit
  <2>17. ASSUME NEW c \in Chats, NEW folder \in BOOLEAN, MoveChat(c, folder)
         PROVE  Mapped
    BY <2>0, <2>17 DEF MoveChat, Promise!Next, Promise!Edit
  <2>18. ASSUME DeleteAllChats PROVE Mapped
    <3>1. Live \in SUBSET Chats
      BY DEF Live
    <3>2. copy' = [k \in Links |-> IF k \in Promise!Held /\ copy[k].of \in Live
                                  THEN Gone ELSE copy[k]]
      BY <2>0, <2>18 DEF DeleteAllChats, DropCopies, CopiesOf, Promise!Held,
         Promise!Snapshots, Snapshots
    <3>3. \A b \in Chats \ Live : Doc[b] # None => Doc'[b] = Doc[b]
      BY <2>0, <2>18 DEF DeleteAllChats, DropChats, Doc, Live, Exists,
         TypeOK, Documents
    <3> QED BY <2>0, <3>1, <3>2, <3>3 DEF Promise!Next, Promise!Revoke
  <2>19. ASSUME DeleteAllChatsCrashes PROVE Mapped
    <3>1. Live \in SUBSET Chats
      BY DEF Live
    <3>2. copy' = [k \in Links |-> IF k \in Promise!Held /\ copy[k].of \in Live
                                  THEN Gone ELSE copy[k]]
      BY <2>0, <2>19 DEF DeleteAllChatsCrashes, DropCopies, CopiesOf,
         Promise!Held, Promise!Snapshots, Snapshots
    <3>3. \A b \in Chats \ Live : Doc[b] # None => Doc'[b] = Doc[b]
      BY <2>0, <2>19 DEF DeleteAllChatsCrashes, Doc, Live, Exists, TypeOK,
         Documents
    <3> QED BY <2>0, <3>1, <3>2, <3>3 DEF Promise!Next, Promise!Revoke
  <2>20. ASSUME DeleteFolder PROVE Mapped
    BY <2>0, <2>20 DEF DeleteFolder, Promise!Next, Promise!Edit
  <2>21. ASSUME Restart PROVE Mapped
    BY <2>21 DEF Restart, Doc, Promise!vars
  <2> HIDE DEF Mapped
  <2> QED BY <2>1, <2>2, <2>3, <2>4, <2>5, <2>6, <2>7, <2>8, <2>9, <2>10,
       <2>11, <2>12, <2>13, <2>14, <2>15, <2>16, <2>17, <2>18, <2>19, <2>20,
       <2>21 DEF Next
<1> QED BY <1>1, <1>2, TypeCorrect, PTL DEF Spec, CopiesAreSnapshots, Promise!Spec

=============================================================================
