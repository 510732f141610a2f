----------------------------- MODULE ChatStore -----------------------------
(***************************************************************************)
(* The chats of one user in the database and the requests that change      *)
(* them (routers/chats.py over models/chats.py).                           *)
(*                                                                         *)
(* A chat is a row with a JSON document; a shared chat has a second row,   *)
(* the copy, whose id is the link and whose user_id is "shared-<chat>".    *)
(* The routes are coroutines over a synchronous database: what a route     *)
(* does between two awaits is one step.  Only the partial update awaits    *)
(* in between: it reads the document, merges the form into it, has the     *)
(* images normalised in a thread, and then writes the whole document.      *)
(* The process may die between any two commits (the ...Crashes actions).   *)
(*                                                                         *)
(* Of a document the model keeps the title and the text of the messages;   *)
(* of the other columns the share id and whether the chat is in a folder.  *)
(* Ids are drawn at random (uuid4): a chat or link id is used once.        *)
(*                                                                         *)
(* An operator X_Defect is X with a plausible defect: a mutant that the    *)
(* properties are tried against, used by no specification.                 *)
(***************************************************************************)
EXTENDS Naturals, FiniteSets

CONSTANTS
  Chats,        \* bound: chat ids
  Links,        \* bound: share ids
  Requests,     \* bound: partial updates under way at the same time
  Titles,       \* what a chat can be called
  Texts,        \* what its messages can say
  FolderLimit,  \* FOLDER_MAX_ITEM_COUNT, 0: unlimited
  None,         \* no share id; no form key; no request
  NotYet,       \* an id not drawn yet
  Gone          \* a row that was deleted

Contents  == [title : Titles, text : Texts]
Documents == [content : Contents, folder : BOOLEAN, share : Links \union {None}]
Snapshots == [of : Chats, content : Contents]
Forms     == [title : Titles \union {None}, text : Texts \union {None}]
Updates   == [chat : Chats, form : Forms, payload : Contents]

ASSUME ChatStoreAssumption ==
  /\ IsFiniteSet(Chats)
  /\ FolderLimit \in Nat
  /\ None \notin Links \union Titles \union Texts \union Contents \union Updates
  /\ NotYet \notin Documents \union Snapshots
  /\ Gone \notin Documents \union Snapshots
  /\ NotYet # Gone

VARIABLES
  chat,      \* the chat rows
  copy,      \* the shared copies, by share id
  request    \* the partial updates that wait for the normalisation

vars == <<chat, copy, request>>

Exists(row) == row # NotYet /\ row # Gone
Live        == {c \in Chats : Exists(chat[c])}
CopiesOf(D) == {l \in Links : Exists(copy[l]) /\ copy[l].of \in D}
Folder      == {c \in Live : chat[c].folder}

Init == /\ chat    = [c \in Chats |-> NotYet]
        /\ copy    = [l \in Links |-> NotYet]
        /\ request = [r \in Requests |-> None]

(* What a reader of the link gets: get_chat_by_share_id looks for the chat *)
(* that carries the share id and returns that chat.                        *)
Opened(l) == {chat[c].content : c \in {d \in Live : chat[d].share = l}}

-----------------------------------------------------------------------------
(* New chats *)

\* _build_chat_row: no share id, whatever the payload was copied from.
Insert(c, content, folder) ==
  /\ chat[c] = NotYet
  /\ chat' = [chat EXCEPT ![c] = [content |-> content, folder |-> folder,
                                  share |-> None]]

CreateChat(c) ==
  /\ \E content \in Contents, folder \in BOOLEAN : Insert(c, content, folder)
  /\ UNCHANGED <<copy, request>>

CloneChat_WithShareId(c, d) ==
  /\ d \in Live
  /\ chat[c] = NotYet
  /\ chat' = [chat EXCEPT ![c] = chat[d]]
  /\ UNCHANGED <<copy, request>>

CloneChat(c, d) ==
  /\ d \in Live
  /\ \E title \in Titles :
       Insert(c, [title |-> title, text |-> chat[d].content.text], FALSE)
  /\ UNCHANGED <<copy, request>>

\* The messages up to the branch point: some text; the folder is kept.
BranchChat(c, d) ==
  /\ d \in Live
  /\ \E content \in Contents : Insert(c, content, chat[d].folder)
  /\ UNCHANGED <<copy, request>>

\* A reader of the link makes the chat their own.
CloneSharedChat(c, l) ==
  /\ \E content \in Opened(l), title \in Titles :
       Insert(c, [title |-> title, text |-> content.text], FALSE)
  /\ UNCHANGED <<copy, request>>

-----------------------------------------------------------------------------
(* Changes of a document *)

Merge_NoMerge(content, form) == form

Merge(content, form) ==
  [title |-> IF form.title = None THEN content.title ELSE form.title,
   text  |-> IF form.text  = None THEN content.text  ELSE form.text]

SetContent(c, content) ==
  chat' = [chat EXCEPT ![c] = [content |-> content, folder |-> chat[c].folder,
                               share |-> chat[c].share]]

\* POST /{id}: the document is read and merged before the await ...
BeginUpdate(r, c, form) ==
  /\ request[r] = None
  /\ c \in Live
  /\ request' = [request EXCEPT ![r] =
       [chat |-> c, form |-> form, payload |-> Merge(chat[c].content, form)]]
  /\ UNCHANGED <<chat, copy>>

WriteUpdate_Reinserts(r) ==
  /\ request[r] # None
  /\ chat' = [chat EXCEPT ![request[r].chat] =
       [content |-> request[r].payload, folder |-> FALSE, share |-> None]]
  /\ request' = [request EXCEPT ![r] = None]
  /\ UNCHANGED copy

\* ... and written after it; a chat deleted meanwhile is not written.
WriteUpdate(r) ==
  /\ request[r] # None
  /\ IF request[r].chat \in Live
     THEN SetContent(request[r].chat, request[r].payload)
     ELSE UNCHANGED chat
  /\ request' = [request EXCEPT ![r] = None]
  /\ UNCHANGED copy

UpsertMessage_SharedToo(c, text) ==
  /\ c \in Live
  /\ SetContent(c, [title |-> chat[c].content.title, text |-> text])
  /\ copy' = [l \in Links |-> IF l \in CopiesOf({c})
                              THEN [of |-> c, content |-> chat'[c].content]
                              ELSE copy[l]]
  /\ UNCHANGED request

\* upsert_message_to_chat_by_id_and_message_id, in one step.
UpsertMessage(c, text) ==
  /\ c \in Live
  /\ SetContent(c, [title |-> chat[c].content.title, text |-> text])
  /\ UNCHANGED <<copy, request>>

\* update_chat_title_by_id, when a title was generated.
SetTitle(c, title) ==
  /\ c \in Live
  /\ SetContent(c, [title |-> title, text |-> chat[c].content.text])
  /\ UNCHANGED <<copy, request>>

MoveChat(c, folder) ==
  /\ c \in Live
  /\ folder /\ FolderLimit > 0 => Cardinality(Folder) < FolderLimit
  /\ chat' = [chat EXCEPT ![c] = [content |-> chat[c].content, folder |-> folder,
                                  share |-> chat[c].share]]
  /\ UNCHANGED <<copy, request>>

-----------------------------------------------------------------------------
(* Sharing *)

SetShare(c, share) ==
  chat' = [chat EXCEPT ![c] = [content |-> chat[c].content,
                               folder |-> chat[c].folder, share |-> share]]

Snapshot(l, c) ==
  copy' = [copy EXCEPT ![l] = [of |-> c, content |-> chat[c].content]]

\* insert_shared_chat_by_chat_id: the copy, then the share id.
ShareFirst(c, l) ==
  /\ c \in Live /\ chat[c].share = None
  /\ copy[l] = NotYet
  /\ Snapshot(l, c)
  /\ SetShare(c, l)
  /\ UNCHANGED request

ShareFirstCrashes(c, l) ==
  /\ c \in Live /\ chat[c].share = None
  /\ copy[l] = NotYet
  /\ Snapshot(l, c)
  /\ request' = [r \in Requests |-> None]
  /\ UNCHANGED chat

\* update_shared_chat_by_chat_id: the first row of "shared-<chat>", if any.
ShareAgain(c, l) ==
  /\ c \in Live /\ chat[c].share # None
  /\ l \in CopiesOf({c})
  /\ Snapshot(l, c)
  /\ UNCHANGED <<chat, request>>

DropCopies(D) == copy' = [l \in Links |-> IF l \in CopiesOf(D) THEN Gone ELSE copy[l]]

Unshare(c) ==
  /\ c \in Live /\ chat[c].share # None
  /\ DropCopies({c})
  /\ SetShare(c, None)
  /\ UNCHANGED request

UnshareCrashes(c) ==
  /\ c \in Live /\ chat[c].share # None
  /\ DropCopies({c})
  /\ request' = [r \in Requests |-> None]
  /\ UNCHANGED chat

-----------------------------------------------------------------------------
(* Deletions *)

DropChats(D) == chat' = [c \in Chats |-> IF c \in D THEN Gone ELSE chat[c]]

\* delete_chat_by_id(_and_user_id): the chat, then its copies.
DeleteChat(c) ==
  /\ c \in Live
  /\ DropChats({c})
  /\ DropCopies({c})
  /\ UNCHANGED request

DeleteChatCrashes(c) ==
  /\ c \in Live
  /\ DropChats({c})
  /\ request' = [r \in Requests |-> None]
  /\ UNCHANGED copy

\* delete_chats_by_user_id: the copies, then the chats.
DeleteAllChats ==
  /\ DropCopies(Live)
  /\ DropChats(Live)
  /\ UNCHANGED request

DeleteAllChatsCrashes ==
  /\ DropCopies(Live)
  /\ request' = [r \in Requests |-> None]
  /\ UNCHANGED chat

\* delete_chats_by_user_id_and_folder_id: the copies stay.
DeleteFolder ==
  /\ DropChats(Folder)
  /\ UNCHANGED <<copy, request>>

\* replace_chats_by_user_id, one transaction; bound: one chat is imported.
ReplaceChats(c) ==
  /\ chat[c] = NotYet
  /\ DropCopies(Live)
  /\ \E content \in Contents :
       chat' = [d \in Chats |->
                  IF d = c
                  THEN [content |-> content, folder |-> FALSE, share |-> None]
                  ELSE IF d \in Live THEN Gone ELSE chat[d]]
  /\ UNCHANGED request

\* The process dies between two routes: the updates under way are lost.
Restart == /\ request' = [r \in Requests |-> None]
           /\ UNCHANGED <<chat, copy>>

-----------------------------------------------------------------------------
Next ==
  \/ \E c \in Chats : \/ CreateChat(c) \/ ReplaceChats(c)
                      \/ Unshare(c) \/ UnshareCrashes(c)
                      \/ DeleteChat(c) \/ DeleteChatCrashes(c)
  \/ \E c, d \in Chats : CloneChat(c, d) \/ BranchChat(c, d)
  \/ \E c \in Chats, l \in Links :
       \/ ShareFirst(c, l) \/ ShareFirstCrashes(c, l) \/ ShareAgain(c, l)
       \/ CloneSharedChat(c, l)
  \/ \E r \in Requests, c \in Chats, form \in Forms : BeginUpdate(r, c, form)
  \/ \E r \in Requests : WriteUpdate(r)
  \/ \E c \in Chats, text \in Texts : UpsertMessage(c, text)
  \/ \E c \in Chats, title \in Titles : SetTitle(c, title)
  \/ \E c \in Chats, folder \in BOOLEAN : MoveChat(c, folder)
  \/ DeleteAllChats \/ DeleteAllChatsCrashes \/ DeleteFolder \/ Restart

Spec == Init /\ [][Next]_vars

-----------------------------------------------------------------------------
(* Every row and every update under way has its shape. *)
TypeOK ==
  /\ chat \in [Chats -> Documents \union {NotYet, Gone}]
  /\ copy \in [Links -> Snapshots \union {NotYet, Gone}]
  /\ request \in [Requests -> Updates \union {None}]

(* A share id a chat carries was issued for that chat and for no other:    *)
(* whatever was cloned, branched, re-shared, deleted or cut short by a     *)
(* crash, a link never leads to another chat's copy and no two chats       *)
(* answer to the same link (get_chat_by_share_id takes the first).         *)
LinksAreOwn ==
  /\ \A c \in Live : chat[c].share # None =>
       /\ copy[chat[c].share] # NotYet
       /\ Exists(copy[chat[c].share]) => copy[chat[c].share].of = c
  /\ \A c, d \in Live : chat[c].share = chat[d].share /\ c # d => chat[c].share = None

(* A deleted chat stays deleted: an update that read the chat before it    *)
(* was deleted and comes to write it afterwards (models/chats.py:353-374)  *)
(* does not bring it back.                                                 *)
DeletedStaysDeleted ==
  [][\A c \in Chats : chat[c] = Gone => chat'[c] = Gone]_vars

(* The rows "shared-<chat>" keep the promise of SharedLinks: whatever      *)
(* happens to the chats, and wherever the process dies, a link's copy      *)
(* changes only when the owner shares again, and then to the chat as it    *)
(* is; a deleted copy never comes back.                                    *)
Doc  == [c \in Chats |-> IF Exists(chat[c]) THEN chat[c].content ELSE None]
Promise == INSTANCE SharedLinks WITH doc <- Doc, link <- copy
CopiesAreSnapshots == Promise!Spec

(* ShareChatModal.svelte:132: "Messages you send after creating your link  *)
(* won't be shared": whoever opens a link reads the copy.                  *)
SharedIsSnapshot ==
  \A l \in Links : Exists(copy[l]) => Opened(l) \subseteq {copy[l].content}

(* test_chats.py:219-243: a partial update changes the keys of its form    *)
(* and keeps the others, the messages among them.                          *)
RenameKeepsReply ==
  [][\A r \in Requests :
       (request[r] # None /\ WriteUpdate(r) /\ request[r].form.text = None
          /\ request[r].chat \in Live)
       => chat'[request[r].chat].content.text = chat[request[r].chat].content.text]_vars
=============================================================================
