------------------------------ MODULE Channels ------------------------------
(***************************************************************************)
(* How messages of users reach the bus (infra/channels).  Telegram's       *)
(* handler takes one update after the other, again if Telegram sends it    *)
(* again, and waits for its downloads.                                     *)
(* QQ's events are filtered in the thread of its bot and handed to the     *)
(* main loop, where each is a task of its own.  Both keep the index of     *)
(* known users in the metadata of their sessions.                          *)
(***************************************************************************)
EXTENDS Integers, Sequences, SequencesExt, FiniteSets, FiniteSetsExt

CONSTANTS
    PostForms,              \* messages: app, chat, user, kind ("text", "media", "document", "stop")
    AllowedUsers,           \* allow_from of the channel, or of the group
    NamedUsers,             \* those with a user name
    SeenMax,                \* _SEEN_MSG_MAXSIZE
    MaxPosts, MaxRepeats, MaxRestarts   \* bounds: messages, updates that come again, restarts

Unnamed == "nobody"
Chats == {form.chat : form \in PostForms}
Users == {form.user : form \in PostForms}

\* A private chat of QQ has its user's id, and a group's has a prefix.
ASSUME ChannelsAssumption ==
    /\ SeenMax \in Nat \ {0} /\ {MaxPosts, MaxRepeats, MaxRestarts} \subseteq Nat
    /\ Unnamed \notin Users
    /\ \A form \in PostForms :
        /\ form.app \in {"tg", "qq"} /\ form.kind \in {"text", "media", "document", "stop"}
        /\ form.app = "qq" /\ form.chat \in Users => form.chat = form.user

VARIABLES
    posted,                 \* the messages; a number of one is its message_id
    delivered,              \* how many of them have come
    seen,                   \* MessageDeduper's window
    accepted,               \* what it has let through since the start
    known,                  \* SessionIdentityIndex.mapping: user -> chat
    memoryUser, storedUser, \* the user in a session's metadata, in memory and on disk
    tasks,                  \* messages on their way to the bus: message, step
    published,              \* the numbers on the bus since the start
    interrupts,             \* the numbers of the /stop that were carried out
    unsaved,                \* chats whose metadata could not be written
    repeats, restarts

channelVars == <<posted, delivered, seen, accepted, known, memoryUser, storedUser, tasks, published,
                 interrupts, unsaved, repeats, restarts>>

ChannelInit ==
    /\ posted = <<>> /\ delivered = 0 /\ seen = <<>> /\ accepted = <<>>
    /\ known = [u \in Users |-> Unnamed]
    /\ memoryUser = [c \in Chats |-> Unnamed] /\ storedUser = [c \in Chats |-> Unnamed]
    /\ tasks = <<>> /\ published = <<>> /\ interrupts = {} /\ unsaved = {} /\ repeats = 0 /\ restarts = 0

\* The two channels share nothing but the bus: a behaviour is about one.
Posts ==
    /\ Len(posted) < MaxPosts
    /\ \E form \in PostForms :
        /\ \A i \in DOMAIN posted : posted[i].app = form.app
        /\ posted' = Append(posted, form)
    /\ UNCHANGED <<delivered, seen, accepted, known, memoryUser, storedUser, tasks, published, interrupts,
                   unsaved, repeats, restarts>>

-----------------------------------------------------------------------------
\* Mutant: the window is cut one short.
SeenWith_short(window, n) ==
    LET longer == Append(window, n) IN IF Len(longer) >= SeenMax THEN Tail(longer) ELSE longer

\* MessageDeduper.seen: the window slides.
SeenWith(window, n) ==
    LET longer == Append(window, n) IN IF Len(longer) > SeenMax THEN Tail(longer) ELSE longer

\* remember, for a user with a name; a QQ chat's metadata has its own id.
Identity(post) == IF post.app = "qq" THEN post.chat ELSE IF post.user \in NamedUsers THEN post.user ELSE Unnamed

NeedsSave(post) == Identity(post) \notin {Unnamed, memoryUser[post.chat]}

Slow(post) == post.kind \in {"media", "document"}

TasksBut(n) ==
    LET places == {i \in DOMAIN tasks : tasks[i].message = n}
    IN  IF places = {} THEN tasks ELSE RemoveAt(tasks, CHOOSE i \in places : TRUE)

\* Mutant: a text waits like the others.
Proceeds_waits(n) == tasks' = Append(TasksBut(n), [message |-> n, step |-> "waits"]) /\ UNCHANGED published

\* Telegram's handler shows that the bot types and downloads what there is; a text
\* of QQ's goes to the bus without waiting, and what has media to its download.
Proceeds(n) ==
    IF Slow(posted[n]) \/ posted[n].app = "tg"
    THEN tasks' = Append(TasksBut(n), [message |-> n, step |-> "waits"]) /\ UNCHANGED published
    ELSE tasks' = TasksBut(n) /\ published' = Append(published, n)

\* remember: the name is known at once; whether to save it is asked of the metadata
\* in memory.  Nothing is waited for, and a save that fails is the handler's end.
Remembers(n) ==
    LET post == posted[n]
        name == Identity(post)
        c == post.chat
    IN  /\ known' = IF name \in Users THEN [known EXCEPT ![name] = c] ELSE known
        /\ memoryUser' = IF NeedsSave(post) THEN [memoryUser EXCEPT ![c] = name] ELSE memoryUser
        /\ \/ /\ storedUser' = IF NeedsSave(post) THEN [storedUser EXCEPT ![c] = name] ELSE storedUser
              /\ unsaved' = IF NeedsSave(post) THEN unsaved \ {c} ELSE unsaved
              /\ Proceeds(n)
           \/ /\ NeedsSave(post)
              /\ unsaved' = unsaved \cup {c}
              /\ tasks' = TasksBut(n) /\ UNCHANGED <<storedUser, published>>

\* _on_message, _on_photo, _on_document, _on_stop_command.  Neither a document nor
\* a /stop is looked for in the window.
TelegramUpdate ==
    /\ tasks = <<>>
    /\ \E n \in (1..(delivered + 1)) \cap DOMAIN posted :
        LET post == posted[n]
            twice == post.kind \in {"text", "media"} /\ n \in ToSet(seen)
            taken == post.user \in AllowedUsers /\ post.kind # "stop" /\ ~twice
        IN  /\ post.app = "tg"
            /\ n <= delivered => repeats < MaxRepeats
            /\ repeats' = IF n <= delivered THEN repeats + 1 ELSE repeats
            /\ delivered' = IF n > delivered THEN n ELSE delivered
            /\ interrupts' = IF post.kind = "stop" /\ post.user \in AllowedUsers
                             THEN interrupts \cup {n} ELSE interrupts
            /\ seen' = IF taken /\ post.kind # "document" THEN SeenWith(seen, n) ELSE seen
            /\ accepted' = IF taken /\ post.kind # "document" THEN Append(accepted, n) ELSE accepted
            /\ IF taken THEN Remembers(n) ELSE UNCHANGED <<known, memoryUser, storedUser,
                                                           unsaved, tasks, published>>
    /\ UNCHANGED <<posted, restarts>>

\* on_private_message, on_group_message, in the bot's thread: what is filtered out,
\* or cannot be filtered in time, is gone; the rest goes to the main loop, in order.
QqEvent ==
    /\ delivered < Len(posted) /\ posted[delivered + 1].app = "qq"
    /\ delivered' = delivered + 1
    /\ LET n == delivered + 1
       IN  \/ posted[n].user \in AllowedUsers /\ tasks' = Append(tasks, [message |-> n, step |-> "start"])
           \/ UNCHANGED tasks
    /\ UNCHANGED <<posted, seen, accepted, known, memoryUser, storedUser, published,
                   interrupts, unsaved, repeats, restarts>>

Waiting(step) == {i \in DOMAIN tasks : tasks[i].step = step}

\* _handle_private, _handle_group, _handle_stop_private: the first that was handed over.
QqStarts ==
    /\ Waiting("start") # {}
    /\ LET n == tasks[Min(Waiting("start"))].message
       IN  IF posted[n].kind = "stop"
           THEN /\ interrupts' = interrupts \cup {n}
                /\ tasks' = TasksBut(n)
                /\ UNCHANGED <<known, memoryUser, storedUser, unsaved, published>>
           ELSE Remembers(n) /\ UNCHANGED interrupts
    /\ UNCHANGED <<posted, delivered, seen, accepted, repeats, restarts>>

\* A turn's commit writes the metadata of the session that memory has.
TurnSaves ==
    \E c \in unsaved :
        /\ storedUser' = [storedUser EXCEPT ![c] = memoryUser[c]]
        /\ unsaved' = unsaved \ {c}
        /\ UNCHANGED <<posted, delivered, seen, accepted, known, memoryUser, tasks, published,
                       interrupts, repeats, restarts>>

\* The waiting ends.  QQ leaves out what it cannot get; a Telegram message with media
\* that cannot be had is lost.
Downloaded ==
    \E i \in Waiting("waits") :
        LET n == tasks[i].message
        IN  /\ tasks' = RemoveAt(tasks, i)
            /\ published' = Append(published, n) \/ (posted[n].app = "tg" /\ Slow(posted[n]) /\ published' = published)
            /\ UNCHANGED <<posted, delivered, seen, accepted, known, memoryUser, storedUser,
                           interrupts, unsaved, repeats, restarts>>

\* rebuild: of several chats with a user's name, the last one that is read.
Leads(c, u) ==
    LET own == {d \in Chats : storedUser[d] = u} IN IF own = {} THEN c = Unnamed ELSE c \in own

\* A restart, at any time: the index comes from the metadata on disk.
ProcessRestarts ==
    /\ restarts < MaxRestarts
    /\ restarts' = restarts + 1
    /\ seen' = <<>> /\ accepted' = <<>> /\ tasks' = <<>> /\ published' = <<>> /\ unsaved' = {}
    /\ memoryUser' = storedUser
    /\ known' \in {index \in [Users -> Chats \cup {Unnamed}] : \A u \in Users : Leads(index[u], u)}
    /\ UNCHANGED <<posted, delivered, storedUser, interrupts, repeats>>

ChannelNext == Posts \/ TelegramUpdate \/ QqEvent \/ QqStarts \/ TurnSaves \/ Downloaded \/ ProcessRestarts

ChannelSpec == ChannelInit /\ [][ChannelNext]_channelVars

-----------------------------------------------------------------------------
ChannelTypeOK ==
    /\ Len(seen) <= SeenMax /\ delivered \in 0..Len(posted)
    /\ known \in [Users -> Chats \cup {Unnamed}]
    /\ memoryUser \in [Chats -> Users \cup Chats \cup {Unnamed}]
    /\ \A i \in DOMAIN tasks : tasks[i].step \in {"start", "waits"}

\* A message comes through again only when the window has moved past it.
OncePerWindow ==
    \A i, j \in DOMAIN accepted : i < j /\ accepted[i] = accepted[j] => j - i > SeenMax

\* Only what the window has let through, and documents, is on the bus, and of
\* users that are allowed; a /stop interrupts and is no message.
OnlyTheAllowed ==
    /\ \A n \in ToSet(published) \cup interrupts : posted[n].user \in AllowedUsers
    /\ \A n \in ToSet(published) : posted[n].kind # "stop"

\* A name leads to a chat in which its user has written, also after a restart.
KnownWroteThere ==
    \A u \in Users : known[u] # Unnamed =>
        \E i \in 1..delivered : posted[i].user = u /\ posted[i].chat = known[u] /\ u \in AllowedUsers

\* What is on disk is what memory has, unless the writing of it has failed.
MetadataIsSaved == \A c \in Chats : storedUser[c] # memoryUser[c] => c \in unsaved

\* Telegram's messages are on the bus in the order in which they came first; one of
\* QQ's is overtaken only if it had media.
OrderIsKept ==
    \A i, j \in DOMAIN published :
        LET early == published[j]
            late == published[i]
        IN  i < j /\ early < late /\ posted[early].chat = posted[late].chat =>
                \/ posted[early].app = "tg" /\ repeats > 0
                \/ posted[early].app = "qq" /\ Slow(posted[early])

(***************************************************************************)
(* Whatever comes twice, waits, fails or is cut off by a restart: a        *)
(* message comes through once per window, only of users that are allowed,  *)
(* in order where nothing had to be waited for; and a known user's name    *)
(* leads, in this process and the next, to a chat of theirs.               *)
(***************************************************************************)
InboundIsSound ==
    OncePerWindow /\ OnlyTheAllowed /\ KnownWroteThere /\ MetadataIsSaved /\ OrderIsKept
=============================================================================
