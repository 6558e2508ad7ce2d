----------------------------- MODULE BuildChannel -----------------------------
(* BuildChannel and WsRouter: the threads of a build manager send events of a  *)
(* build or a launch to the connections that have subscribed to it or to all.  *)
(* The sets of subscribers have a mutex; the sends, to raw pointers copied     *)
(* under it, happen without.  The other channels send in the same way.         *)
EXTENDS Naturals

CONSTANTS
    Conn,    \* WebSocket connections
    Event,   \* the events sent in a behaviour, each in a thread of its own
    Topic    \* builds and launches

VARIABLES
    subs,    \* build_subscribers_ and launch_subscribers_, and all_subscribers_
    conn,    \* connection: open, closing, removed from the channel, or gone
    about,   \* the build or launch of an event
    phase,   \* event: none, told to the channel, copied to the recipients
    inbox,   \* event -> how often it is still to be sent to each connection
    heard,   \* history: event -> how often a connection has got it
    due,     \* history: event -> who has been subscribed ever since it was told
    touched  \* history: connections sent to after their end

vars == <<subs, conn, about, phase, inbox, heard, due, touched>>

Key == Topic \cup {"all"}
Count == [Conn -> Nat]
None == [c \in Conn |-> 0]

Init ==
    /\ subs = [k \in Key |-> {}] /\ conn = [c \in Conn |-> "open"]
    /\ about = [e \in Event |-> CHOOSE t \in Topic : TRUE]
    /\ phase = [e \in Event |-> "none"]
    /\ inbox = [e \in Event |-> None] /\ heard = [e \in Event |-> None]
    /\ due = [e \in Event |-> {}] /\ touched = {}

-----------------------------------------------------------------------------
(* Messages of a client, one at a time.                                        *)
Listening(c, t) == c \in subs[t] \cup subs["all"]

Subscribe(c, k) ==
    /\ conn[c] = "open" /\ c \notin subs[k]
    /\ subs' = [subs EXCEPT ![k] = @ \cup {c}]
    /\ UNCHANGED <<conn, about, phase, inbox, heard, due, touched>>

StillDue(c, k) ==
    [e \in Event |-> IF k = "all" \/ k = about[e] THEN due[e] \ {c} ELSE due[e]]

Unsubscribe(c, k) ==
    /\ conn[c] = "open" /\ c \in subs[k]
    /\ subs' = [subs EXCEPT ![k] = @ \ {c}]
    /\ due' = StillDue(c, k)
    /\ UNCHANGED <<conn, about, phase, inbox, heard, touched>>

(* on_close of the router has one channel after the other forget the           *)
(* connection, this one among them, and Crow destroys it after that.           *)
CloseBegins(c) ==
    /\ conn[c] = "open"
    /\ conn' = [conn EXCEPT ![c] = "closing"]
    /\ due' = [e \in Event |-> due[e] \ {c}]
    /\ UNCHANGED <<subs, about, phase, inbox, heard, touched>>

RemainsInAll(c, k) == IF k = "all" THEN subs[k] ELSE subs[k] \ {c}
Remaining(c, k) == subs[k] \ {c}

HandleDisconnect(c) ==
    /\ conn[c] = "closing"
    /\ subs' = [k \in Key |-> Remaining(c, k)]
    /\ conn' = [conn EXCEPT ![c] = "removed"]
    /\ UNCHANGED <<about, phase, inbox, heard, due, touched>>

Destroyed(c) ==
    /\ conn[c] = "removed"
    /\ conn' = [conn EXCEPT ![c] = "gone"]
    /\ UNCHANGED <<subs, about, phase, inbox, heard, due, touched>>

Client(c) ==
    \/ \E k \in Key : Subscribe(c, k) \/ Unsubscribe(c, k)
    \/ CloseBegins(c) \/ HandleDisconnect(c) \/ Destroyed(c)

-----------------------------------------------------------------------------
(* on_build_output, on_build_status_changed and their launch counterparts.     *)
Tell(e, t) ==
    /\ phase[e] = "none"
    /\ phase' = [phase EXCEPT ![e] = "told"]
    /\ about' = [about EXCEPT ![e] = t]
    /\ due' = [due EXCEPT ![e] = {c \in Conn : Listening(c, t) /\ conn[c] = "open"}]
    /\ UNCHANGED <<subs, conn, inbox, heard, touched>>

(* broadcast copies the recipients, each once ...                              *)
AllEntries(c, t) == (IF c \in subs[t] THEN 1 ELSE 0) + (IF c \in subs["all"] THEN 1 ELSE 0)
Entries(c, t) == IF Listening(c, t) THEN 1 ELSE 0

Copy(e) ==
    /\ phase[e] = "told"
    /\ phase' = [phase EXCEPT ![e] = "copied"]
    /\ inbox' = [inbox EXCEPT ![e] = [c \in Conn |-> Entries(c, about[e])]]
    /\ UNCHANGED <<subs, conn, about, heard, due, touched>>

(* ... and sends to them, whatever has become of them: a connection that is    *)
(* gone is undefined behaviour.                                                *)
Send(e, c) ==
    /\ inbox[e][c] > 0
    /\ inbox' = [inbox EXCEPT ![e][c] = @ - 1]
    /\ IF conn[c] = "gone"
       THEN touched' = touched \cup {<<e, c>>} /\ UNCHANGED heard
       ELSE heard' = [heard EXCEPT ![e][c] = @ + 1] /\ UNCHANGED touched
    /\ UNCHANGED <<subs, conn, about, phase, due>>

Sender(e) == Copy(e) \/ (\E t \in Topic : Tell(e, t)) \/ \E c \in Conn : Send(e, c)

AtRest ==
    /\ \A c \in Conn : conn[c] = "gone"
    /\ \A e \in Event : phase[e] = "copied" /\ inbox[e] = None
Ended == AtRest /\ UNCHANGED vars

Next == (\E c \in Conn : Client(c)) \/ (\E e \in Event : Sender(e)) \/ Ended

Spec == Init /\ [][Next]_vars

-----------------------------------------------------------------------------
(* Every variable has its type.                                                *)
TypeOK ==
    /\ subs \in [Key -> SUBSET Conn]
    /\ conn \in [Conn -> {"open", "closing", "removed", "gone"}]
    /\ about \in [Event -> Topic] /\ phase \in [Event -> {"none", "told", "copied"}]
    /\ inbox \in [Event -> Count] /\ heard \in [Event -> Count]
    /\ due \in [Event -> SUBSET Conn] /\ touched \subseteq Event \X Conn

(* However a client has subscribed, it hears an event at most once, and it     *)
(* does hear it if it was subscribed all along, whoever else comes and goes.   *)
HeardOnce ==
    \A e \in Event, c \in Conn :
        /\ heard[e][c] + inbox[e][c] <= 1
        /\ phase[e] = "copied" /\ c \in due[e] => heard[e][c] + inbox[e][c] = 1

(* A connection that is destroyed is touched only by events copied before the  *)
(* channel was told of its end: no set keeps a pointer to it.                  *)
NoStaleSubscriber ==
    /\ \A c \in Conn, k \in Key : conn[c] \in {"removed", "gone"} => c \notin subs[k]
    /\ \A e \in Event, c \in Conn : <<e, c>> \in touched => c \notin due[e] /\ phase[e] = "copied"
=============================================================================
