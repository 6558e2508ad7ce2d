----------------------------- MODULE MCBuildChannel -----------------------------
(* The subscribers of a build channel, as part of an instance for TLC.         *)

CONSTANTS Listener, Event, Topic

ASSUME TopicAssumption == Topic # {}

VARIABLES subs, link, about, phase, inbox, heard, due, touched

channelVars == <<subs, link, about, phase, inbox, heard, due, touched>>

Chan == INSTANCE BuildChannel WITH Conn <- Listener, conn <- link

(* Each event reaches every client that stays subscribed, and no client twice. *)
HeardOnce == Chan!HeardOnce

(* A connection that has ended is in no list of subscribers, and only an event *)
(* copied before its end touches it.                                           *)
NoStaleSubscriber == Chan!NoStaleSubscriber
=============================================================================
