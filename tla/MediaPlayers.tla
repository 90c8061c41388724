---------------------------- MODULE MediaPlayers ----------------------------
(***************************************************************************)
(* The players that asked the media-keys plugin for its keys               *)
(* (plugins/media-keys/csd_media-keys-manager.c), in a list by the time of *)
(* asking, the first of which gets them; and how the mpris plugin becomes  *)
(* one of them (plugins/mpris/csd_mpris-manager.c): through a proxy that   *)
(* it makes when the daemon's name appears on the bus.                     *)
(***************************************************************************)
EXTENDS SequencesExt, Integers

CONSTANTS
  App,       \* other players
  MaxStarts, \* bound on the starts of each of the two plugins, and, with one more, of both
  Width,     \* 2^32, the times there are
  MaxTime    \* bound on the clock

VARIABLES
  on, begun,   \* mpris is activated; starts so far
  keyson,      \* media-keys is; starts so far
  keysbegun,
  now,         \* the clock, in milliseconds
  players,     \* media_players: [app, time]
  named,       \* what mpris was told of the daemon's name: "unwatched", "waiting", "there", "gone"
  opening,     \* proxies that are being made
  proxied,     \* media_keys_proxy is there
  leaked,      \* a proxy was overwritten, whose signals go on calling the plugin
  asking,      \* GrabMediaPlayerKeys of mpris is on its way
  last,        \* history: who asked last, with the current time
  astray       \* history: what parts mpris from the keys has happened

vars == <<on, begun, keyson, keysbegun, now, players, named, opening, proxied, leaked, asking, last, astray>>

Mpris == "CsdMpris"
NoApp == "none"

Init ==
  /\ on = FALSE /\ begun = 0 /\ keyson = FALSE /\ keysbegun = 0
  /\ now = 2 /\ players = <<>>
  /\ named = "unwatched" /\ opening = 0 /\ proxied = FALSE /\ leaked = FALSE /\ asking = FALSE
  /\ last = NoApp /\ astray = {}

-----------------------------------------------------------------------------
Tick ==
  /\ now < MaxTime
  /\ now' = now + 1
  /\ UNCHANGED <<on, begun, keyson, keysbegun, players, named, opening, proxied, leaked, asking, last, astray>>

(* Where an application is in the list.                                    *)
Of(app) == {i \in DOMAIN players : players[i].app = app}

(* The first that g_list_find_custom finds is deleted.                     *)
Without(app) == IF Of(app) = {} THEN players ELSE RemoveAt(players, Min(Of(app)))

(* Mutant: a player goes behind those of the same time.                    *)
InsertedBehind(list, p) ==
  InsertAt(list, Min({i \in DOMAIN list : list[i].time < p.time} \cup {Len(list) + 1}), p)

(* g_list_insert_sorted by find_by_time: before those of the same time     *)
Inserted(list, p) ==
  InsertAt(list, Min({i \in DOMAIN list : list[i].time <= p.time} \cup {Len(list) + 1}), p)

(* csd_media_keys_manager_grab_media_player_keys: the current time, or one *)
(* that is lower than all.  Who has asked at that time or later is left    *)
(* where he is.                                                            *)
GrabMediaPlayerKeys(app, current) ==
  LET t == IF current THEN now % Width ELSE 1
      stays == Of(app) # {} /\ players[Min(Of(app))].time >= t
  IN /\ players' = IF stays THEN players ELSE Inserted(Without(app), [app |-> app, time |-> t])
     /\ last' = IF current THEN app ELSE IF last = app THEN NoApp ELSE last
     /\ astray' = IF current /\ stays THEN astray \cup {"tie"} ELSE astray

(* The object of the plugin is on the bus from its first start on: no stop *)
(* takes it off, and who asks a stopped plugin is in the list of the next  *)
(* start.                                                                  *)
OnTheBus == keysbegun > 0

Grabs(app, current) ==
  /\ OnTheBus
  /\ GrabMediaPlayerKeys(app, current)
  /\ UNCHANGED <<on, begun, keyson, keysbegun, now, named, opening, proxied, leaked, asking>>

(* csd_media_keys_manager_release_media_player_keys                        *)
Releases(app) ==
  /\ OnTheBus
  /\ players' = Without(app)
  /\ last' = IF last = app THEN NoApp ELSE last
  /\ UNCHANGED <<on, begun, keyson, keysbegun, now, named, opening, proxied, leaked, asking, astray>>

StartMediaKeys ==
  /\ ~keyson /\ keysbegun < MaxStarts /\ begun + keysbegun <= MaxStarts
  /\ keyson' = TRUE
  /\ keysbegun' = keysbegun + 1
  /\ UNCHANGED <<on, begun, now, players, named, opening, proxied, leaked, asking, last, astray>>

(* csd_media_keys_manager_stop: the players are forgotten, who are not     *)
(* told.                                                                   *)
StopMediaKeys ==
  /\ keyson
  /\ keyson' = FALSE
  /\ players' = <<>>
  /\ last' = NoApp
  /\ astray' = astray \cup {"forgotten"}
  /\ UNCHANGED <<on, begun, keysbegun, now, named, opening, proxied, leaked, asking>>

-----------------------------------------------------------------------------
(* csd_mpris_manager_start: g_bus_watch_name                               *)
Start ==
  /\ ~on /\ begun < MaxStarts /\ begun + keysbegun <= MaxStarts
  /\ on' = TRUE
  /\ begun' = begun + 1
  /\ named' = "waiting"
  /\ UNCHANGED <<keyson, keysbegun, now, players, opening, proxied, leaked, asking, last, astray>>

(* csd_name_appeared                                                       *)
CsdNameAppeared ==
  /\ named \in {"waiting", "gone"} /\ opening < 2
  /\ named' = "there"
  /\ opening' = opening + 1
  /\ UNCHANGED <<on, begun, keyson, keysbegun, now, players, proxied, leaked, asking, last, astray>>

(* A proxy that is being made will be there too late.                      *)
Overtaken == astray' = astray \cup (IF opening > 0 THEN {"late"} ELSE {})

(* Mutant: the proxy is kept.                                              *)
CsdNameVanishedKeepingTheProxy ==
  /\ named \in {"waiting", "there"}
  /\ named' = "gone"
  /\ Overtaken
  /\ UNCHANGED <<on, begun, keyson, keysbegun, now, players, opening, proxied, leaked, asking, last>>

(* csd_name_vanished                                                       *)
CsdNameVanished ==
  /\ named \in {"waiting", "there"}
  /\ named' = "gone"
  /\ proxied' = FALSE
  /\ Overtaken
  /\ UNCHANGED <<on, begun, keyson, keysbegun, now, players, opening, leaked, asking, last>>

(* got_proxy_cb, grab_media_player_keys: whatever became of the name and   *)
(* the plugin meanwhile.  A proxy that was there is overwritten, and goes  *)
(* on calling.                                                             *)
GotProxy ==
  /\ opening > 0
  /\ opening' = opening - 1
  /\ leaked' = (leaked \/ proxied)
  /\ \/ proxied' = TRUE /\ asking' = TRUE /\ UNCHANGED astray
     \/ proxied' = FALSE /\ astray' = astray \cup {"failed"} /\ UNCHANGED asking
  /\ UNCHANGED <<on, begun, keyson, keysbegun, now, players, named, last>>

(* The call arrives, where media-keys may never have been started.         *)
MprisGrabs ==
  /\ asking
  /\ asking' = FALSE
  /\ IF OnTheBus THEN GrabMediaPlayerKeys(Mpris, TRUE)
     ELSE astray' = astray \cup {"failed"} /\ UNCHANGED <<players, last>>
  /\ UNCHANGED <<on, begun, keyson, keysbegun, now, named, opening, proxied, leaked>>

(* csd_mpris_manager_stop: a proxy that is being made is not cancelled,    *)
(* and the keys are not released.                                          *)
Stop ==
  /\ on
  /\ on' = FALSE
  /\ proxied' = FALSE
  /\ named' = "unwatched"
  /\ Overtaken
  /\ UNCHANGED <<begun, keyson, keysbegun, now, players, opening, leaked, asking, last>>

Next ==
  \/ Tick \/ StartMediaKeys \/ StopMediaKeys \/ Start \/ Stop
  \/ CsdNameAppeared \/ CsdNameVanished \/ GotProxy \/ MprisGrabs
  \/ \E app \in App : Releases(app) \/ \E current \in BOOLEAN : Grabs(app, current)

Spec == Init /\ [][Next]_vars

-----------------------------------------------------------------------------
(* What the plugin holds.                                                  *)
Held == IF proxied THEN {"proxy"} ELSE {}

(* A stopped plugin is told nothing of the daemon's name; as long as no    *)
(* proxy came late it has none, and none is being made.                    *)
LetGo ==
  /\ opening \in Nat
  /\ ~on => /\ named = "unwatched"
            /\ "late" \notin astray => ~proxied /\ opening = 0

CameLate == "late" \in astray

(* The player that asked last for the current time gets the keys, and who  *)
(* asked for a lower time never takes them from one, as long as the clock  *)
(* has not wrapped and no one asks twice in one millisecond.               *)
LastAskedListens ==
  now < Width /\ "tie" \notin astray /\ last # NoApp => players # <<>> /\ Head(players).app = last

(* There is one proxy, and only while the daemon's name is, and through it *)
(* the plugin gets to be one of the players, of media-keys that is stopped *)
(* even: unless it came too late or was not made, or media-keys had never  *)
(* been started when it asked, or was stopped since.                       *)
ProxyFollowsName ==
  /\ "late" \notin astray => ~leaked /\ (proxied => named = "there")
  /\ on /\ named = "there" /\ opening = 0 /\ ~asking /\ astray \cap {"failed", "forgotten"} = {}
       => \E i \in DOMAIN players : players[i].app = Mpris

(* As long as the clock has not wrapped, and no one asks twice in one      *)
(* millisecond, nobody has asked at a time that is yet to come; and who    *)
(* asked last with the current time is ahead of those with the lowest.     *)
PlayersAreInTime ==
  /\ now \in Nat /\ now >= 2
  /\ players \in Seq([app : App \cup {Mpris}, time : Nat])
  /\ now < Width /\ "tie" \notin astray =>
       /\ \A i \in DOMAIN players : players[i].time \in 1..now
       /\ last # NoApp => players # <<>> /\ Head(players).app = last /\ Head(players).time > 1

(* One proxy is made for one appearance of the name, unless one comes too  *)
(* late; and what it is for ends with its call, or with one that fails.    *)
ProxyIsOne ==
  /\ opening \in Nat
  /\ ~on => named = "unwatched"
  /\ "late" \notin astray =>
       /\ ~leaked
       /\ proxied => named = "there"
       /\ opening > 0 => named = "there" /\ ~proxied /\ opening = 1
  /\ on /\ named = "there" /\ astray \cap {"failed", "forgotten"} = {}
       => opening > 0 \/ asking \/ Of(Mpris) # {}

=============================================================================
