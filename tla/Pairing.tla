------------------------------- MODULE Pairing -------------------------------
(***************************************************************************)
(* The table of paired stations (project/pairsta.c), the events that       *)
(* change it (project/events.c), the host commands about it                *)
(* (wificfg_set_paired_stas and wificfg_set_connect_paironly of            *)
(* project/syscfg.c) and the way of sys_cfgs to the flash and back.        *)
(*                                                                         *)
(* Three tasks meet here.  The 802.11 stack calls                          *)
(* sys_ieee80211_event_cb; a pairing changes the table in memory at        *)
(* PAIR_SUCCESS and queues a system event at PAIR_DONE.  The system event  *)
(* task saves the configuration when it comes to the event.  The command   *)
(* task replaces the table slot by slot.  Power may fail at any moment.    *)
(*                                                                         *)
(* The 802.11 stack, the system event queue and the flash are libraries    *)
(* and external.                                                           *)
(***************************************************************************)
EXTENDS Naturals, Sequences

CONSTANTS
  Sta,         \* the stations
  Zero,        \* the zero address
  SYS_STA_MAX, \* slots of the table
  IsStaMode,   \* MODE_IS_STA(wifi_mode); otherwise an access point
  EvtMax,      \* the system event queue (sys_event_init)
  HostLists,   \* the lists of wificfg_set_paired_stas; the code takes any length
  HostSwitch,  \* the host uses wificfg_set_connect_paironly
  AutoSave,    \* sys_cfgs.auto_save
  MaxSteps     \* bound: pairing sessions, unpairings and host commands

VARIABLES
  pair_stas,      \* sys_cfgs in memory: the table,
  pair_conn_only, \* the bit,
  behind,         \* and whose the fields behind the table are
  flash,          \* sys_cfgs on the flash
  pair_success,
  session,        \* the stack is pairing
  admitted,       \* the stations that passed PRE_ASSOC and are not yet connected
  conn,           \* the stations that are connected
  unpairs,        \* ieee80211_unpair was called, UNPAIR_SUCCESS is to come
  events,         \* the system event queue
  saving,         \* << >>, or << c >>: syscfg_save has read c and not yet written
  host,           \* what wificfg_set_paired_stas is doing
  steps

cfgs == <<pair_stas, pair_conn_only, behind>>
air == <<admitted, conn>>
vars == <<cfgs, flash, pair_success, session, air, unpairs, events, saving, host, steps>>

Slot == 1..SYS_STA_MAX
Table == [Slot -> Sta \cup {Zero}]
InTable(t, sta) == \E i \in Slot : t[i] = sta

\* sys_cfgs, and what syscfg_set_default_val makes of it: it does not touch
\* these fields, which a failed syscfg_init leaves at zero.
SysCfgs == [stas |-> pair_stas, only |-> pair_conn_only, behind |-> behind]
Default == [stas |-> [i \in Slot |-> Zero], only |-> FALSE, behind |-> "own"]
Configs == [stas : Table, only : BOOLEAN, behind : {"own", "overwritten"}]

NoHost == [at |-> "none", i |-> 1, list |-> << >>]

Init ==
  /\ pair_stas = [i \in Slot |-> Zero] /\ pair_conn_only \in BOOLEAN /\ behind = "own"
  /\ flash = SysCfgs /\ pair_success = FALSE
  /\ session = FALSE /\ admitted = {} /\ conn = {} /\ unpairs = {} /\ events = << >>
  /\ saving = << >> /\ host = NoHost /\ steps = 0

Count == steps < MaxSteps /\ steps' = steps + 1

First(P(_)) == CHOOSE i \in Slot : P(i) /\ \A j \in 1..(i-1) : ~P(j)
-----------------------------------------------------------------------------
(***************************************************************************)
(* sys_save_pairsta                                                        *)
(***************************************************************************)
\* Mutated: a full table gives up its first slot.
AddEvicts(sta) ==
  LET Empty(i) == pair_stas[i] = Zero
  IN IF IsStaMode THEN [pair_stas EXCEPT ![1] = sta]
     ELSE IF InTable(pair_stas, sta) THEN pair_stas
     ELSE IF \E i \in Slot : Empty(i) THEN [pair_stas EXCEPT ![First(Empty)] = sta]
     ELSE [pair_stas EXCEPT ![1] = sta]

\* del = 0.  A full table loses a station that is not connected, also one that is
\* about to be; if all are connected the new one is not remembered.
Add(sta) ==
  LET Empty(i) == pair_stas[i] = Zero
      Gone(i) == pair_stas[i] \notin conn
  IN IF IsStaMode THEN [pair_stas EXCEPT ![1] = sta]
     ELSE IF InTable(pair_stas, sta) THEN pair_stas
     ELSE IF \E i \in Slot : Empty(i) THEN [pair_stas EXCEPT ![First(Empty)] = sta]
     ELSE IF \E i \in Slot : Gone(i) THEN [pair_stas EXCEPT ![First(Gone)] = sta]
     ELSE pair_stas

\* del = 1
Remove(sta) ==
  LET Is(i) == pair_stas[i] = sta
  IN IF IsStaMode THEN [pair_stas EXCEPT ![1] = IF @ = sta THEN Zero ELSE @]
     ELSE IF \E i \in Slot : Is(i) THEN [pair_stas EXCEPT ![First(Is)] = Zero]
     ELSE pair_stas
-----------------------------------------------------------------------------
(***************************************************************************)
(* sys_ieee80211_event_cb                                                  *)
(***************************************************************************)
\* sys_event_new: an event that finds the queue full is lost, unnoticed.
Queue(e) == events' = IF Len(events) < EvtMax THEN Append(events, e) ELSE events

\* The stack ends these connections.
Drop(stas) == admitted' = admitted \ stas /\ conn' = conn \ stas

\* IEEE80211_EVENT_PAIR_START
PairStart ==
  /\ ~session /\ Count
  /\ session' = TRUE /\ pair_success' = FALSE
  /\ UNCHANGED <<cfgs, flash, air, unpairs, events, saving, host>>

\* IEEE80211_EVENT_PAIR_SUCCESS.  (With pair_autostop the callback also asks
\* the stack to end the session.)
PairSuccess(sta) ==
  /\ session
  /\ pair_stas' = Add(sta)
  /\ pair_success' = TRUE
  /\ UNCHANGED <<pair_conn_only, behind, flash, session, air, unpairs, events, saving, host, steps>>

\* IEEE80211_EVENT_PAIR_DONE
PairDone ==
  /\ session
  /\ session' = FALSE
  /\ Queue(IF pair_success THEN "PAIR_OK" ELSE "PAIR_FAIL")
  /\ UNCHANGED <<cfgs, flash, pair_success, air, unpairs, saving, host, steps>>

\* IEEE80211_EVENT_UNPAIR_SUCCESS: the peer unpaired, or wificfg_set_paired_stas
\* asked for it.  The stack drops the connection, or what was to become one.
UnpairSuccess(sta) ==
  /\ IF sta \in unpairs THEN UNCHANGED steps ELSE InTable(pair_stas, sta) /\ Count
  /\ unpairs' = unpairs \ {sta}
  /\ Drop({sta})
  /\ pair_stas' = Remove(sta)
  /\ Queue("UNPAIR")
  /\ UNCHANGED <<pair_conn_only, behind, flash, pair_success, session, saving, host>>

\* IEEE80211_EVENT_PRE_AUTH and PRE_ASSOC: the check, and no more.
PreAssoc(sta) ==
  /\ sta \notin admitted \cup conn
  /\ pair_conn_only => InTable(pair_stas, sta)
  /\ admitted' = admitted \cup {sta}
  /\ UNCHANGED <<cfgs, flash, pair_success, session, conn, unpairs, events, saving, host, steps>>

\* IEEE80211_EVENT_CONNECTED, later.  The table is not looked at again.
Connected(sta) ==
  /\ sta \in admitted
  /\ admitted' = admitted \ {sta}
  /\ conn' = IF IsStaMode THEN {sta} ELSE conn \cup {sta}
  /\ UNCHANGED <<cfgs, flash, pair_success, session, unpairs, events, saving, host, steps>>

\* The peer is lost, or does not get as far as CONNECTED.
Disconnect(sta) ==
  /\ sta \in admitted \cup conn
  /\ Drop({sta})
  /\ UNCHANGED <<cfgs, flash, pair_success, session, unpairs, events, saving, host, steps>>
-----------------------------------------------------------------------------
(***************************************************************************)
(* sys_event_hdl and syscfg_save                                           *)
(***************************************************************************)
\* Mutated: only a pairing is saved.
HandlePairOnly ==
  /\ saving = << >> /\ events # << >>
  /\ events' = Tail(events)
  /\ saving' = IF Head(events) = "PAIR_OK" THEN << SysCfgs >> ELSE << >>
  /\ UNCHANGED <<cfgs, flash, pair_success, session, air, unpairs, host, steps>>

HandleEvent ==
  /\ saving = << >> /\ events # << >>
  /\ events' = Tail(events)
  /\ saving' = IF Head(events) \in {"PAIR_OK", "UNPAIR"} THEN << SysCfgs >> ELSE << >>
  /\ UNCHANGED <<cfgs, flash, pair_success, session, air, unpairs, host, steps>>

\* The flash holds the configuration that was read, now or before the power fails.
Written ==
  /\ saving # << >>
  /\ flash' = saving[1] /\ saving' = << >>
  /\ UNCHANGED <<cfgs, pair_success, session, air, unpairs, events, host, steps>>

\* Power fails, and the program starts again with c in sys_cfgs.
StartsWith(c) ==
  /\ Count
  /\ pair_stas' = c.stas /\ pair_conn_only' = c.only /\ behind' = c.behind
  /\ pair_success' = FALSE /\ session' = FALSE /\ Drop(Sta) /\ unpairs' = {}
  /\ events' = << >> /\ saving' = << >> /\ host' = NoHost

\* sys_cfg_load reads all of sys_cfgs.
Restart == StartsWith(flash) /\ UNCHANGED flash

\* syscfg_init finds a configuration whose writing was cut off: default values, saved.
RestartDefault == saving # << >> /\ StartsWith(Default) /\ flash' = Default
-----------------------------------------------------------------------------
(***************************************************************************)
(* wificfg_set_paired_stas                                                 *)
(***************************************************************************)
HostBegin(list) ==
  /\ host.at = "none" /\ Count
  /\ host' = [at |-> "check", i |-> 1, list |-> list]
  /\ UNCHANGED <<cfgs, flash, pair_success, session, air, unpairs, events, saving>>

\* The turn of the first loop is over.
NextSlot == host' = IF host.i < SYS_STA_MAX THEN [host EXCEPT !.i = @ + 1, !.at = "check"]
                    ELSE [host EXCEPT !.i = 1, !.at = "copy"]

\* A turn of the first loop: an empty slot is passed over, and a station that is
\* not among the first SYS_STA_MAX of the list is unpaired.
HostCheck ==
  /\ host.at = "check"
  /\ LET sta == pair_stas[host.i]
     IN \/ sta = Zero /\ NextSlot /\ UNCHANGED unpairs
        \/ /\ sta # Zero /\ host' = [host EXCEPT !.at = "wipe"]
           /\ unpairs' = IF \E j \in Slot \cap DOMAIN host.list : host.list[j] = sta
                         THEN unpairs ELSE unpairs \cup {sta}
  /\ UNCHANGED <<cfgs, flash, pair_success, session, air, events, saving, steps>>

\* The slot is cleared, whoever is in it by now.
HostWipe ==
  /\ host.at = "wipe" /\ NextSlot
  /\ pair_stas' = [pair_stas EXCEPT ![host.i] = Zero]
  /\ UNCHANGED <<pair_conn_only, behind, flash, pair_success, session, air, unpairs, events, saving, steps>>

\* A turn of the second.  It goes to the end of the list and not of the table:
\* what is too much is written over uart_fixlen and the fields behind it.
HostCopy ==
  /\ host.at = "copy" /\ host.i \in DOMAIN host.list
  /\ IF host.i \in Slot
     THEN pair_stas' = [pair_stas EXCEPT ![host.i] = host.list[host.i]] /\ UNCHANGED behind
     ELSE behind' = "overwritten" /\ UNCHANGED pair_stas
  /\ host' = [host EXCEPT !.i = @ + 1]
  /\ UNCHANGED <<pair_conn_only, flash, pair_success, session, air, unpairs, events, saving, steps>>

\* wificfg_save(0), with the bit that is being set.
AutoSaves(only) ==
  /\ AutoSave => saving = << >>
  /\ saving' = IF AutoSave THEN << [SysCfgs EXCEPT !.only = only] >> ELSE saving

\* pair_conn_only, the restart of the interface, wificfg_save.
HostEnd ==
  /\ host.at = "copy" /\ host.i \notin DOMAIN host.list
  /\ pair_conn_only' = TRUE
  /\ Drop(Sta)
  /\ AutoSaves(TRUE)
  /\ host' = NoHost
  /\ UNCHANGED <<pair_stas, behind, flash, pair_success, session, unpairs, events, steps>>

\* wificfg_set_connect_paironly, by the same task.  The interface is restarted
\* when the bit is set.
SetConnectPaironly(en) ==
  /\ HostSwitch /\ host.at = "none" /\ pair_conn_only # en /\ Count
  /\ pair_conn_only' = en
  /\ IF en THEN Drop(Sta) ELSE UNCHANGED air
  /\ AutoSaves(en)
  /\ UNCHANGED <<pair_stas, behind, flash, pair_success, session, unpairs, events, host>>
-----------------------------------------------------------------------------
Next ==
  \/ PairStart \/ PairDone \/ HandleEvent \/ Written \/ Restart \/ RestartDefault
  \/ \E sta \in Sta : \/ PairSuccess(sta) \/ UnpairSuccess(sta)
                       \/ PreAssoc(sta) \/ Connected(sta) \/ Disconnect(sta)
  \/ \E list \in HostLists : HostBegin(list)
  \/ HostCheck \/ HostWipe \/ HostCopy \/ HostEnd
  \/ \E en \in BOOLEAN : SetConnectPaironly(en)

\* The system event task and the command task run, the flash is written, and the stack ends a session
\* (at the release of the pair key or with pair_autostop).
Spec ==
  /\ Init /\ [][Next]_vars
  /\ WF_vars(HandleEvent) /\ WF_vars(Written) /\ WF_vars(PairDone)
  /\ WF_vars(HostCheck \/ HostWipe \/ HostCopy \/ HostEnd)
-----------------------------------------------------------------------------
\* Every variable has its type (struct sys_config, the event queue).
TypeOK ==
  /\ SysCfgs \in Configs /\ flash \in Configs
  /\ pair_success \in BOOLEAN /\ session \in BOOLEAN
  /\ admitted \subseteq Sta /\ conn \subseteq Sta /\ unpairs \subseteq Sta
  /\ events \in Seq({"PAIR_OK", "PAIR_FAIL", "UNPAIR"}) /\ Len(events) <= EvtMax
  /\ saving = << >> \/ (Len(saving) = 1 /\ saving[1] \in Configs)
  /\ host.at \in {"none", "check", "wipe", "copy"} /\ host.i \in Nat
  /\ host.at \in {"check", "wipe"} => host.i \in Slot

\* No station has two slots, so that one unpairing (sys_save_pairsta with del)
\* forgets it, in memory and after a restart.  (Where the host sends no lists.)
OneSlotEach ==
  \A t \in {pair_stas, flash.stas} : \A i, j \in Slot : t[i] = t[j] /\ t[i] # Zero => i = j

\* What is in memory and not on the flash is on its way: in a session whose
\* success is noted, in the event queue, being written, or the host is not done.
UnsavedHasCause ==
  SysCfgs # flash =>
    \/ session /\ pair_success
    \/ \E k \in DOMAIN events : events[k] \in {"PAIR_OK", "UNPAIR"}
    \/ saving = << SysCfgs >>
    \/ host.at # "none"

\* With pair_conn_only a connected station is one of the table, whatever was
\* paired, unpaired, replaced, switched or lost between its check and CONNECTED
\* and since.  It holds where there are no more stations than slots: a pairing
\* that finds the table full may take the slot of a station between the two
\* (pairsta.c:95), which is then connected without one.
OnlyPairedConnect ==
  pair_conn_only /\ host.at = "none" /\ ~IsStaMode => \A sta \in conn : InTable(pair_stas, sta)

\* What the pairings, unpairings and the host's commands leave in any order.
TableSound == TypeOK /\ UnsavedHasCause

\* A pairing reaches the flash unless the table has lost it again.
PairingIsSaved ==
  \A sta \in Sta : InTable(pair_stas, sta) ~> (InTable(flash.stas, sta) \/ ~InTable(pair_stas, sta))

\* A connected station leaves the table only by its own unpairing, by the host's
\* command, or with the power; never for another station.
ConnectedKept ==
  \A sta \in conn :
    InTable(pair_stas, sta) /\ ~InTable(pair_stas', sta) =>
      UnpairSuccess(sta) \/ Restart \/ RestartDefault \/ host # host'
=============================================================================
