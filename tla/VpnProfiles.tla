----------------------------- MODULE VpnProfiles -----------------------------
(***************************************************************************)
(* Which VPN profile is selected (src/app/vpn/profiles.py, settings.py and *)
(* the handlers of the VPN page in src/app/main.py).  The selection is     *)
(* kept twice: app_state holds the id of the selected profile, and its row *)
(* has is_default.  A request changes them in one or two commits, from     *)
(* attributes it loaded before an await: sessions do not expire what they  *)
(* have loaded, and a SELECT does not overwrite it.                        *)
(*                                                                         *)
(* Every handler but USE is a coroutine, and holds the event loop from the *)
(* last await to its end; USE runs in a thread and interleaves with all.   *)
(***************************************************************************)
CONSTANTS
    Profiles,    \* row identities, never reused
    NoProfile,   \* "no profile"
    Unwritten,   \* the key is not part of a commit
    Handlers     \* requests of the VPN page at once

ASSUME ProfilesAssumption ==
    NoProfile \notin Profiles /\ Unwritten \notin Profiles \union {NoProfile}

VARIABLES
    row,       \* of vpn_profiles: "new" before insertion, "gone" after deletion
    enabled,   \* the rows with enabled
    default,   \* the rows with is_default
    key,       \* app_state vpn_selected_profile_id
    request,   \* handler -> its place, what it has loaded, what it will write
    fresh,     \* history: the handlers since whose load nobody else has changed
               \* the selection
    disturbed  \* history: the selection was changed from a load that was not
               \* fresh, or left between two commits, and not made anew since

table     == <<row, enabled>>
selection == <<default, key>>
history   == <<fresh, disturbed>>
vars      == <<table, selection, request, history>>

Exists == {p \in Profiles : row[p] = "row"}

NoWrites == [on |-> {}, off |-> {}, key |-> Unwritten]

(* enabled, default: the profile itself, if it was loaded with the flag.    *)
(* torn: the request has taken the selection from its profile and has yet  *)
(* to give it to another.                                                  *)
Idle == [op |-> "none", pc |-> "idle", profile |-> NoProfile, enabled |-> {},
         default |-> {}, torn |-> FALSE, writes |-> NoWrites]

Init ==
    /\ row = [p \in Profiles |-> "new"]
    /\ enabled = {} /\ default = {} /\ key = NoProfile
    /\ request = [h \in Handlers |-> Idle]
    /\ fresh = Handlers
    /\ disturbed = FALSE

(* A coroutine past its last await: it holds the loop to its end.  What is *)
(* awaited is the form of an update, or the end of the tunnel before the   *)
(* selected profile is deleted.                                            *)
Awaits(r) == r.pc = "read" /\ (r.op = "delete" => r.default # {})

Busy(g) == request[g].op \notin {"none", "use"} /\ ~Awaits(request[g])

LoopIsFree(h) == \A g \in Handlers \ {h} : ~Busy(g)

-----------------------------------------------------------------------------
(* What each step does to the history.                                     *)

(* h has loaded the selection.                                             *)
Loads(h) == fresh' = fresh \union {h} /\ UNCHANGED disturbed

(* h commits: whoever else is at work has loaded what is no longer so, if  *)
(* the selection changes.                                                  *)
Ages(h) == fresh' = IF UNCHANGED selection THEN fresh ELSE fresh \intersect {h}

Disturbs(h) ==
    disturbed' = (disturbed \/ (h \notin fresh /\ ~UNCHANGED selection))

Alone(h) == h \in fresh /\ \A g \in Handlers \ {h} : ~request[g].torn

-----------------------------------------------------------------------------
(* set_selected_profile.                                                   *)

(* Faulty variant: the other rows keep their flag.                         *)
SelectedKeepingOthers(target, flagged) ==
    [on |-> {target} \ flagged, off |-> {},
     key |-> IF key = target THEN Unwritten ELSE target]

(* It sets every row's is_default and the key; what is as it was loaded is *)
(* not written.                                                            *)
Selected(target, flagged) ==
    [on |-> {target} \ flagged, off |-> flagged \ {target},
     key |-> IF key = target THEN Unwritten ELSE target]

(* The flags as the session of h has them: its own row's as first loaded.  *)
Flagged(h) == (default \ {request[h].profile}) \union request[h].default

(* h goes on to commit the selection of target.                            *)
Selecting(r, writes) == [r EXCEPT !.pc = "selecting", !.writes = writes]

(* Faulty variant: a row that is gone is written all the same.             *)
FindsAnything(writes) == writes = writes

(* The flush finds every row it updates, or the session is rolled back.    *)
FindsRows(writes) == writes.on \union writes.off \subseteq Exists

CommitSelection(h) ==
    /\ request[h].pc = "selecting"
    /\ LET writes == request[h].writes
       IN  IF FindsRows(writes)
           THEN /\ default' = (default \ writes.off) \union writes.on
                /\ key' = IF writes.key = Unwritten THEN key ELSE writes.key
                /\ IF Alone(h) THEN disturbed' = FALSE ELSE Disturbs(h)
           ELSE /\ UNCHANGED selection
                /\ disturbed' = (disturbed \/ request[h].torn)
    /\ Ages(h)
    /\ request' = [request EXCEPT ![h] = Idle]
    /\ UNCHANGED table

(* set_selected_profile(None): the key is emptied, the flags are left.     *)
CommitNone(h) ==
    /\ request[h].pc = "clearing"
    /\ key' = NoProfile /\ UNCHANGED default
    /\ Ages(h) /\ Disturbs(h)
    /\ request' = [request EXCEPT ![h] = Idle]
    /\ UNCHANGED table

(* An exception at any point, or the end of the process: what has been     *)
(* committed stays.                                                        *)
Abandon(h) ==
    /\ request[h] # Idle
    /\ request' = [request EXCEPT ![h] = Idle]
    /\ disturbed' = (disturbed \/ request[h].torn)
    /\ UNCHANGED <<table, selection, fresh>>

-----------------------------------------------------------------------------
(* The handlers.                                                           *)

(* create_profile, its first commit: the row, not selected.                *)
CreateRow(h, p) ==
    /\ request[h] = Idle /\ LoopIsFree(h)
    /\ row[p] = "new"
    /\ row' = [row EXCEPT ![p] = "row"]
    /\ enabled' \in {enabled, enabled \union {p}}
    /\ request' = [request EXCEPT ![h] =
           [Idle EXCEPT !.op = "create", !.pc = "created", !.profile = p]]
    /\ UNCHANGED <<selection, history>>

(* ... and then it is selected, when that was asked for or nothing is.     *)
CreateSelects(h) ==
    /\ request[h].pc = "created"
    /\ \/ request' = [request EXCEPT ![h] =
              Selecting(@, Selected(@.profile, default))]
       \/ default # {} /\ request' = [request EXCEPT ![h] = Idle]
    /\ Loads(h)
    /\ UNCHANGED <<table, selection>>

(* update_profile and delete_profile act on the row loaded here, before    *)
(* the form is read or the tunnel is taken down.  A selected profile is    *)
(* not deleted while a download is in progress: no step.                   *)
LoadRow(h, p) ==
    /\ request[h] = Idle /\ LoopIsFree(h)
    /\ p \in Exists
    /\ \E op \in {"update", "delete"} :
          request' = [request EXCEPT ![h] =
              [Idle EXCEPT !.op = op, !.pc = "read", !.profile = p,
                           !.enabled = enabled \intersect {p},
                           !.default = default \intersect {p}]]
    /\ Loads(h)
    /\ UNCHANGED <<table, selection>>

(* update_profile, its first commit.  Disabling the profile deselects it,  *)
(* if it was selected when it was loaded.  A row that is gone is an        *)
(* exception (Abandon).                                                    *)
UpdateRow(h) ==
    LET r == request[h]
    IN  /\ r.op = "update" /\ r.pc = "read" /\ LoopIsFree(h)
        /\ r.profile \in Exists
        /\ \E enable \in {"on", "off", "same"}, select \in BOOLEAN :
              LET deselected == IF enable = "off" THEN r.default ELSE {}
              IN  /\ enabled' = CASE enable = "on"   -> enabled \union ({r.profile} \ r.enabled)
                                  [] enable = "off"  -> enabled \ r.enabled
                                  [] enable = "same" -> enabled
                  /\ default' = default \ deselected
                  /\ request' = [request EXCEPT ![h] =
                        IF ~select /\ deselected = {} THEN Idle
                        ELSE [r EXCEPT !.pc = IF select THEN "asked" ELSE "deselected",
                                       !.default = @ \ deselected,
                                       !.torn = deselected # {}]]
        /\ UNCHANGED <<row, key>>
        /\ Ages(h) /\ Disturbs(h)

(* ... and the second, when it is to be the selected one.                  *)
UpdateSelects(h) ==
    /\ request[h].pc = "asked"
    /\ request' = [request EXCEPT ![h] =
           Selecting(@, Selected(@.profile, Flagged(h)))]
    /\ UNCHANGED <<table, selection, history>>

(* delete_profile, its first commit; a row that is gone is no error.       *)
DeleteRow(h) ==
    LET r == request[h]
    IN  /\ r.op = "delete" /\ r.pc = "read" /\ LoopIsFree(h)
        /\ row' = [row EXCEPT ![r.profile] = "gone"]
        /\ enabled' = enabled \ {r.profile}
        /\ default' = default \ {r.profile}
        /\ request' = [request EXCEPT ![h] =
              IF r.default = {} THEN Idle
              ELSE [r EXCEPT !.pc = "deselected", !.default = {}, !.torn = TRUE]]
        /\ UNCHANGED key
        /\ Ages(h) /\ Disturbs(h)

(* Another enabled profile is selected ...                                 *)
SelectAnother(h) ==
    /\ request[h].pc = "deselected"
    /\ \E p \in enabled \ {request[h].profile} :
          request' = [request EXCEPT ![h] = Selecting(@, Selected(p, Flagged(h)))]
    /\ UNCHANGED <<table, selection, history>>

(* ... or none, when there is no other.                                    *)
FindNoOther(h) ==
    /\ request[h].pc = "deselected"
    /\ enabled \subseteq {request[h].profile}
    /\ request' = [request EXCEPT ![h].pc = "clearing"]
    /\ UNCHANGED <<table, selection, history>>

(* USE, and CONNECT of the API: an enabled profile.                        *)
UseProfile(h, p) ==
    /\ request[h] = Idle
    /\ p \in enabled
    /\ \E op \in {"use", "connect"} :
          /\ op = "connect" => LoopIsFree(h)
          /\ request' = [request EXCEPT ![h] =
                Selecting([Idle EXCEPT !.op = op], Selected(p, default))]
    /\ Loads(h)
    /\ UNCHANGED <<table, selection>>

Next ==
    \E h \in Handlers :
        \/ CreateSelects(h) \/ UpdateRow(h) \/ UpdateSelects(h) \/ DeleteRow(h)
        \/ SelectAnother(h) \/ FindNoOther(h) \/ CommitSelection(h) \/ CommitNone(h)
        \/ Abandon(h)
        \/ \E p \in Profiles : CreateRow(h, p) \/ LoadRow(h, p) \/ UseProfile(h, p)

Spec == Init /\ [][Next]_vars

-----------------------------------------------------------------------------
(* What a download is given.                                               *)

(* Faulty variant: the profile of the key is used although it is disabled. *)
InUseThoughDisabled ==
    IF key \in Exists THEN {key} ELSE enabled \intersect default

(* selected_profile, the results it can have: the row of the key, or of a  *)
(* default without a key, if it is enabled, and a default that is enabled  *)
(* otherwise.                                                              *)
InUse ==
    LET named == IF key = NoProfile THEN default ELSE {key}
    IN  IF named \intersect enabled # {} THEN named \intersect enabled
        ELSE enabled \intersect default

-----------------------------------------------------------------------------
(* Properties.                                                             *)

Requests ==
    [op : {"none", "create", "update", "delete", "use", "connect"},
     pc : {"idle", "created", "read", "asked", "deselected", "selecting", "clearing"},
     profile : Profiles \union {NoProfile}, enabled : SUBSET Profiles,
     default : SUBSET Profiles, torn : BOOLEAN,
     writes : [on : SUBSET Profiles, off : SUBSET Profiles,
               key : Profiles \union {Unwritten}]]

(* Every variable has its type; what is enabled or selected exists; only a *)
(* coroutine that holds the loop is between the two commits of a request.  *)
TypeOK ==
    /\ row \in [Profiles -> {"new", "row", "gone"}]
    /\ enabled \subseteq Exists /\ default \subseteq Exists
    /\ key \in Profiles \union {NoProfile}
    /\ request \in [Handlers -> Requests]
    /\ \A h \in Handlers :
          /\ request[h].pc \in {"created", "read", "asked", "deselected"}
                => request[h].profile \in Profiles
          /\ request[h].torn => Busy(h)
    /\ fresh \subseteq Handlers
    /\ disturbed \in BOOLEAN

NothingTorn == \A h \in Handlers : ~request[h].torn

(* The two records of the selection name the same profile, or none.        *)
Agree ==
    \/ key = NoProfile /\ default = {}
    \/ key \in Exists /\ default = {key}

(* "Only one selected profile" (tests/test_vpn.py:136), and the one that   *)
(* the key names: between requests the two records agree, unless a request *)
(* has changed them from a load that another request overtook, or ended    *)
(* between its commits, and no selection has been made by itself since.    *)
SelectionAgrees == ~disturbed /\ NothingTorn => Agree

(* The profile marked SELECTED on the page (app/templates/vpn.html:79) is  *)
(* the one downloads are given, and none is given when it is disabled,     *)
(* whatever requests created, disabled, deleted or selected before.        *)
ShownIsUsed == ~disturbed /\ NothingTorn => InUse = default \intersect enabled
=============================================================================
