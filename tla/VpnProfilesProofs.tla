-------------------------- MODULE VpnProfilesProofs --------------------------
(***************************************************************************)
(* The selected profile, for any number of profiles and requests.          *)
(***************************************************************************)
EXTENDS VpnProfiles, TLAPS

LEMMA IdleType == Idle \in Requests /\ ~Idle.torn /\ Idle.pc = "idle"
BY DEF Idle, NoWrites, Requests

(* A request that goes on to the commit of a selection.                    *)
LEMMA SelectingType ==
    ASSUME NEW r \in Requests, NEW target \in Profiles, NEW flagged \in SUBSET Profiles
    PROVE  LET s == Selecting(r, Selected(target, flagged))
           IN  /\ s \in Requests
               /\ s.op = r.op /\ s.pc = "selecting" /\ s.torn = r.torn
               /\ s.writes = Selected(target, flagged)
<1> DEFINE w == Selected(target, flagged)
<1>1. w \in [on : SUBSET Profiles, off : SUBSET Profiles,
             key : Profiles \union {Unwritten}]
  BY DEF Selected
<1> HIDE DEF w
<1> QED
  BY <1>1 DEF Selecting, Requests, w

(* A step of h that keeps the tables well typed.                           *)
LEMMA RequestStep ==
    ASSUME TypeOK, NEW h \in Handlers, NEW r \in Requests,
           request' = [request EXCEPT ![h] = r],
           r.pc \in {"created", "read", "asked", "deselected"} => r.profile \in Profiles,
           r.torn => r.op \notin {"none", "use"} /\ ~Awaits(r),
           /\ row' \in [Profiles -> {"new", "row", "gone"}]
           /\ enabled' \subseteq Exists' /\ default' \subseteq Exists'
           /\ key' \in Profiles \union {NoProfile},
           fresh' \subseteq Handlers, disturbed' \in BOOLEAN
    PROVE  TypeOK'
<1>1. request'[h] = r /\ \A g \in Handlers \ {h} : request'[g] = request[g]
  BY DEF TypeOK
<1>2. request' \in [Handlers -> Requests]
  BY DEF TypeOK
<1>3. \A g \in Handlers :
         /\ request'[g].pc \in {"created", "read", "asked", "deselected"}
               => request'[g].profile \in Profiles
         /\ request'[g].torn => Busy(g)'
  BY <1>1 DEF TypeOK, Busy
<1> QED
  BY <1>2, <1>3 DEF TypeOK

-----------------------------------------------------------------------------
(* Why the two records agree.                                              *)

(* What a request has loaded since the selection last changed is what is   *)
(* stored; a request that has taken the selection from its profile, and    *)
(* nobody else has acted since, has left no other selected.                *)
Exact(h) ==
    /\ request[h].pc \in {"read", "asked", "deselected"}
          => request[h].default = default \intersect {request[h].profile}
    /\ request[h].pc = "selecting"
          => \E target \in Profiles : request[h].writes = Selected(target, default)
    /\ request[h].torn /\ ~disturbed => default = {}

ProfilesInv ==
    /\ \A h \in fresh : Exact(h)
    /\ \A h \in Handlers :
          /\ request[h].pc \in {"created", "read"} => ~request[h].torn
          /\ request[h].pc \in {"deselected", "clearing"} => request[h].torn
    /\ ~disturbed => Agree \/ \E h \in fresh : request[h].torn

(* Handlers that do nothing keep what they have loaded.                    *)
LEMMA OthersStay ==
    ASSUME TypeOK, ProfilesInv, NEW h \in Handlers, NEW r \in Requests,
           request' = [request EXCEPT ![h] = r],
           UNCHANGED selection \/ fresh' \subseteq {h},
           fresh' \subseteq fresh \union {h},
           (disturbed => disturbed') \/ (\A g \in Handlers \ {h} : ~request[g].torn),
           h \in fresh' => Exact(h)',
           r.pc \in {"created", "read"} => ~r.torn,
           r.pc \in {"deselected", "clearing"} => r.torn,
           ~disturbed' => Agree' \/ \E g \in fresh' : request'[g].torn
    PROVE  ProfilesInv'
<1>1. request'[h] = r /\ \A g \in Handlers \ {h} : request'[g] = request[g]
  BY DEF TypeOK
<1>2. ASSUME NEW g \in fresh', g # h PROVE Exact(g)'
  <2>1. g \in fresh /\ UNCHANGED selection /\ request'[g] = request[g] /\ g \in Handlers
    BY <1>1, <1>2 DEF TypeOK
  <2>2. Exact(g)
    BY <2>1 DEF ProfilesInv
  <2>3. request[g].torn /\ ~disturbed' => ~disturbed
    BY <1>2, <2>1
  <2> QED
    BY <2>1, <2>2, <2>3 DEF Exact, selection, Selected
<1>3. \A g \in Handlers :
         /\ request'[g].pc \in {"created", "read"} => ~request'[g].torn
         /\ request'[g].pc \in {"deselected", "clearing"} => request'[g].torn
  BY <1>1 DEF ProfilesInv
<1> QED
  BY <1>2, <1>3 DEF ProfilesInv

(* The same for a step that changes neither the selection nor, but by      *)
(* loading, the history.                                                   *)
LEMMA QuietStep ==
    ASSUME TypeOK, ProfilesInv, NEW h \in Handlers, NEW r \in Requests,
           request' = [request EXCEPT ![h] = r], UNCHANGED <<selection, disturbed>>,
           fresh' = fresh \/ fresh' = fresh \union {h},
           h \in fresh' => Exact(h)',
           r.pc \in {"created", "read", "asked", "deselected"} => r.profile \in Profiles,
           r.torn => r.op \notin {"none", "use"} /\ ~Awaits(r),
           r.torn <=> request[h].torn,
           r.pc \in {"created", "read"} => ~r.torn,
           r.pc \in {"deselected", "clearing"} => r.torn,
           row' \in [Profiles -> {"new", "row", "gone"}],
           enabled' \subseteq Exists', Exists \subseteq Exists'
    PROVE  TypeOK' /\ ProfilesInv'
<1>1. request'[h] = r /\ \A g \in Handlers \ {h} : request'[g] = request[g]
  BY DEF TypeOK
<1>2. TypeOK'
  BY RequestStep DEF TypeOK, selection
<1>3. ~disturbed' => Agree' \/ \E g \in fresh' : request'[g].torn
  BY <1>1 DEF ProfilesInv, Agree, selection, TypeOK
<1> QED
  BY <1>2, <1>3, OthersStay

LEMMA CreateRowStep ==
    ASSUME TypeOK, ProfilesInv, NEW h \in Handlers, NEW p \in Profiles, CreateRow(h, p)
    PROVE  TypeOK' /\ ProfilesInv'
<1> DEFINE r == [Idle EXCEPT !.op = "create", !.pc = "created", !.profile = p]
<1>1. /\ r \in Requests /\ r.pc = "created" /\ r.profile = p /\ ~r.torn
      /\ request' = [request EXCEPT ![h] = r] /\ ~request[h].torn
  BY IdleType DEF CreateRow, Idle, NoWrites, Requests
<1>2. /\ row' \in [Profiles -> {"new", "row", "gone"}]
      /\ enabled' \subseteq Exists' /\ Exists \subseteq Exists'
  BY DEF CreateRow, TypeOK, Exists
<1>3. Exact(h)'
  BY <1>1 DEF Exact, TypeOK
<1> HIDE DEF r
<1> QED
  BY <1>1, <1>2, <1>3, QuietStep DEF CreateRow, history

LEMMA CreateSelectsStep ==
    ASSUME TypeOK, ProfilesInv, NEW h \in Handlers, CreateSelects(h)
    PROVE  TypeOK' /\ ProfilesInv'
<1>1. /\ request[h] \in Requests /\ request[h].profile \in Profiles
      /\ default \in SUBSET Profiles /\ ~request[h].torn
  BY DEF CreateSelects, TypeOK, Exists, ProfilesInv
<1>2. ASSUME NEW r \in Requests, request' = [request EXCEPT ![h] = r], ~r.torn,
             r.pc \in {"idle", "selecting"}, Exact(h)'
      PROVE  TypeOK' /\ ProfilesInv'
  BY <1>1, <1>2, QuietStep DEF CreateSelects, Loads, table, TypeOK, Exists
<1>3. CASE request' = [request EXCEPT ![h] = Idle]
  BY <1>2, <1>3, IdleType DEF Exact, TypeOK
<1>4. CASE request' = [request EXCEPT ![h] =
              Selecting(@, Selected(@.profile, default))]
  <2> DEFINE r == Selecting(request[h], Selected(request[h].profile, default))
  <2>1. /\ r \in Requests /\ r.pc = "selecting" /\ ~r.torn
        /\ r.writes = Selected(request[h].profile, default)
    BY <1>1, SelectingType
  <2>2. request'[h] = r
    BY <1>4 DEF TypeOK
  <2>3. Exact(h)'
    BY <1>1, <2>1, <2>2 DEF Exact, CreateSelects, selection, Selected
  <2> HIDE DEF r
  <2> QED
    BY <1>2, <1>4, <2>1, <2>3 DEF r
<1> QED
  BY <1>3, <1>4 DEF CreateSelects

LEMMA LoadRowStep ==
    ASSUME TypeOK, ProfilesInv, NEW h \in Handlers, NEW p \in Profiles, LoadRow(h, p)
    PROVE  TypeOK' /\ ProfilesInv'
<1>1. PICK op \in {"update", "delete"} :
         request' = [request EXCEPT ![h] =
              [Idle EXCEPT !.op = op, !.pc = "read", !.profile = p,
                           !.enabled = enabled \intersect {p},
                           !.default = default \intersect {p}]]
  BY DEF LoadRow
<1> DEFINE r == [Idle EXCEPT !.op = op, !.pc = "read", !.profile = p,
                             !.enabled = enabled \intersect {p},
                             !.default = default \intersect {p}]
<1>2. /\ r \in Requests /\ r.pc = "read" /\ r.profile = p /\ ~r.torn
      /\ r.default = default \intersect {p}
  BY DEF Idle, NoWrites, Requests
<1>3. request' = [request EXCEPT ![h] = r] /\ ~request[h].torn
  BY <1>1, IdleType DEF LoadRow
<1> HIDE DEF r
<1>4. Exact(h)'
  BY <1>2, <1>3 DEF Exact, TypeOK, LoadRow, selection
<1> QED
  BY <1>2, <1>3, <1>4, QuietStep DEF LoadRow, Loads, table, TypeOK, Exists

LEMMA UseProfileStep ==
    ASSUME TypeOK, ProfilesInv, NEW h \in Handlers, NEW p \in Profiles, UseProfile(h, p)
    PROVE  TypeOK' /\ ProfilesInv'
<1>1. PICK op \in {"use", "connect"} :
         request' = [request EXCEPT ![h] =
             Selecting([Idle EXCEPT !.op = op], Selected(p, default))]
  BY DEF UseProfile
<1> DEFINE s == [Idle EXCEPT !.op = op]
           r == Selecting(s, Selected(p, default))
<1>2. s \in Requests /\ ~s.torn
  BY DEF Idle, NoWrites, Requests
<1> HIDE DEF s
<1>3. r \in Requests /\ r.pc = "selecting" /\ ~r.torn /\ r.writes = Selected(p, default)
  BY <1>2, SelectingType DEF TypeOK, Exists
<1>4. ~request[h].torn
  BY IdleType DEF UseProfile
<1>5. request'[h] = r
  BY <1>1 DEF TypeOK, s
<1>6. Exact(h)'
  BY <1>3, <1>5 DEF Exact, UseProfile, selection, Selected
<1> HIDE DEF r
<1> QED
  BY <1>1, <1>3, <1>4, <1>6, QuietStep DEF UseProfile, Loads, table, r, s, TypeOK, Exists

(* A request that chooses the next selection, with the loop to itself.     *)
LEMMA ChoosingStep ==
    ASSUME TypeOK, ProfilesInv, NEW h \in Handlers,
           UpdateSelects(h) \/ SelectAnother(h) \/ FindNoOther(h)
    PROVE  TypeOK' /\ ProfilesInv'
<1>1. /\ request[h] \in Requests /\ request[h].profile \in Profiles
      /\ Flagged(h) \in SUBSET Profiles
      /\ h \in fresh => Flagged(h) = default
  BY DEF UpdateSelects, SelectAnother, FindNoOther, TypeOK, Exists, Flagged, ProfilesInv,
         Exact, Requests
<1>2. request[h].torn => request[h].op \notin {"none", "use"}
  BY DEF TypeOK, Busy
<1>3. ASSUME NEW r \in Requests, request' = [request EXCEPT ![h] = r],
             r.torn = request[h].torn, r.op = request[h].op,
             r.pc \in {"selecting", "clearing"}, r.pc = "clearing" => r.torn, Exact(h)'
      PROVE  TypeOK' /\ ProfilesInv'
  <2>1. UNCHANGED <<table, selection, history>>
    BY DEF UpdateSelects, SelectAnother, FindNoOther
  <2> QED
    BY <1>2, <1>3, <2>1, QuietStep DEF Awaits, table, history, TypeOK, Exists
<1>4. ASSUME NEW q \in Profiles,
             request' = [request EXCEPT ![h] = Selecting(@, Selected(q, Flagged(h)))],
             UNCHANGED <<table, selection, history>>
      PROVE  TypeOK' /\ ProfilesInv'
  <2> DEFINE r == Selecting(request[h], Selected(q, Flagged(h)))
  <2>1. /\ r \in Requests /\ r.pc = "selecting" /\ r.writes = Selected(q, Flagged(h))
        /\ r.torn = request[h].torn /\ r.op = request[h].op
    BY <1>1, SelectingType
  <2>2. request' = [request EXCEPT ![h] = r] /\ request'[h] = r
    BY <1>4 DEF TypeOK
  <2> HIDE DEF r
  <2>3. CASE h \in fresh
    <3>1. Exact(h)'
      <4>1. r.writes = Selected(q, default)'
        BY <1>1, <1>4, <2>1, <2>3 DEF selection, Selected
      <4>2. r.torn /\ ~disturbed' => default' = {}
        BY <1>4, <2>1, <2>3 DEF ProfilesInv, Exact, selection, history
      <4> QED
        BY <2>1, <2>2, <4>1, <4>2 DEF Exact, Selected
    <3> QED
      BY <1>3, <2>1, <2>2, <3>1
  <2>4. CASE h \notin fresh
    BY <1>2, <1>4, <2>1, <2>2, <2>4, QuietStep DEF Awaits, table, history, TypeOK, Exists
  <2> QED
    BY <2>3, <2>4
<1>5. CASE UpdateSelects(h)
  BY <1>1, <1>4, <1>5 DEF UpdateSelects
<1>6. CASE SelectAnother(h)
  BY <1>4, <1>6 DEF SelectAnother, TypeOK, Exists
<1>7. CASE FindNoOther(h)
  <2> DEFINE r == [request[h] EXCEPT !.pc = "clearing"]
  <2>1. /\ r \in Requests /\ r.pc = "clearing" /\ r.torn /\ request[h].torn
        /\ r.op = request[h].op
    BY <1>1, <1>7 DEF Requests, FindNoOther, ProfilesInv
  <2>2. request' = [request EXCEPT ![h] = r] /\ request'[h] = r
    BY <1>7 DEF FindNoOther, TypeOK
  <2> HIDE DEF r
  <2>3. h \in fresh => Exact(h)'
    BY <1>7, <2>1, <2>2 DEF FindNoOther, ProfilesInv, Exact, selection, history
  <2> QED
    BY <1>2, <1>7, <2>1, <2>2, <2>3, QuietStep
    DEF FindNoOther, Awaits, table, history, TypeOK, Exists
<1> QED
  BY <1>5, <1>6, <1>7

(* When the loop is free and h has only loaded, nothing is torn.           *)
LEMMA NothingIsTorn ==
    ASSUME TypeOK, ProfilesInv, NEW h \in Handlers, request[h].pc = "read", LoopIsFree(h)
    PROVE  NothingTorn /\ (~disturbed => Agree)
<1>1. NothingTorn
  BY DEF TypeOK, ProfilesInv, LoopIsFree, NothingTorn
<1> QED
  BY <1>1 DEF ProfilesInv, NothingTorn, TypeOK

LEMMA UpdateRowStep ==
    ASSUME TypeOK, ProfilesInv, NEW h \in Handlers, UpdateRow(h)
    PROVE  TypeOK' /\ ProfilesInv'
<1> DEFINE p == request[h].profile
<1>1. PICK enable \in {"on", "off", "same"}, select \in BOOLEAN :
         LET deselected == IF enable = "off" THEN request[h].default ELSE {}
         IN  /\ enabled' = CASE enable = "on"   -> enabled \union ({p} \ request[h].enabled)
                             [] enable = "off"  -> enabled \ request[h].enabled
                             [] enable = "same" -> enabled
             /\ default' = default \ deselected
             /\ request' = [request EXCEPT ![h] =
                   IF ~select /\ deselected = {} THEN Idle
                   ELSE [request[h] EXCEPT !.pc = IF select THEN "asked" ELSE "deselected",
                                           !.default = @ \ deselected,
                                           !.torn = deselected # {}]]
  BY DEF UpdateRow
<1> DEFINE deselected == IF enable = "off" THEN request[h].default ELSE {}
           going == [request[h] EXCEPT !.pc = IF select THEN "asked" ELSE "deselected",
                                       !.default = @ \ deselected,
                                       !.torn = deselected # {}]
           r == IF ~select /\ deselected = {} THEN Idle ELSE going
<1>2. /\ request[h] \in Requests /\ p \in Exists /\ request[h].pc = "read"
      /\ request[h].op = "update" /\ LoopIsFree(h)
      /\ UNCHANGED <<row, key>> /\ Ages(h) /\ Disturbs(h)
  BY DEF UpdateRow, TypeOK
<1>3. enabled' \subseteq Exists' /\ default' \subseteq Exists'
  BY <1>1, <1>2 DEF TypeOK, Exists
<1>4. /\ going \in Requests
      /\ going.pc \in {"asked", "deselected"} /\ going.op = "update" /\ going.profile = p
      /\ going.default = request[h].default \ deselected
      /\ going.torn <=> deselected # {}
      /\ going.pc = "asked" <=> select
  BY <1>2 DEF Requests
<1>5. request' = [request EXCEPT ![h] = r] /\ request'[h] = r
  BY <1>1 DEF TypeOK
<1>6. /\ r \in Requests /\ r.pc \in {"idle", "asked", "deselected"}
      /\ r.torn <=> deselected # {}
      /\ r.pc # "idle" => r = going
      /\ r.pc = "deselected" => r.torn
      /\ r.torn => r = going
  BY <1>4, IdleType
<1>7. default' = default \ deselected /\ deselected \subseteq request[h].default
  BY <1>1
<1>8. NothingTorn /\ (~disturbed => Agree)
  BY <1>2, NothingIsTorn
<1> HIDE DEF r, going
<1>9. CASE deselected = {}
  <2>1. UNCHANGED <<selection, disturbed>> /\ fresh' = fresh
    BY <1>2, <1>7, <1>9 DEF Ages, Disturbs, selection, TypeOK
  <2>2. h \in fresh' => Exact(h)'
    BY <1>2, <1>4, <1>5, <1>6, <1>9, <2>1 DEF Exact, ProfilesInv, selection
  <2> QED
    BY <1>2, <1>3, <1>4, <1>5, <1>6, <1>8, <1>9, <2>1, <2>2, QuietStep
    DEF NothingTorn, TypeOK, Exists
<1>10. CASE deselected # {}
  <2>1. deselected = request[h].default /\ r = going /\ r.torn
    BY <1>6, <1>10
  <2>2. TypeOK'
    <3>1. /\ row' \in [Profiles -> {"new", "row", "gone"}]
          /\ key' \in Profiles \union {NoProfile}
          /\ fresh' \subseteq Handlers /\ disturbed' \in BOOLEAN
      BY <1>2 DEF TypeOK, Ages, Disturbs
    <3>2. r.pc \in {"asked", "deselected"} /\ r.op = "update" /\ r.profile \in Profiles
      BY <1>2, <1>4, <2>1 DEF Exists
    <3> QED
      BY <1>3, <1>5, <1>6, <3>1, <3>2, RequestStep DEF Awaits
  <2>3. h \in fresh /\ ~disturbed' => default' = {}
    BY <1>2, <1>7, <1>8, <1>10, <2>1 DEF ProfilesInv, Exact, Agree, Disturbs
  <2>4. h \in fresh' => Exact(h)'
    <3>1. h \in fresh' => h \in fresh
      BY <1>2 DEF Ages
    <3>2. h \in fresh' => r.default = default' \intersect {p}
      BY <1>2, <1>4, <1>7, <2>1, <3>1 DEF ProfilesInv, Exact
    <3> QED
      BY <1>4, <1>5, <1>6, <2>1, <2>3, <3>1, <3>2 DEF Exact
  <2>5. ~disturbed' => Agree' \/ \E g \in fresh' : request'[g].torn
    <3>1. CASE h \in fresh
      BY <1>2, <1>5, <2>1, <3>1 DEF Ages
    <3>2. CASE h \notin fresh
      BY <1>2, <1>8, <3>2 DEF Disturbs, Agree, selection, Exists
    <3> QED
      BY <3>1, <3>2
  <2>6. /\ UNCHANGED selection \/ fresh' \subseteq {h}
        /\ fresh' \subseteq fresh \union {h} /\ (disturbed => disturbed')
    BY <1>2 DEF Ages, Disturbs
  <2> QED
    BY <1>4, <1>5, <1>6, <2>1, <2>2, <2>4, <2>5, <2>6, OthersStay
<1> QED
  BY <1>9, <1>10

LEMMA DeleteRowStep ==
    ASSUME TypeOK, ProfilesInv, NEW h \in Handlers, DeleteRow(h)
    PROVE  TypeOK' /\ ProfilesInv'
<1> DEFINE p == request[h].profile
           going == [request[h] EXCEPT !.pc = "deselected", !.default = {}, !.torn = TRUE]
           r == IF request[h].default = {} THEN Idle ELSE going
<1>1. /\ request[h] \in Requests /\ p \in Profiles /\ request[h].pc = "read"
      /\ request[h].op = "delete" /\ LoopIsFree(h)
      /\ UNCHANGED key /\ Ages(h) /\ Disturbs(h)
      /\ default' = default \ {p} /\ row' = [row EXCEPT ![p] = "gone"]
      /\ enabled' = enabled \ {p}
  BY DEF DeleteRow, TypeOK
<1>2. /\ going \in Requests /\ going.pc = "deselected" /\ going.op = "delete"
      /\ going.profile = p /\ going.default = {} /\ going.torn
  BY <1>1 DEF Requests
<1>3. request' = [request EXCEPT ![h] = r] /\ request'[h] = r
  BY DEF DeleteRow, TypeOK
<1>4. /\ r \in Requests
      /\ r = going \/ r = Idle
      /\ r = Idle => request[h].default = {} /\ ~r.torn /\ r.pc = "idle"
  BY <1>2, IdleType
<1> HIDE DEF r, going
<1>5. NothingTorn /\ (~disturbed => Agree)
  BY <1>1, NothingIsTorn
<1>6. TypeOK'
  <2>1. /\ row' \in [Profiles -> {"new", "row", "gone"}]
        /\ key' \in Profiles \union {NoProfile}
        /\ fresh' \subseteq Handlers /\ disturbed' \in BOOLEAN
    BY <1>1 DEF TypeOK, Ages, Disturbs
  <2>2. Exists' = Exists \ {p}
    BY <1>1 DEF TypeOK, Exists
  <2>3. enabled' \subseteq Exists' /\ default' \subseteq Exists'
    BY <1>1, <2>2 DEF TypeOK
  <2> QED
    BY <1>1, <1>2, <1>3, <1>4, <2>1, <2>3, RequestStep DEF Awaits
<1>7. ASSUME UNCHANGED selection, ~disturbed PROVE Agree'
  <2>1. p \notin default
    BY <1>1, <1>7 DEF selection
  <2> QED
    BY <1>1, <1>5, <1>7, <2>1 DEF Agree, selection, Exists, TypeOK
<1>8. h \in fresh => request[h].default = default \intersect {p}
  BY <1>1 DEF ProfilesInv, Exact
<1>9. h \in fresh /\ r = going /\ ~disturbed' => default' = {}
  <2>1. ASSUME r = going, h \in fresh PROVE p \in default
    <3>1. going # Idle
      BY <1>2, IdleType
    <3>2. request[h].default # {}
      BY <2>1, <3>1 DEF r
    <3> QED
      BY <1>8, <2>1, <3>2
  <2> QED
    BY <1>1, <1>5, <2>1 DEF Agree, Disturbs
<1>10. h \in fresh' => Exact(h)'
  <2>1. h \in fresh' => h \in fresh
    BY <1>1 DEF Ages
  <2>2. CASE r = going
    BY <1>1, <1>2, <1>3, <1>9, <2>1, <2>2 DEF Exact
  <2>3. CASE r = Idle
    BY <1>3, <1>4, <2>3 DEF Exact
  <2> QED
    BY <1>4, <2>2, <2>3
<1>11. ~disturbed' => Agree' \/ \E g \in fresh' : request'[g].torn
  <2>1. CASE h \in fresh /\ r = going
    BY <1>1, <1>2, <1>3, <2>1 DEF Ages
  <2>2. CASE h \in fresh /\ r = Idle
    <3>1. UNCHANGED selection
      BY <1>1, <1>4, <1>8, <2>2 DEF selection
    <3> QED
      BY <1>1, <1>7, <3>1 DEF Disturbs
  <2>3. CASE h \notin fresh
    BY <1>1, <1>7, <2>3 DEF Disturbs
  <2> QED
    BY <1>4, <2>1, <2>2, <2>3
<1>12. /\ UNCHANGED selection \/ fresh' \subseteq {h}
       /\ fresh' \subseteq fresh \union {h} /\ (disturbed => disturbed')
  BY <1>1 DEF Ages, Disturbs
<1> QED
  BY <1>2, <1>3, <1>4, <1>6, <1>10, <1>11, <1>12, OthersStay

(* A request that ends, in a commit or without.                            *)
LEMMA EndStep ==
    ASSUME TypeOK, ProfilesInv, NEW h \in Handlers,
           request' = [request EXCEPT ![h] = Idle], UNCHANGED table,
           default' \subseteq Exists, key' \in Profiles \union {NoProfile},
           fresh' = fresh \/ Ages(h),
           UNCHANGED selection \/ fresh' \subseteq {h},
           disturbed' \in BOOLEAN,
           (disturbed => disturbed') \/ (\A g \in Handlers \ {h} : ~request[g].torn),
           ~disturbed' => Agree' \/ \E g \in fresh' \ {h} : request[g].torn
    PROVE  TypeOK' /\ ProfilesInv'
<1>1. request'[h] = Idle /\ \A g \in Handlers \ {h} : request'[g] = request[g]
  BY DEF TypeOK
<1>2. fresh' \subseteq fresh
  BY DEF Ages
<1>3. TypeOK'
  <2>1. row' = row /\ enabled' = enabled /\ Exists' = Exists
    BY DEF table, Exists
  <2> QED
    BY <1>2, <2>1, IdleType, RequestStep DEF TypeOK
<1>4. Exact(h)'
  BY <1>1, IdleType DEF Exact
<1>5. ~disturbed' => Agree' \/ \E g \in fresh' : request'[g].torn
  BY <1>1, <1>2 DEF TypeOK
<1> QED
  BY <1>2, <1>3, <1>4, <1>5, IdleType, OthersStay

LEMMA CommitSelectionStep ==
    ASSUME TypeOK, ProfilesInv, NEW h \in Handlers, CommitSelection(h)
    PROVE  TypeOK' /\ ProfilesInv'
<1> DEFINE w == request[h].writes
<1>1. /\ request[h].pc = "selecting" /\ Ages(h) /\ UNCHANGED table
      /\ request' = [request EXCEPT ![h] = Idle]
      /\ w.key \in Profiles \union {Unwritten} /\ Exists' = Exists
      /\ disturbed \in BOOLEAN
  BY DEF CommitSelection, TypeOK, Requests, table, Exists
<1>2. UNCHANGED selection \/ fresh' \subseteq {h}
  BY <1>1 DEF Ages
<1>3. CASE FindsRows(w)
  <2>1. /\ default' = (default \ w.off) \union w.on
        /\ key' = IF w.key = Unwritten THEN key ELSE w.key
        /\ IF Alone(h) THEN disturbed' = FALSE ELSE Disturbs(h)
        /\ w.on \subseteq Exists
    BY <1>3 DEF CommitSelection, FindsRows
  <2>2. default' \subseteq Exists /\ key' \in Profiles \union {NoProfile}
        /\ disturbed' \in BOOLEAN
    BY <1>1, <2>1 DEF TypeOK, Disturbs
  <2>3. (disturbed => disturbed') \/ (\A g \in Handlers \ {h} : ~request[g].torn)
    BY <2>1 DEF Alone, Disturbs
  <2>4. CASE h \in fresh
    <3>1. PICK t \in Profiles : w = Selected(t, default)
      BY <1>1, <2>4 DEF ProfilesInv, Exact
    <3>2. w.on = {t} \ default /\ w.off = default \ {t}
          /\ w.key = IF key = t THEN Unwritten ELSE t
      BY <3>1 DEF Selected
    <3>3. default' = {t} /\ key' = t
      BY <2>1, <3>2, ProfilesAssumption
    <3>4. Agree'
      BY <1>1, <2>2, <3>3 DEF Agree
    <3> QED
      BY <1>1, <1>2, <2>2, <2>3, <3>4, EndStep
  <2>5. CASE h \notin fresh
    <3>1. Disturbs(h)
      BY <2>1, <2>5 DEF Alone
    <3>2. ASSUME ~disturbed' PROVE Agree' \/ \E g \in fresh' \ {h} : request[g].torn
      <4>1. ~disturbed /\ UNCHANGED selection
        BY <2>5, <3>1, <3>2 DEF Disturbs
      <4>2. fresh' = fresh
        BY <1>1, <4>1 DEF Ages
      <4> QED
        BY <1>1, <2>5, <4>1, <4>2 DEF ProfilesInv, Agree, selection
    <3> QED
      BY <1>1, <1>2, <2>2, <2>3, <3>2, EndStep
  <2> QED
    BY <2>4, <2>5
<1>4. CASE ~FindsRows(w)
  <2>1. UNCHANGED selection /\ disturbed' = (disturbed \/ request[h].torn)
    BY <1>4 DEF CommitSelection
  <2>2. fresh' = fresh
    BY <1>1, <2>1 DEF Ages
  <2>3. ASSUME ~disturbed' PROVE Agree' \/ \E g \in fresh' \ {h} : request[g].torn
    BY <1>1, <2>1, <2>2, <2>3 DEF ProfilesInv, Agree, selection
  <2>4. disturbed' \in BOOLEAN /\ (disturbed => disturbed')
    BY <2>1
  <2> QED
    BY <1>1, <1>2, <2>1, <2>3, <2>4, EndStep DEF selection, TypeOK
<1> QED
  BY <1>3, <1>4

LEMMA CommitNoneStep ==
    ASSUME TypeOK, ProfilesInv, NEW h \in Handlers, CommitNone(h)
    PROVE  TypeOK' /\ ProfilesInv'
<1>1. /\ request[h].torn /\ key' = NoProfile /\ default' = default
      /\ Ages(h) /\ Disturbs(h) /\ UNCHANGED table
      /\ request' = [request EXCEPT ![h] = Idle] /\ Exists' = Exists
  BY DEF CommitNone, ProfilesInv, table, Exists
<1>2. ASSUME ~disturbed' PROVE Agree' \/ \E g \in fresh' \ {h} : request[g].torn
  <2>1. CASE h \in fresh
    BY <1>1, <1>2, <2>1 DEF ProfilesInv, Exact, Agree, Disturbs
  <2>2. CASE h \notin fresh
    <3>1. ~disturbed /\ UNCHANGED selection /\ fresh' = fresh
      BY <1>1, <1>2, <2>2 DEF Disturbs, Ages
    <3> QED
      BY <1>1, <2>2, <3>1 DEF ProfilesInv, Agree, selection
  <2> QED
    BY <2>1, <2>2
<1>3. disturbed' \in BOOLEAN /\ (disturbed => disturbed')
  BY <1>1 DEF Disturbs, TypeOK
<1>4. UNCHANGED selection \/ fresh' \subseteq {h}
  BY <1>1 DEF Ages
<1> QED
  BY <1>1, <1>2, <1>3, <1>4, EndStep DEF TypeOK

LEMMA AbandonStep ==
    ASSUME TypeOK, ProfilesInv, NEW h \in Handlers, Abandon(h)
    PROVE  TypeOK' /\ ProfilesInv'
<1>1. /\ UNCHANGED <<table, selection, fresh>> /\ Exists' = Exists
      /\ request' = [request EXCEPT ![h] = Idle]
      /\ disturbed' = (disturbed \/ request[h].torn)
  BY DEF Abandon, table, Exists
<1>2. ASSUME ~disturbed' PROVE Agree' \/ \E g \in fresh' \ {h} : request[g].torn
  BY <1>1, <1>2 DEF ProfilesInv, Agree, selection
<1> QED
  BY <1>1, <1>2, EndStep DEF TypeOK, selection

LEMMA ProfilesStep ==
    ASSUME TypeOK, ProfilesInv, [Next]_vars
    PROVE  TypeOK' /\ ProfilesInv'
<1>1. CASE UNCHANGED vars
  BY ZenonT(60), <1>1
  DEF vars, table, selection, history, TypeOK, Exists, Busy, Awaits, ProfilesInv, Exact,
      Selected, Agree
<1>2. CASE Next
  BY <1>2, CreateRowStep, CreateSelectsStep, LoadRowStep, UseProfileStep, ChoosingStep,
     UpdateRowStep, DeleteRowStep, CommitSelectionStep, CommitNoneStep, AbandonStep
  DEF Next
<1> QED
  BY <1>1, <1>2

LEMMA ProfilesInit == Init => TypeOK /\ ProfilesInv
<1> SUFFICES ASSUME Init PROVE TypeOK /\ ProfilesInv
  OBVIOUS
<1>1. \A h \in Handlers : request[h] = Idle
  BY DEF Init
<1>2. TypeOK
  BY <1>1, IdleType DEF Init, TypeOK, Exists
<1>3. ProfilesInv
  BY <1>1, IdleType DEF Init, ProfilesInv, Exact, Agree
<1> QED
  BY <1>2, <1>3

(* The types, and the inductive invariant.                                 *)
THEOREM ProfilesInvariant == Spec => [](TypeOK /\ ProfilesInv)
<1>1. (TypeOK /\ ProfilesInv) /\ [Next]_vars => (TypeOK /\ ProfilesInv)'
  BY ProfilesStep
<1> QED
  BY <1>1, ProfilesInit, PTL DEF Spec

(* The key and the flags name the same profile, or none, however requests  *)
(* interleave, fail and end between commits, once a selection has been     *)
(* made by itself after the last that was overtaken or torn.               *)
THEOREM TheSelectionAgrees == Spec => []SelectionAgrees
<1>1. TypeOK /\ ProfilesInv => SelectionAgrees
  BY DEF TypeOK, ProfilesInv, SelectionAgrees, NothingTorn
<1> QED
  BY <1>1, ProfilesInvariant, PTL

(* Then what is marked as selected is what downloads are given.            *)
THEOREM ShownProfileIsUsed == Spec => []ShownIsUsed
<1>1. TypeOK /\ SelectionAgrees => ShownIsUsed
  <2> SUFFICES ASSUME TypeOK, Agree PROVE InUse = default \intersect enabled
    BY DEF SelectionAgrees, ShownIsUsed
  <2>1. CASE key = NoProfile /\ default = {}
    BY <2>1 DEF InUse
  <2>2. CASE key \in Exists /\ default = {key}
    <3>1. key # NoProfile
      BY <2>2, ProfilesAssumption DEF Exists
    <3> QED
      BY <2>2, <3>1 DEF InUse
  <2> QED
    BY <2>1, <2>2 DEF Agree
<1>2. Spec => []TypeOK
  BY ProfilesInvariant, PTL
<1> QED
  BY <1>1, <1>2, TheSelectionAgrees, PTL
=============================================================================
