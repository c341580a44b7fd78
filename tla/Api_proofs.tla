----------------------------- MODULE Api_proofs -----------------------------
(***************************************************************************)
(* Proofs about the client and the server API, for every number of slots   *)
(* and handles, of connections and of refused SYN segments, and about the  *)
(* two programs above the client API, for every length and number of what  *)
(* they send and every way the stack cuts it.                              *)
(*                                                                         *)
(* The handles, the index and the slots are changed by three parties: the  *)
(* application, the events of the processor, and the changes of state that *)
(* raise no event.  The invariant says which of the two tables may be      *)
(* believed when.                                                          *)
(***************************************************************************)
EXTENDS Api, Apps, SequenceTheorems, TLAPS

\* A connection that can still be reported as connected or bring data.
Active == {"SYN_SENT", "ESTABLISHED"}

\* The end of the connection was not reported yet.
Unreported == {"ESTABLISHED", "CLOSE", "LAST_ACK", "FIN_WAIT_1", "FIN_WAIT_2"}

\* The end of a connection leads to these.
Ending == {"CLOSED", "TIME_WAIT", "CLOSING"}

\* The application is a client or a server, and a server has no handles of its own.
RolesApart ==
    /\ role \in {"client", "server"}
    /\ role = "server" =>
          /\ handle = [h \in SlotIds |-> [state |-> "Closed", conn |-> NoSlot]]
          /\ app = [h \in SlotIds |-> NoApp]

\* No two slots have, or had since they were taken, the same connection.
OwnersAreDistinct ==
    /\ \A s \in SlotIds : slot[s].owner <= serial /\ slot[s].cookie <= serial
    /\ \A s \in SlotIds : slot[s].state # "CLOSED" => slot[s].owner # 0
    /\ \A s, t \in SlotIds : s # t =>
          /\ slot[s].owner # 0 => slot[s].owner # slot[t].owner
          /\ slot[s].owner # 0 => slot[s].owner # slot[t].cookie
          /\ slot[s].cookie # 0 => slot[s].cookie # slot[t].cookie

\* A slot has the cookie of its connection, or none: always for a client, which
\* clears it, and for a server as long as no connection goes away unreported.
SlotsKeepTheirCookie ==
    /\ 0 \notin out
    /\ (role = "client" \/ ~ vanished) =>
          \A s \in SlotIds : slot[s].cookie \in {0, slot[s].owner}
    /\ (role = "server" /\ ~ vanished) =>
          \A s \in SlotIds :
              slot[s].state \in Ending \cup {"SYN_RCVD"} => slot[s].cookie = 0

\* What the application takes for connected is connected, to a slot.
ConnectedHandlesHaveSlots ==
    \A h \in SlotIds :
        /\ handle[h].state = "Connected" => handle[h].conn \in SlotIds
        /\ app[h].view = "up" => handle[h].state = "Connected"

\* From the slot: where the index leads to a handle that names the slot, the
\* handle began the connection, even when others vanished.
IndexIsRight ==
    refused = 0 =>
        \A s \in SlotIds :
            slot[s].state \in Active /\ IsCurrent(s) =>
                /\ handle[idx[s]].state \in {"Connecting", "Connected"}
                /\ app[idx[s]].mine = slot[s].owner

\* From the handle: the slot it names is its own, and the index leads back, as
\* long as nothing vanished.
HandlesAreRight ==
    Undisturbed =>
        /\ \A h \in SlotIds : handle[h].state \in {"Connecting", "Connected"} =>
              LET s == handle[h].conn IN
              /\ s \in SlotIds
              /\ slot[s].owner = app[h].mine
              /\ idx[s] = h
              /\ handle[h].state = "Connecting" => slot[s].state = "SYN_SENT"
              /\ handle[h].state = "Connected" =>
                    slot[s].state \in Unreported /\ app[h].view = "up"
        /\ role = "client" =>
              \A s \in SlotIds : slot[s].cookie # 0 =>
                  IsCurrent(s) /\ handle[idx[s]].state = "Connected"

ApiInv ==
    /\ TypeOK /\ RolesApart /\ OwnersAreDistinct /\ SlotsKeepTheirCookie
    /\ ConnectedHandlesHaveSlots /\ IndexIsRight /\ HandlesAreRight
    /\ NoCookieIsLost /\ NoCookieAfterClosed

-----------------------------------------------------------------------------
(***************************************************************************)
(* What a step does to one slot.                                           *)
(***************************************************************************)

\* A slot that changes its state and nothing else, told to nobody.
LEMMA MoveKeeps ==
    ASSUME ApiInv, NEW s \in SlotIds, NEW st \in SlotStates,
           slot' = Enter(s, st), slot[s].state # "CLOSED" \/ st = "CLOSED",
           vanished => vanished',
           UNCHANGED <<role, listening, serial, out, handle, idx, refused, app>>,
           st \in Active => slot[s].state \in Active \/ ~ IsCurrent(s),
           Undisturbed' =>
              /\ \A h \in SlotIds :
                    handle[h].conn = s /\ handle[h].state \in {"Connecting", "Connected"} =>
                        handle[h].state = "Connected" /\ st \in Unreported
              /\ role = "client" /\ st = "CLOSED" => slot[s].cookie = 0,
           role = "server" /\ ~ vanished' /\ st \in Ending \cup {"SYN_RCVD"} =>
              slot[s].cookie = 0
    PROVE  ApiInv'
<1>. USE DEF ApiInv
<1>1. /\ \A i \in SlotIds : i # s => slot'[i] = slot[i]
      /\ slot'[s].state = st /\ slot'[s].owner = slot[s].owner
      /\ slot'[s].cookie = slot[s].cookie
  BY DEF TypeOK, Enter
<1>2. TypeOK'
  BY DEF TypeOK, Enter
<1>3. RolesApart'
  BY DEF RolesApart
<1>4. OwnersAreDistinct'
  BY <1>1 DEF OwnersAreDistinct
<1>5. SlotsKeepTheirCookie'
  BY <1>1 DEF SlotsKeepTheirCookie
<1>6. ConnectedHandlesHaveSlots'
  BY DEF ConnectedHandlesHaveSlots
<1>7. IndexIsRight'
  <2>. SUFFICES ASSUME refused = 0, NEW t \in SlotIds,
                       slot'[t].state \in Active, IsCurrent(t)'
                PROVE  /\ handle[idx[t]].state \in {"Connecting", "Connected"}
                       /\ app[idx[t]].mine = slot'[t].owner
    BY DEF IndexIsRight
  <2>1. IsCurrent(t)
    BY DEF IsCurrent
  <2>2. slot[t].state \in Active /\ slot'[t].owner = slot[t].owner
    BY <1>1, <2>1
  <2>. QED  BY <2>1, <2>2 DEF IndexIsRight
<1>8. Undisturbed' => Undisturbed
  BY DEF Undisturbed
<1>9. HandlesAreRight'
  <2>. SUFFICES ASSUME Undisturbed'
                PROVE  HandlesAreRight'
    BY DEF HandlesAreRight
  <2>1. Undisturbed
    BY <1>8
  <2>2. ASSUME NEW h \in SlotIds, handle[h].state \in {"Connecting", "Connected"}
        PROVE  LET t == handle[h].conn IN
               /\ t \in SlotIds
               /\ slot'[t].owner = app[h].mine
               /\ idx[t] = h
               /\ handle[h].state = "Connecting" => slot'[t].state = "SYN_SENT"
               /\ handle[h].state = "Connected" =>
                    slot'[t].state \in Unreported /\ app[h].view = "up"
    <3>. DEFINE t == handle[h].conn
    <3>1. /\ t \in SlotIds /\ slot[t].owner = app[h].mine /\ idx[t] = h
          /\ handle[h].state = "Connecting" => slot[t].state = "SYN_SENT"
          /\ handle[h].state = "Connected" => slot[t].state \in Unreported /\ app[h].view = "up"
      BY <2>1, <2>2 DEF HandlesAreRight
    <3>2. CASE t = s
      <4>1. handle[h].state = "Connected" /\ st \in Unreported
        BY <2>2, <3>2
      <4>. QED  BY <1>1, <3>1, <3>2, <4>1
    <3>3. CASE t # s
      BY <1>1, <3>1, <3>3
    <3>. QED  BY <3>2, <3>3
  <2>3. ASSUME role = "client", NEW t \in SlotIds, slot'[t].cookie # 0
        PROVE  IsCurrent(t) /\ handle[idx[t]].state = "Connected"
    <3>1. slot[t].cookie # 0
      BY <1>1, <2>3
    <3>. QED  BY <2>1, <2>3, <3>1 DEF HandlesAreRight
  <2>. QED  BY <2>2, <2>3 DEF HandlesAreRight, IsCurrent
<1>10. NoCookieIsLost'
  <2>1. SUFFICES ASSUME Undisturbed', NEW k \in out
                 PROVE  \E t \in SlotIds : /\ slot'[t].cookie = k /\ slot'[t].owner = k
                                           /\ slot'[t].state # "CLOSED"
    BY DEF NoCookieIsLost
  <2>2. PICK t \in SlotIds : /\ slot[t].cookie = k /\ slot[t].owner = k
                             /\ slot[t].state # "CLOSED"
    BY <1>8, <2>1 DEF NoCookieIsLost
  <2>3. CASE t # s
    BY <1>1, <2>2, <2>3
  <2>4. CASE t = s
    <3>1. slot[s].cookie # 0
      BY <2>2, <2>4 DEF SlotsKeepTheirCookie
    <3>2. st # "CLOSED"
      BY <2>1, <3>1 DEF RolesApart, Undisturbed, Ending
    <3>. QED  BY <1>1, <2>2, <2>4, <3>2
  <2>. QED  BY <2>3, <2>4
<1>11. NoCookieAfterClosed'
  BY <1>1 DEF NoCookieAfterClosed
<1>. QED  BY <1>2, <1>3, <1>4, <1>5, <1>6, <1>7, <1>9, <1>10, <1>11

\* A slot whose state and cookie are set is a slot.
LEMMA SetSlotType ==
    ASSUME TypeOK, NEW s \in SlotIds, NEW st \in SlotStates, NEW k \in 0 .. MaxConns
    PROVE  [slot EXCEPT ![s].state = st, ![s].cookie = k] \in
              [SlotIds -> [state : SlotStates, owner : 0 .. MaxConns, cookie : 0 .. MaxConns]]
<1>1. ASSUME NEW f \in [SlotIds -> [state : SlotStates, owner : 0 .. MaxConns,
                                    cookie : 0 .. MaxConns]]
      PROVE  [f EXCEPT ![s].cookie = k] \in
                [SlotIds -> [state : SlotStates, owner : 0 .. MaxConns,
                             cookie : 0 .. MaxConns]]
  OBVIOUS
<1>2. [slot EXCEPT ![s].state = st] \in
         [SlotIds -> [state : SlotStates, owner : 0 .. MaxConns, cookie : 0 .. MaxConns]]
  BY DEF TypeOK
<1>. QED  BY <1>1, <1>2

\* A cookie that is passed to onClosed() and cleared: the other slots have others.
LEMMA EndCookies ==
    ASSUME ApiInv, NEW s \in SlotIds, NEW st \in Ending,
           slot' = EndsWith(s, st), slot[s].state # "CLOSED" \/ st = "CLOSED",
           out' = out \ {slot[s].cookie},
           UNCHANGED <<role, serial, vanished, refused>>
    PROVE  /\ \A i \in SlotIds : i # s => slot'[i] = slot[i]
           /\ slot'[s].state = st /\ slot'[s].owner = slot[s].owner
           /\ slot'[s].cookie = 0
           /\ OwnersAreDistinct' /\ SlotsKeepTheirCookie'
           /\ NoCookieIsLost' /\ NoCookieAfterClosed'
           /\ slot' \in [SlotIds -> [state : SlotStates, owner : 0 .. MaxConns,
                                     cookie : 0 .. MaxConns]]
<1>. USE DEF ApiInv
<1>1. /\ \A i \in SlotIds : i # s => slot'[i] = slot[i]
      /\ slot'[s].state = st /\ slot'[s].owner = slot[s].owner
      /\ slot'[s].cookie = 0
  BY DEF TypeOK, EndsWith
<1>2. slot' \in [SlotIds -> [state : SlotStates, owner : 0 .. MaxConns,
                             cookie : 0 .. MaxConns]]
  <2>1. st \in SlotStates /\ 0 \in 0 .. MaxConns
    BY SlotsAssumption DEF Ending, SlotStates
  <2>. QED  BY <2>1, SetSlotType DEF EndsWith
<1>3. OwnersAreDistinct'
  <2>1. 0 <= serial
    BY SlotsAssumption DEF TypeOK
  <2>. QED  BY <1>1, <2>1 DEF OwnersAreDistinct
<1>4. SlotsKeepTheirCookie'
  BY <1>1 DEF SlotsKeepTheirCookie
<1>5. NoCookieIsLost'
  BY <1>1 DEF NoCookieIsLost, Undisturbed
<1>6. NoCookieAfterClosed'
  BY <1>1 DEF NoCookieAfterClosed, OwnersAreDistinct
<1>. QED  BY <1>1, <1>2, <1>3, <1>4, <1>5, <1>6

\* A cookie that onConnected() returned, in a slot that had none.
LEMMA AnnounceCookies ==
    ASSUME ApiInv, NEW s \in SlotIds, Announced(s), slot[s].state # "CLOSED",
           Undisturbed => slot[s].cookie = 0,
           UNCHANGED <<role, serial, vanished, refused>>
    PROVE  /\ \A i \in SlotIds : i # s => slot'[i] = slot[i]
           /\ slot'[s].state = "ESTABLISHED" /\ slot'[s].owner = slot[s].owner
           /\ slot'[s].cookie = slot[s].owner
           /\ OwnersAreDistinct' /\ SlotsKeepTheirCookie'
           /\ NoCookieIsLost' /\ NoCookieAfterClosed'
           /\ slot' \in [SlotIds -> [state : SlotStates, owner : 0 .. MaxConns,
                                     cookie : 0 .. MaxConns]]
<1>. USE DEF ApiInv
<1>1. /\ \A i \in SlotIds : i # s => slot'[i] = slot[i]
      /\ slot'[s].state = "ESTABLISHED" /\ slot'[s].owner = slot[s].owner
      /\ slot'[s].cookie = slot[s].owner
      /\ out' = out \cup {slot[s].owner}
  BY DEF TypeOK, Announced
<1>2. slot' \in [SlotIds -> [state : SlotStates, owner : 0 .. MaxConns,
                             cookie : 0 .. MaxConns]]
  <2>1. "ESTABLISHED" \in SlotStates /\ slot[s].owner \in 0 .. MaxConns
    BY DEF TypeOK, SlotStates
  <2>. QED  BY <2>1, SetSlotType DEF Announced
<1>3. OwnersAreDistinct'
  BY <1>1 DEF OwnersAreDistinct
<1>4. SlotsKeepTheirCookie'
  BY <1>1 DEF SlotsKeepTheirCookie, OwnersAreDistinct, Ending
<1>5. NoCookieIsLost'
  <2>1. SUFFICES ASSUME Undisturbed', NEW k \in out'
                 PROVE  \E t \in SlotIds : /\ slot'[t].cookie = k /\ slot'[t].owner = k
                                           /\ slot'[t].state # "CLOSED"
    BY DEF NoCookieIsLost
  <2>2. CASE k = slot[s].owner
    BY <1>1, <2>2
  <2>3. CASE k # slot[s].owner
    <3>1. PICK t \in SlotIds : /\ slot[t].cookie = k /\ slot[t].owner = k
                               /\ slot[t].state # "CLOSED"
      BY <1>1, <2>1, <2>3 DEF NoCookieIsLost, Undisturbed
    <3>. QED  BY <1>1, <2>3, <3>1
  <2>. QED  BY <2>2, <2>3
<1>6. NoCookieAfterClosed'
  BY <1>1 DEF NoCookieAfterClosed
<1>. QED  BY <1>1, <1>2, <1>3, <1>4, <1>5, <1>6

-----------------------------------------------------------------------------
(***************************************************************************)
(* The calls of the application of a client.                               *)
(***************************************************************************)

\* open() on a closed handle: no active slot leads to it.
LEMMA OpenKeeps ==
    ASSUME ApiInv, role = "client", UNCHANGED <<role, listening, arp>>,
           NEW h \in SlotIds, Open(h)
    PROVE  ApiInv'
<1>. USE DEF ApiInv
<1>1. /\ handle[h].state = "Closed"
      /\ handle' = [handle EXCEPT ![h].state = "Opened"]
      /\ app' = [app EXCEPT ![h] = [view |-> "open", mine |-> 0]]
      /\ UNCHANGED <<role, listening, slot, serial, out, vanished, idx, refused>>
  BY DEF Open
<1>2. TypeOK'
  BY <1>1, SlotsAssumption, SMTT(30) DEF TypeOK, HandleStates
<1>3. RolesApart'
  BY <1>1 DEF RolesApart
<1>4. OwnersAreDistinct' /\ SlotsKeepTheirCookie' /\ NoCookieIsLost' /\ NoCookieAfterClosed'
  BY <1>1 DEF OwnersAreDistinct, SlotsKeepTheirCookie, NoCookieIsLost,
              NoCookieAfterClosed, Undisturbed
<1>5. /\ \A i \in SlotIds : i # h => handle'[i] = handle[i] /\ app'[i] = app[i]
      /\ handle'[h].state = "Opened" /\ handle'[h].conn = handle[h].conn
      /\ app'[h].view = "open"
  BY <1>1 DEF TypeOK
<1>6. ConnectedHandlesHaveSlots'
  BY <1>5 DEF ConnectedHandlesHaveSlots
<1>7. IndexIsRight'
  BY <1>1, <1>5 DEF IndexIsRight, IsCurrent, TypeOK
<1>8. HandlesAreRight'
  BY <1>1, <1>5 DEF HandlesAreRight, Undisturbed, IsCurrent, TypeOK
<1>. QED  BY <1>2, <1>3, <1>4, <1>6, <1>7, <1>8

\* connect() without a translation.
LEMMA DiscoverKeeps ==
    ASSUME ApiInv, role = "client", UNCHANGED <<role, listening, arp>>,
           NEW h \in SlotIds, Discover(h)
    PROVE  ApiInv'
<1>. USE DEF ApiInv
<1>1. /\ handle[h].state = "Opened"
      /\ handle' = [handle EXCEPT ![h].state = "Resolving"]
      /\ UNCHANGED <<role, listening, slot, serial, out, vanished, idx, refused, app>>
  BY DEF Discover
<1>2. TypeOK'
  BY <1>1 DEF TypeOK, HandleStates
<1>3. RolesApart'
  BY <1>1 DEF RolesApart
<1>4. OwnersAreDistinct' /\ SlotsKeepTheirCookie' /\ NoCookieIsLost' /\ NoCookieAfterClosed'
  BY <1>1 DEF OwnersAreDistinct, SlotsKeepTheirCookie, NoCookieIsLost,
              NoCookieAfterClosed, Undisturbed
<1>5. /\ \A i \in SlotIds : i # h => handle'[i] = handle[i]
      /\ handle'[h].state = "Resolving" /\ handle'[h].conn = handle[h].conn
  BY <1>1 DEF TypeOK
<1>6. ConnectedHandlesHaveSlots'
  BY <1>1, <1>5 DEF ConnectedHandlesHaveSlots
<1>7. IndexIsRight'
  BY <1>1, <1>5 DEF IndexIsRight, IsCurrent, TypeOK
<1>8. HandlesAreRight'
  BY <1>1, <1>5 DEF HandlesAreRight, Undisturbed, IsCurrent, TypeOK
<1>. QED  BY <1>2, <1>3, <1>4, <1>6, <1>7, <1>8

\* The slot that a new connection takes is CLOSED or in TIME_WAIT.
LEMMA TakenIsEnding ==
    ASSUME NEW s \in SlotIds, Takes(s)
    PROVE  slot[s].state \in {"CLOSED", "TIME_WAIT"}
BY DEF Takes

\* connect() whose SYN is sent: whatever was known of the slot before is void.
LEMMA ConnectKeeps ==
    ASSUME ApiInv, role = "client", UNCHANGED <<role, listening, arp>>,
           NEW h \in SlotIds, NEW s \in SlotIds, Takes(s),
           handle[h].state = "Opened" \/ handle[h].state = "Resolving",
           serial < MaxConns, serial' = serial + 1,
           slot' = [slot EXCEPT ![s] = [state |-> "SYN_SENT", owner |-> serial',
                                        cookie |-> 0]],
           handle' = [handle EXCEPT ![h] = [state |-> "Connecting", conn |-> s]],
           idx' = [idx EXCEPT ![s] = h],
           app' = [app EXCEPT ![h].mine = serial'],
           UNCHANGED <<refused, out, vanished>>
    PROVE  ApiInv'
<1>. USE DEF ApiInv
<1>1. /\ \A i \in SlotIds : i # s => slot'[i] = slot[i] /\ idx'[i] = idx[i]
      /\ slot'[s].state = "SYN_SENT" /\ slot'[s].owner = serial + 1
      /\ slot'[s].cookie = 0 /\ idx'[s] = h
      /\ \A i \in SlotIds : i # h => handle'[i] = handle[i] /\ app'[i] = app[i]
      /\ handle'[h].state = "Connecting" /\ handle'[h].conn = s
      /\ app'[h].view = app[h].view /\ app'[h].mine = serial + 1
  BY DEF TypeOK
<1>2. serial + 1 \in 1 .. MaxConns
  BY SlotsAssumption DEF TypeOK
<1>3. TypeOK'
  <2>1. /\ serial' \in 0 .. MaxConns
        /\ [state |-> "SYN_SENT", owner |-> serial', cookie |-> 0] \in
              [state : SlotStates, owner : 0 .. MaxConns, cookie : 0 .. MaxConns]
    BY <1>2, SlotsAssumption DEF SlotStates
  <2>2. slot' \in [SlotIds -> [state : SlotStates, owner : 0 .. MaxConns,
                               cookie : 0 .. MaxConns]]
    BY <2>1 DEF TypeOK
  <2>3. handle' \in [SlotIds -> [state : HandleStates, conn : SlotIds \cup {NoSlot}]]
    BY DEF TypeOK, HandleStates
  <2>4. /\ idx' \in [SlotIds \cup {NoSlot} -> SlotIds]
        /\ app' \in [SlotIds -> [view : {"none", "open", "up"}, mine : 0 .. MaxConns]]
    BY <2>1 DEF TypeOK
  <2>. QED  BY <2>1, <2>2, <2>3, <2>4 DEF TypeOK
<1>4. RolesApart'
  BY DEF RolesApart
<1>5. OwnersAreDistinct'
  <2>1. \A i \in SlotIds : slot[i].owner \in 0 .. serial /\ slot[i].cookie \in 0 .. serial
    BY DEF OwnersAreDistinct, TypeOK
  <2>. QED  BY <1>1, <1>2, <2>1, SlotsAssumption DEF OwnersAreDistinct, TypeOK
<1>6. SlotsKeepTheirCookie'
  BY <1>1 DEF SlotsKeepTheirCookie
<1>7. ConnectedHandlesHaveSlots'
  BY <1>1 DEF ConnectedHandlesHaveSlots
<1>8. IndexIsRight'
  BY <1>1 DEF IndexIsRight, IsCurrent, TypeOK
<1>9. Undisturbed' => Undisturbed /\ slot[s].cookie = 0
  <2>1. SUFFICES ASSUME Undisturbed, slot[s].cookie # 0 PROVE FALSE
    BY DEF Undisturbed
  <2>2. /\ idx[s] \in SlotIds
        /\ handle[idx[s]].conn = s /\ handle[idx[s]].state = "Connected"
    BY <2>1 DEF HandlesAreRight, IsCurrent, TypeOK
  <2>3. slot[s].state \in Unreported
    BY <2>1, <2>2 DEF HandlesAreRight
  <2>. QED  BY <2>3, TakenIsEnding DEF Unreported
<1>10. HandlesAreRight'
  <2>1. SUFFICES ASSUME Undisturbed' PROVE HandlesAreRight'
    BY DEF HandlesAreRight
  <2>2. Undisturbed /\ slot[s].cookie = 0
    BY <1>9, <2>1
  <2>3. \A i \in SlotIds : handle[i].state \in {"Connecting", "Connected"} =>
            handle[i].conn # s
    BY <2>2, TakenIsEnding DEF HandlesAreRight, Unreported
  <2>4. ASSUME NEW i \in SlotIds, handle'[i].state \in {"Connecting", "Connected"}
        PROVE  LET t == handle'[i].conn IN
               /\ t \in SlotIds
               /\ slot'[t].owner = app'[i].mine
               /\ idx'[t] = i
               /\ handle'[i].state = "Connecting" => slot'[t].state = "SYN_SENT"
               /\ handle'[i].state = "Connected" =>
                     slot'[t].state \in Unreported /\ app'[i].view = "up"
    BY <1>1, <2>2, <2>3, <2>4 DEF HandlesAreRight
  <2>5. ASSUME NEW t \in SlotIds, slot'[t].cookie # 0
        PROVE  IsCurrent(t)' /\ handle'[idx'[t]].state = "Connected"
    BY <1>1, <2>2, <2>5 DEF HandlesAreRight, IsCurrent, TypeOK
  <2>. QED  BY <2>4, <2>5 DEF HandlesAreRight
<1>11. NoCookieIsLost'
  BY <1>1, <1>9 DEF NoCookieIsLost, SlotsKeepTheirCookie
<1>12. NoCookieAfterClosed'
  BY <1>1 DEF NoCookieAfterClosed
<1>. QED  BY <1>3, <1>4, <1>5, <1>6, <1>7, <1>8, <1>10, <1>11, <1>12

\* connect() whose SYN is refused: the handle waits for a slot it does not have.
LEMMA RefusedKeeps ==
    ASSUME ApiInv, role = "client", UNCHANGED <<role, listening, arp>>,
           NEW h \in SlotIds, NEW s \in SlotIds, Takes(s),
           handle[h].state = "Opened" \/ handle[h].state = "Resolving",
           serial < MaxConns, serial' = serial + 1,
           refused < MaxRefused, refused' = refused + 1,
           slot' = [slot EXCEPT ![s] = [state |-> "CLOSED", owner |-> serial',
                                        cookie |-> 0]],
           handle' = [handle EXCEPT ![h].state = "Connecting"],
           idx' = [idx EXCEPT ![handle[h].conn] = h],
           UNCHANGED <<app, out, vanished>>
    PROVE  ApiInv'
<1>. USE DEF ApiInv
<1>1. /\ \A i \in SlotIds : i # s => slot'[i] = slot[i]
      /\ slot'[s].owner = serial + 1 /\ slot'[s].cookie = 0 /\ slot'[s].state = "CLOSED"
      /\ \A i \in SlotIds : i # h => handle'[i] = handle[i]
      /\ handle'[h].state = "Connecting"
  BY DEF TypeOK
<1>2. serial' \in 1 .. MaxConns /\ refused' \in 1 .. MaxRefused
  BY SlotsAssumption, ClientAssumption DEF TypeOK
<1>3. TypeOK'
  <2>1. /\ serial' \in 0 .. MaxConns /\ refused' \in 0 .. MaxRefused
        /\ [state |-> "CLOSED", owner |-> serial', cookie |-> 0] \in
              [state : SlotStates, owner : 0 .. MaxConns, cookie : 0 .. MaxConns]
    BY <1>2, SlotsAssumption, ClientAssumption DEF SlotStates
  <2>2. slot' \in [SlotIds -> [state : SlotStates, owner : 0 .. MaxConns,
                               cookie : 0 .. MaxConns]]
    BY <2>1 DEF TypeOK
  <2>3. handle' \in [SlotIds -> [state : HandleStates, conn : SlotIds \cup {NoSlot}]]
    BY DEF TypeOK, HandleStates
  <2>4. idx' \in [SlotIds \cup {NoSlot} -> SlotIds]
    BY DEF TypeOK
  <2>. QED  BY <2>1, <2>2, <2>3, <2>4 DEF TypeOK
<1>4. RolesApart'
  BY DEF RolesApart
<1>5. OwnersAreDistinct'
  <2>1. \A i \in SlotIds : slot[i].owner \in 0 .. serial /\ slot[i].cookie \in 0 .. serial
    BY DEF OwnersAreDistinct, TypeOK
  <2>. QED  BY <1>1, <1>2, <2>1, SlotsAssumption DEF OwnersAreDistinct, TypeOK
<1>6. SlotsKeepTheirCookie' /\ NoCookieAfterClosed'
  BY <1>1 DEF SlotsKeepTheirCookie, NoCookieAfterClosed
<1>7. ConnectedHandlesHaveSlots'
  BY <1>1 DEF ConnectedHandlesHaveSlots
<1>8. refused' # 0
  BY <1>2
<1>9. IndexIsRight' /\ HandlesAreRight' /\ NoCookieIsLost'
  BY <1>8 DEF IndexIsRight, HandlesAreRight, NoCookieIsLost, Undisturbed
<1>. QED  BY <1>3, <1>4, <1>5, <1>6, <1>7, <1>9

\* Calls and events that change none of the tables.
LEMMA NothingChanges ==
    ASSUME ApiInv, UNCHANGED <<role, slot, serial, out, vanished, handle, idx, refused, app>>,
           listening' \subseteq Ports
    PROVE  ApiInv'
BY DEF ApiInv, TypeOK, RolesApart, OwnersAreDistinct, SlotsKeepTheirCookie,
       ConnectedHandlesHaveSlots, IndexIsRight, IsCurrent, HandlesAreRight,
       NoCookieIsLost, NoCookieAfterClosed, Undisturbed

\* close() of a connected handle goes to its slot.
LEMMA CloseKeeps ==
    ASSUME ApiInv, role = "client", UNCHANGED <<role, listening, arp>>,
           NEW h \in SlotIds, Close(h)
    PROVE  ApiInv'
<1>. DEFINE s == handle[h].conn
<1>1. /\ handle[h].state = "Connected" /\ slot[s].state = "ESTABLISHED"
      /\ UNCHANGED <<serial, out, vanished, handle, idx, refused, app>>
  BY DEF Close, clientVars
<1>2. PICK st \in {"CLOSE", "FIN_WAIT_1"} : slot' = Enter(s, st)
  BY DEF Close
<1>3. s \in SlotIds /\ st \in SlotStates
  BY <1>1 DEF ApiInv, ConnectedHandlesHaveSlots, SlotStates
<1>4. ASSUME Undisturbed', NEW i \in SlotIds, handle[i].conn = s,
             handle[i].state \in {"Connecting", "Connected"}
      PROVE  handle[i].state = "Connected" /\ st \in Unreported
  BY <1>1, <1>4 DEF ApiInv, HandlesAreRight, Undisturbed, Unreported
<1>. QED  BY <1>1, <1>2, <1>3, <1>4, MoveKeeps DEF Active, Ending

-----------------------------------------------------------------------------
(***************************************************************************)
(* The events that the processor passes to a client.                       *)
(***************************************************************************)

\* Where the moves that end a connection come from and lead to.
LEMMA EndMoveIs ==
    ASSUME NEW m \in EndMoves
    PROVE  m[1] # "CLOSED" /\ m[2] \in Ending
BY DEF EndMoves, ClosedMoves, AbortedMoves, TimedOutMoves, Ending

\* As long as nothing is disturbed, a slot that no handle is current for has no
\* handle that names it, and no cookie.
LEMMA StrangersHaveNoHandle ==
    ASSUME ApiInv, role = "client", NEW s \in SlotIds, ~ IsCurrent(s), Undisturbed
    PROVE  /\ slot[s].cookie = 0
           /\ \A h \in SlotIds : handle[h].state \in {"Connecting", "Connected"} =>
                 handle[h].conn # s
BY DEF ApiInv, HandlesAreRight, IsCurrent

\* onConnected() to the handle that waits for it, or to none.
LEMMA OnConnectedKeeps ==
    ASSUME ApiInv, role = "client", UNCHANGED <<role, listening, arp>>,
           NEW s \in SlotIds, OnConnected(s)
    PROVE  ApiInv'
<1>. DEFINE h == idx[s]
<1>1. /\ slot[s].state = "SYN_SENT"
      /\ UNCHANGED <<serial, vanished, idx, refused>>
  BY DEF OnConnected
<1>2. CASE IsCurrent(s)
  <2>. USE DEF ApiInv
  <2>1. /\ Announced(s)
        /\ handle' = [handle EXCEPT ![h].state = "Connected"]
        /\ app' = [app EXCEPT ![h].view = "up"]
    BY <1>2 DEF OnConnected, HandleOf, Tell
  <2>2. h \in SlotIds /\ handle[h].conn = s
    BY <1>2 DEF TypeOK, IsCurrent
  <2>3. Undisturbed => slot[s].cookie = 0
    BY <1>1, <2>2 DEF HandlesAreRight, Unreported
  <2>4. /\ \A i \in SlotIds : i # s => slot'[i] = slot[i]
        /\ slot'[s].state = "ESTABLISHED" /\ slot'[s].owner = slot[s].owner
        /\ slot'[s].cookie = slot[s].owner
        /\ OwnersAreDistinct' /\ SlotsKeepTheirCookie'
        /\ NoCookieIsLost' /\ NoCookieAfterClosed'
        /\ slot' \in [SlotIds -> [state : SlotStates, owner : 0 .. MaxConns,
                                  cookie : 0 .. MaxConns]]
    BY <1>1, <2>1, <2>3, AnnounceCookies
  <2>5. /\ \A i \in SlotIds : i # h => handle'[i] = handle[i] /\ app'[i] = app[i]
        /\ handle'[h].state = "Connected" /\ handle'[h].conn = s
        /\ app'[h].view = "up" /\ app'[h].mine = app[h].mine
    BY <2>1, <2>2 DEF TypeOK
  <2>6. TypeOK'
    <3>1. handle' \in [SlotIds -> [state : HandleStates, conn : SlotIds \cup {NoSlot}]]
      BY <2>1, <2>2 DEF TypeOK, HandleStates
    <3>2. app' \in [SlotIds -> [view : {"none", "open", "up"}, mine : 0 .. MaxConns]]
      BY <2>1, <2>2 DEF TypeOK
    <3>. QED  BY <1>1, <2>4, <3>1, <3>2 DEF TypeOK
  <2>7. RolesApart' /\ ConnectedHandlesHaveSlots'
    BY <2>2, <2>5 DEF RolesApart, ConnectedHandlesHaveSlots
  <2>8. refused = 0 => app[h].mine = slot[s].owner
    BY <1>1, <1>2 DEF IndexIsRight, Active
  <2>9. IndexIsRight'
    <3>1. SUFFICES ASSUME refused = 0, NEW t \in SlotIds,
                          slot'[t].state \in Active, handle'[idx[t]].conn = t
                   PROVE  /\ handle'[idx[t]].state \in {"Connecting", "Connected"}
                          /\ app'[idx[t]].mine = slot'[t].owner
      BY <1>1 DEF IndexIsRight, IsCurrent
    <3>2. idx[t] \in SlotIds
      BY DEF TypeOK
    <3>3. CASE t = s
      BY <2>4, <2>5, <2>8, <3>1, <3>3
    <3>4. CASE t # s
      <4>1. idx[t] # h
        BY <2>5, <3>1, <3>4
      <4>. QED  BY <2>4, <2>5, <3>1, <3>2, <3>4, <4>1 DEF IndexIsRight, IsCurrent
    <3>. QED  BY <3>3, <3>4
  <2>10. HandlesAreRight'
    <3>1. SUFFICES ASSUME Undisturbed PROVE HandlesAreRight'
      BY <1>1 DEF HandlesAreRight, Undisturbed
    <3>2. ASSUME NEW i \in SlotIds, handle'[i].state \in {"Connecting", "Connected"}
          PROVE  LET t == handle'[i].conn IN
                 /\ t \in SlotIds
                 /\ slot'[t].owner = app'[i].mine
                 /\ idx'[t] = i
                 /\ handle'[i].state = "Connecting" => slot'[t].state = "SYN_SENT"
                 /\ handle'[i].state = "Connected" =>
                       slot'[t].state \in Unreported /\ app'[i].view = "up"
      <4>1. CASE i = h
        BY <1>1, <2>2, <2>4, <2>5, <2>8, <3>1, <4>1 DEF Unreported, Undisturbed
      <4>2. CASE i # h
        <5>1. handle[i].conn \in SlotIds /\ idx[handle[i].conn] = i
          BY <2>5, <3>1, <3>2, <4>2 DEF HandlesAreRight
        <5>2. handle[i].conn # s
          BY <4>2, <5>1
        <5>. QED  BY <1>1, <2>4, <2>5, <3>1, <3>2, <4>2, <5>1, <5>2 DEF HandlesAreRight
      <4>. QED  BY <4>1, <4>2
    <3>3. ASSUME NEW t \in SlotIds, slot'[t].cookie # 0
          PROVE  IsCurrent(t)' /\ handle'[idx'[t]].state = "Connected"
      <4>1. CASE t = s
        BY <1>1, <2>5, <4>1 DEF IsCurrent
      <4>2. CASE t # s
        <5>1. handle[idx[t]].conn = t /\ handle[idx[t]].state = "Connected"
              /\ idx[t] \in SlotIds
          BY <2>4, <3>1, <3>3, <4>2 DEF HandlesAreRight, IsCurrent, TypeOK
        <5>. QED  BY <1>1, <2>2, <2>5, <4>2, <5>1 DEF IsCurrent
      <4>. QED  BY <4>1, <4>2
    <3>. QED  BY <3>2, <3>3 DEF HandlesAreRight
  <2>. QED  BY <2>4, <2>6, <2>7, <2>9, <2>10
<1>3. CASE ~ IsCurrent(s)
  <2>1. slot' = Enter(s, "ESTABLISHED") /\ UNCHANGED <<out, handle, app>>
    BY <1>3 DEF OnConnected
  <2>2. "ESTABLISHED" \in SlotStates /\ "ESTABLISHED" # "CLOSED"
        /\ "ESTABLISHED" \notin Ending \cup {"SYN_RCVD"}
    BY DEF SlotStates, Ending
  <2>3. Undisturbed' => Undisturbed
    BY <1>1 DEF Undisturbed
  <2>. QED  BY <1>1, <1>3, <2>1, <2>2, <2>3, MoveKeeps, StrangersHaveNoHandle
<1>. QED  BY <1>2, <1>3

\* onAborted(), onTimedOut(), onClosed() and abort() close the handle that the
\* index leads to, if it names the slot.
LEMMA EndedKeeps ==
    ASSUME ApiInv, role = "client", UNCHANGED <<role, listening, arp>>,
           NEW s \in SlotIds, NEW st \in Ending,
           slot[s].state # "CLOSED" \/ st = "CLOSED", Ended(s, st)
    PROVE  ApiInv'
<1>. DEFINE h == idx[s]
<1>1. UNCHANGED <<serial, vanished, idx, refused>>
  BY DEF Ended
<1>2. CASE IsCurrent(s)
  <2>. USE DEF ApiInv
  <2>1. /\ slot' = EndsWith(s, st)
        /\ out' = out \ {slot[s].cookie}
        /\ handle' = [handle EXCEPT ![h].state = "Closed"]
        /\ app' = [app EXCEPT ![h].view = "none"]
    BY <1>2 DEF Ended, HandleOf, Tell
  <2>2. h \in SlotIds /\ handle[h].conn = s
    BY <1>2 DEF TypeOK, IsCurrent
  <2>3. /\ \A i \in SlotIds : i # s => slot'[i] = slot[i]
        /\ slot'[s].state = st /\ slot'[s].owner = slot[s].owner
        /\ slot'[s].cookie = 0
        /\ OwnersAreDistinct' /\ SlotsKeepTheirCookie'
        /\ NoCookieIsLost' /\ NoCookieAfterClosed'
        /\ slot' \in [SlotIds -> [state : SlotStates, owner : 0 .. MaxConns,
                                  cookie : 0 .. MaxConns]]
    BY <1>1, <2>1, EndCookies
  <2>4. /\ \A i \in SlotIds : i # h => handle'[i] = handle[i] /\ app'[i] = app[i]
        /\ handle'[h].state = "Closed" /\ handle'[h].conn = s
        /\ app'[h].view = "none"
    BY <2>1, <2>2 DEF TypeOK
  <2>5. TypeOK'
    <3>1. handle' \in [SlotIds -> [state : HandleStates, conn : SlotIds \cup {NoSlot}]]
      BY <2>1 DEF TypeOK, HandleStates
    <3>2. app' \in [SlotIds -> [view : {"none", "open", "up"}, mine : 0 .. MaxConns]]
      BY <2>1 DEF TypeOK
    <3>. QED  BY <1>1, <2>3, <3>1, <3>2 DEF TypeOK
  <2>6. RolesApart' /\ ConnectedHandlesHaveSlots'
    BY <2>4 DEF RolesApart, ConnectedHandlesHaveSlots
  <2>7. IndexIsRight'
    <3>1. SUFFICES ASSUME refused = 0, NEW t \in SlotIds,
                          slot'[t].state \in Active, handle'[idx[t]].conn = t
                   PROVE  /\ handle'[idx[t]].state \in {"Connecting", "Connected"}
                          /\ app'[idx[t]].mine = slot'[t].owner
      BY <1>1 DEF IndexIsRight, IsCurrent
    <3>2. t # s
      BY <2>3, <3>1 DEF Active, Ending
    <3>3. idx[t] \in SlotIds /\ idx[t] # h
      BY <2>4, <3>1, <3>2 DEF TypeOK
    <3>. QED  BY <2>3, <2>4, <3>1, <3>2, <3>3 DEF IndexIsRight, IsCurrent
  <2>8. HandlesAreRight'
    <3>1. SUFFICES ASSUME Undisturbed PROVE HandlesAreRight'
      BY <1>1 DEF HandlesAreRight, Undisturbed
    <3>2. ASSUME NEW i \in SlotIds, handle'[i].state \in {"Connecting", "Connected"}
          PROVE  LET t == handle'[i].conn IN
                 /\ t \in SlotIds
                 /\ slot'[t].owner = app'[i].mine
                 /\ idx'[t] = i
                 /\ handle'[i].state = "Connecting" => slot'[t].state = "SYN_SENT"
                 /\ handle'[i].state = "Connected" =>
                       slot'[t].state \in Unreported /\ app'[i].view = "up"
      <4>1. i # h /\ handle'[i] = handle[i] /\ app'[i] = app[i]
        BY <2>4, <3>2
      <4>2. handle[i].conn \in SlotIds /\ idx[handle[i].conn] = i
        BY <3>1, <3>2, <4>1 DEF HandlesAreRight
      <4>3. handle[i].conn # s
        BY <4>1, <4>2
      <4>. QED  BY <1>1, <2>3, <3>1, <3>2, <4>1, <4>2, <4>3 DEF HandlesAreRight
    <3>3. ASSUME NEW t \in SlotIds, slot'[t].cookie # 0
          PROVE  IsCurrent(t)' /\ handle'[idx'[t]].state = "Connected"
      <4>1. t # s
        BY <2>3, <3>3
      <4>2. handle[idx[t]].conn = t /\ handle[idx[t]].state = "Connected"
            /\ idx[t] \in SlotIds
        BY <2>3, <3>1, <3>3, <4>1 DEF HandlesAreRight, IsCurrent, TypeOK
      <4>. QED  BY <1>1, <2>2, <2>4, <4>1, <4>2 DEF IsCurrent
    <3>. QED  BY <3>2, <3>3 DEF HandlesAreRight
  <2>. QED  BY <2>3, <2>5, <2>6, <2>7, <2>8
<1>3. CASE ~ IsCurrent(s)
  <2>1. slot' = Enter(s, st) /\ UNCHANGED <<out, handle, app>>
    BY <1>3 DEF Ended
  <2>2. st \in SlotStates /\ st \notin Active
    BY DEF SlotStates, Ending, Active
  <2>3. Undisturbed' => Undisturbed
    BY <1>1 DEF Undisturbed
  <2>. QED  BY <1>1, <1>3, <2>1, <2>2, <2>3, MoveKeeps, StrangersHaveNoHandle
<1>. QED  BY <1>2, <1>3

\* An event that ends the connection of slot s.
LEMMA OnEndKeeps ==
    ASSUME ApiInv, role = "client", UNCHANGED <<role, listening, arp>>,
           NEW s \in SlotIds, OnEnd(s)
    PROVE  ApiInv'
<1>1. PICK m \in EndMoves : slot[s].state = m[1] /\ Ended(s, m[2])
  BY DEF OnEnd
<1>2. slot[s].state # "CLOSED" /\ m[2] \in Ending
  BY <1>1, EndMoveIs
<1>. QED  BY <1>1, <1>2, EndedKeeps

\* abort() of a handle that the application was told is connected.  Its slot may
\* be closed already, without an event, and is closed again.
LEMMA AbortKeeps ==
    ASSUME ApiInv, role = "client", UNCHANGED <<role, listening, arp>>,
           NEW h \in SlotIds, Abort(h)
    PROVE  ApiInv'
<1>1. handle[h].conn \in SlotIds /\ Ended(handle[h].conn, "CLOSED")
  BY DEF Abort, ApiInv, ConnectedHandlesHaveSlots
<1>2. "CLOSED" \in Ending
  BY DEF Ending
<1>. QED  BY <1>1, <1>2, EndedKeeps

\* What the callback on data did to the connection: an Abort makes it vanish.
LEMMA ReactIs ==
    ASSUME NEW s \in SlotIds, React(s)
    PROVE  \E st \in {"ESTABLISHED", "FIN_WAIT_1", "CLOSED"} :
              /\ slot' = Enter(s, st)
              /\ vanished => vanished'
              /\ st = "CLOSED" => vanished'
<1>1. PICK r \in Reacted : slot' = Enter(s, r[2]) /\ vanished' = (vanished \/ r[1] = "Abort")
  BY DEF React
<1>2. /\ r[2] \in {"ESTABLISHED", "FIN_WAIT_1", "CLOSED"}
      /\ r[2] = "CLOSED" => r[1] = "Abort"
  BY DEF Reacted
<1>. QED  BY <1>1, <1>2

\* onAcked() and onNewData().
LEMMA OnDataKeeps ==
    ASSUME ApiInv, role = "client", UNCHANGED <<role, listening, arp>>,
           NEW s \in SlotIds, OnData(s)
    PROVE  ApiInv'
<1>1. /\ slot[s].state = "ESTABLISHED"
      /\ UNCHANGED <<serial, out, handle, idx, refused, app>>
  BY DEF OnData, clientVars
<1>2. CASE IsCurrent(s)
  <2>1. PICK st \in {"ESTABLISHED", "FIN_WAIT_1", "CLOSED"} :
              /\ slot' = Enter(s, st)
              /\ vanished => vanished'
              /\ st = "CLOSED" => vanished'
    BY <1>2, ReactIs DEF OnData
  <2>2. ASSUME Undisturbed', NEW h \in SlotIds, handle[h].conn = s,
               handle[h].state \in {"Connecting", "Connected"}
        PROVE  handle[h].state = "Connected" /\ st \in Unreported
    <3>1. Undisturbed /\ st # "CLOSED"
      BY <1>1, <2>1, <2>2 DEF Undisturbed
    <3>. QED  BY <1>1, <2>2, <3>1 DEF ApiInv, HandlesAreRight, Unreported
  <2>3. Undisturbed' => st # "CLOSED"
    BY <2>1 DEF Undisturbed
  <2>4. st \in SlotStates /\ slot[s].state # "CLOSED" /\ slot[s].state \in Active
    BY <1>1 DEF SlotStates, Active
  <2>. QED  BY <1>1, <2>1, <2>2, <2>3, <2>4, MoveKeeps
<1>3. CASE ~ IsCurrent(s)
  <2>1. slot' = Enter(s, "CLOSED") /\ UNCHANGED vanished
    BY <1>3 DEF OnData
  <2>2. "CLOSED" \in SlotStates /\ "CLOSED" \notin Active
    BY DEF SlotStates, Active
  <2>3. Undisturbed' => Undisturbed
    BY <1>1, <2>1 DEF Undisturbed
  <2>. QED  BY <1>1, <1>3, <2>1, <2>2, <2>3, MoveKeeps, StrangersHaveNoHandle
<1>. QED  BY <1>2, <1>3

\* A change of state that raises no event, of a client or a server.
LEMMA QuietMoveKeeps ==
    ASSUME ApiInv, NEW s \in SlotIds, QuietMove(s),
           UNCHANGED <<role, listening, handle, idx, refused, app>>
    PROVE  ApiInv'
<1>1. UNCHANGED <<serial, out>>
  BY DEF QuietMove
<1>2. PICK m \in QuietMoves : /\ slot[s].state = m[1]
                              /\ slot' = Enter(s, m[2])
                              /\ vanished' = (vanished \/ m = <<"FIN_WAIT_2", "CLOSED">>)
  BY DEF QuietMove
<1>3. /\ m[1] # "CLOSED" /\ m[2] \in SlotStates /\ m[2] \notin Active
      /\ m[2] # "SYN_RCVD" /\ m[1] # "SYN_SENT"
      /\ m[1] \in Unreported => m[2] \in Unreported \/ m = <<"FIN_WAIT_2", "CLOSED">>
      /\ m[2] \in Ending => m[1] \in Ending \/ m = <<"FIN_WAIT_2", "CLOSED">>
      /\ m[2] = "CLOSED" => m[1] \notin Unreported \/ m = <<"FIN_WAIT_2", "CLOSED">>
  BY DEF QuietMoves, SlotStates, Active, Unreported, Ending
<1>4. Undisturbed' => Undisturbed /\ m # <<"FIN_WAIT_2", "CLOSED">>
  BY <1>2 DEF Undisturbed
<1>5. ASSUME Undisturbed', NEW h \in SlotIds, handle[h].conn = s,
             handle[h].state \in {"Connecting", "Connected"}
      PROVE  handle[h].state = "Connected" /\ m[2] \in Unreported
  BY <1>2, <1>3, <1>4, <1>5 DEF ApiInv, HandlesAreRight
<1>6. ASSUME Undisturbed', role = "client", m[2] = "CLOSED"
      PROVE  slot[s].cookie = 0
  <2>1. SUFFICES ASSUME slot[s].cookie # 0 PROVE FALSE
    OBVIOUS
  <2>2. /\ idx[s] \in SlotIds /\ handle[idx[s]].conn = s
        /\ handle[idx[s]].state = "Connected"
    BY <1>4, <1>6, <2>1 DEF ApiInv, TypeOK, HandlesAreRight, IsCurrent
  <2>3. slot[s].state \in Unreported
    BY <1>4, <1>6, <2>2 DEF ApiInv, HandlesAreRight
  <2>. QED  BY <1>2, <1>3, <1>4, <1>6, <2>3
<1>7. ASSUME role = "server", ~ vanished', m[2] \in Ending
      PROVE  slot[s].cookie = 0
  BY <1>2, <1>3, <1>7 DEF ApiInv, SlotsKeepTheirCookie
<1>8. vanished => vanished'
  BY <1>2
<1>. QED  BY <1>1, <1>2, <1>3, <1>5, <1>6, <1>7, <1>8, MoveKeeps

\* What connect() leaves of a slot: nothing but its connection.
LEMMA ClearedSlot ==
    ASSUME NEW n
    PROVE  /\ [NewSlot EXCEPT !.state = "SYN_SENT", !.owner = n] =
                 [state |-> "SYN_SENT", owner |-> n, cookie |-> 0]
           /\ [NewSlot EXCEPT !.owner = n] = [state |-> "CLOSED", owner |-> n, cookie |-> 0]
<1>1. ASSUME NEW f, NEW st, f = [state |-> st, owner |-> 0, cookie |-> 0]
      PROVE  [f EXCEPT !.owner = n] = [state |-> st, owner |-> n, cookie |-> 0]
  BY <1>1
<1>2. ASSUME NEW f, f = [state |-> "CLOSED", owner |-> 0, cookie |-> 0]
      PROVE  [f EXCEPT !.state = "SYN_SENT"] =
                [state |-> "SYN_SENT", owner |-> 0, cookie |-> 0]
  BY <1>2
<1>3. NewSlot = [state |-> "CLOSED", owner |-> 0, cookie |-> 0]
  BY DEF NewSlot
<1>4. [NewSlot EXCEPT !.state = "SYN_SENT"] =
         [state |-> "SYN_SENT", owner |-> 0, cookie |-> 0]
  BY <1>2, <1>3
<1>. QED  BY <1>1, <1>3, <1>4

\* Whatever a client, its peers and the timers do.
LEMMA ClientKeeps ==
    ASSUME ApiInv, role = "client", ClientNext, UNCHANGED <<role, listening>>
    PROVE  ApiInv'
<1>1. UNCHANGED arp
  BY DEF ClientNext
<1>2. ASSUME NEW h \in SlotIds, Connect(h)
      PROVE  ApiInv'
  <2>1. /\ handle[h].state = "Opened" \/ handle[h].state = "Resolving"
        /\ serial < MaxConns /\ UNCHANGED <<out, vanished>>
    BY <1>2 DEF Connect
  <2>2. PICK s \in SlotIds :
          /\ Takes(s)
          /\ serial' = serial + 1
          /\ \/ /\ slot' = [slot EXCEPT ![s] = [NewSlot EXCEPT !.state = "SYN_SENT",
                                                               !.owner = serial']]
                /\ handle' = [handle EXCEPT ![h] = [state |-> "Connecting", conn |-> s]]
                /\ idx' = [idx EXCEPT ![s] = h]
                /\ app' = [app EXCEPT ![h].mine = serial']
                /\ UNCHANGED refused
             \/ /\ refused < MaxRefused
                /\ refused' = refused + 1
                /\ slot' = [slot EXCEPT ![s] = [NewSlot EXCEPT !.owner = serial']]
                /\ handle' = [handle EXCEPT ![h].state = "Connecting"]
                /\ idx' = [idx EXCEPT ![handle[h].conn] = h]
                /\ UNCHANGED app
    BY <1>2 DEF Connect
  <2>3. /\ [NewSlot EXCEPT !.state = "SYN_SENT", !.owner = serial'] =
              [state |-> "SYN_SENT", owner |-> serial', cookie |-> 0]
        /\ [NewSlot EXCEPT !.owner = serial'] =
              [state |-> "CLOSED", owner |-> serial', cookie |-> 0]
    BY ClearedSlot
  <2>. QED  BY <1>1, <2>1, <2>2, <2>3, ConnectKeeps, RefusedKeeps
<1>3. ASSUME NEW h \in SlotIds, Send(h)
      PROVE  ApiInv'
  BY <1>3, NothingChanges DEF Send, clientVars, ApiInv, TypeOK
<1>4. CASE ArpChanges
  BY <1>4, NothingChanges DEF ArpChanges, ApiInv, TypeOK
<1>5. ASSUME NEW s \in SlotIds, QuietMove(s), UNCHANGED clientVars
      PROVE  ApiInv'
  BY <1>5, QuietMoveKeeps DEF clientVars
<1>. QED  BY <1>1, <1>2, <1>3, <1>4, <1>5, OpenKeeps, DiscoverKeeps, CloseKeeps,
             AbortKeeps, OnConnectedKeeps, OnEndKeeps, OnDataKeeps DEF ClientNext

-----------------------------------------------------------------------------
(***************************************************************************)
(* The server.                                                             *)
(***************************************************************************)

\* The handles of a server are the slots themselves: there is nothing to agree.
LEMMA ServerTables ==
    ASSUME TypeOK', RolesApart', role' = "server"
    PROVE  ConnectedHandlesHaveSlots' /\ IndexIsRight' /\ HandlesAreRight'
<1>1. /\ \A h \in SlotIds : /\ handle'[h].state = "Closed" /\ handle'[h].conn = NoSlot
                            /\ app'[h].view = "none"
      /\ \A s \in SlotIds : idx'[s] \in SlotIds
  BY DEF RolesApart, TypeOK, NoApp
<1>2. NoSlot \notin SlotIds
  BY SlotsAssumption DEF NoSlot, SlotIds
<1>3. ConnectedHandlesHaveSlots'
  BY <1>1 DEF ConnectedHandlesHaveSlots
<1>4. IndexIsRight'
  BY <1>1, <1>2 DEF IndexIsRight, IsCurrent
<1>5. HandlesAreRight'
  BY <1>1 DEF HandlesAreRight
<1>. QED  BY <1>3, <1>4, <1>5

\* A SYN takes a slot and leaves its cookie, which is none unless the last
\* connection of the slot went away unreported.
LEMMA AcceptKeeps ==
    ASSUME ApiInv, role = "server", UNCHANGED <<role, arp, clientVars>>,
           NEW p \in Ports, Accept(p)
    PROVE  ApiInv'
<1>. USE DEF ApiInv
<1>1. PICK s \in SlotIds :
          /\ Takes(s)
          /\ slot' = [slot EXCEPT ![s].state = "SYN_RCVD", ![s].owner = serial']
  BY DEF Accept
<1>2. /\ serial < MaxConns /\ serial' = serial + 1
      /\ UNCHANGED <<role, out, vanished, listening, handle, idx, refused, app>>
  BY DEF Accept, clientVars
<1>3. /\ \A i \in SlotIds : i # s => slot'[i] = slot[i]
      /\ slot'[s].owner = serial + 1 /\ slot'[s].state = "SYN_RCVD"
      /\ slot'[s].cookie = slot[s].cookie
  BY <1>1, <1>2 DEF TypeOK
<1>4. serial' \in 1 .. MaxConns /\ serial' \in 0 .. MaxConns
  BY <1>2, SlotsAssumption DEF TypeOK
<1>5. TypeOK'
  <2>1. ASSUME NEW f \in [SlotIds -> [state : SlotStates, owner : 0 .. MaxConns,
                                      cookie : 0 .. MaxConns]]
        PROVE  [f EXCEPT ![s].owner = serial'] \in
                  [SlotIds -> [state : SlotStates, owner : 0 .. MaxConns,
                               cookie : 0 .. MaxConns]]
    BY <1>4
  <2>2. [slot EXCEPT ![s].state = "SYN_RCVD"] \in
           [SlotIds -> [state : SlotStates, owner : 0 .. MaxConns, cookie : 0 .. MaxConns]]
    BY DEF TypeOK, SlotStates
  <2>3. slot' \in
           [SlotIds -> [state : SlotStates, owner : 0 .. MaxConns, cookie : 0 .. MaxConns]]
    BY <1>1, <2>1, <2>2
  <2>. QED  BY <1>2, <1>4, <2>3 DEF TypeOK
<1>6. RolesApart'
  BY <1>2 DEF RolesApart
<1>7. OwnersAreDistinct'
  <2>1. \A i \in SlotIds : slot[i].owner \in 0 .. serial /\ slot[i].cookie \in 0 .. serial
    BY DEF OwnersAreDistinct, TypeOK
  <2>2. slot'[s].owner = serial' /\ slot'[s].cookie \in 0 .. serial
    BY <1>2, <1>3, <2>1
  <2>3. /\ serial' = serial + 1 /\ serial \in Nat
        /\ \A i \in SlotIds : /\ i # s => slot'[i] = slot[i]
                             /\ slot'[i].owner \in Nat /\ slot'[i].cookie \in Nat
    BY <1>2, <1>3, <1>5, SlotsAssumption DEF TypeOK
  <2>4. \A i \in SlotIds : slot'[i].owner <= serial' /\ slot'[i].cookie <= serial'
    BY <2>1, <2>2, <2>3
  <2>5. \A i \in SlotIds : slot'[i].state # "CLOSED" => slot'[i].owner # 0
    BY <2>2, <2>3 DEF OwnersAreDistinct
  <2>6. \A i, t \in SlotIds : i # t =>
           /\ slot'[i].owner # 0 => slot'[i].owner # slot'[t].owner
           /\ slot'[i].owner # 0 => slot'[i].owner # slot'[t].cookie
           /\ slot'[i].cookie # 0 => slot'[i].cookie # slot'[t].cookie
    BY <1>3, <2>1, <2>2, <2>3 DEF OwnersAreDistinct
  <2>. QED  BY <2>4, <2>5, <2>6 DEF OwnersAreDistinct
<1>8. ~ vanished => slot[s].cookie = 0
  BY <1>1, TakenIsEnding DEF SlotsKeepTheirCookie, Ending
<1>9. SlotsKeepTheirCookie'
  BY <1>2, <1>3, <1>8 DEF SlotsKeepTheirCookie
<1>10. NoCookieIsLost'
  BY <1>2, <1>3, <1>8 DEF NoCookieIsLost, Undisturbed, SlotsKeepTheirCookie
<1>11. NoCookieAfterClosed'
  BY <1>2, <1>3 DEF NoCookieAfterClosed
<1>. QED  BY <1>2, <1>5, <1>6, <1>7, <1>9, <1>10, <1>11, ServerTables

\* The handshake is over, or the connection ends.
LEMMA ServerEventKeeps ==
    ASSUME ApiInv, role = "server", UNCHANGED <<role, arp, clientVars>>,
           NEW s \in SlotIds, ServerConnected(s) \/ ServerEnd(s)
    PROVE  ApiInv'
<1>. USE DEF ApiInv
<1>1. UNCHANGED <<role, serial, vanished, listening, handle, idx, refused, app>>
  BY DEF ServerConnected, ServerEnd, clientVars
<1>2. /\ OwnersAreDistinct' /\ SlotsKeepTheirCookie'
      /\ NoCookieIsLost' /\ NoCookieAfterClosed'
      /\ slot' \in [SlotIds -> [state : SlotStates, owner : 0 .. MaxConns,
                                cookie : 0 .. MaxConns]]
  <2>1. CASE ServerConnected(s)
    <3>1. Announced(s) /\ slot[s].state # "CLOSED"
      BY <2>1 DEF ServerConnected
    <3>2. Undisturbed => slot[s].cookie = 0
      BY <2>1 DEF ServerConnected, SlotsKeepTheirCookie, Undisturbed
    <3>. QED  BY <1>1, <3>1, <3>2, AnnounceCookies
  <2>2. CASE ServerEnd(s)
    <3>1. PICK m \in EndMoves : slot[s].state = m[1] /\ slot' = EndsWith(s, m[2])
      BY <2>2 DEF ServerEnd
    <3>2. slot[s].state # "CLOSED" /\ m[2] \in Ending
      BY <3>1, EndMoveIs
    <3>3. out' = out \ {slot[s].cookie}
      BY <2>2 DEF ServerEnd
    <3>. QED  BY <1>1, <3>1, <3>2, <3>3, EndCookies
  <2>. QED  BY <2>1, <2>2
<1>3. TypeOK' /\ RolesApart'
  BY <1>1, <1>2 DEF TypeOK, RolesApart
<1>. QED  BY <1>1, <1>2, <1>3, ServerTables

\* Data that comes, and close().
LEMMA ServerMoveKeeps ==
    ASSUME ApiInv, role = "server", UNCHANGED <<role, arp, clientVars>>,
           NEW s \in SlotIds, ServerData(s) \/ ServerClose(s)
    PROVE  ApiInv'
<1>1. /\ slot[s].state = "ESTABLISHED"
      /\ UNCHANGED <<role, serial, out, listening, handle, idx, refused, app>>
  BY DEF ServerData, ServerClose, clientVars
<1>2. PICK st \in {"ESTABLISHED", "CLOSE", "FIN_WAIT_1", "CLOSED"} :
              /\ slot' = Enter(s, st)
              /\ vanished => vanished'
              /\ st = "CLOSED" => vanished'
  <2>1. CASE ServerData(s)
    BY <2>1, ReactIs DEF ServerData
  <2>2. CASE ServerClose(s)
    BY <2>2 DEF ServerClose
  <2>. QED  BY <2>1, <2>2
<1>3. \A h \in SlotIds : handle[h].state \notin {"Connecting", "Connected"}
  BY DEF ApiInv, RolesApart
<1>4. /\ st \in SlotStates /\ slot[s].state # "CLOSED" /\ slot[s].state \in Active
      /\ ~ vanished' => st \notin Ending \cup {"SYN_RCVD"}
  BY <1>1, <1>2 DEF SlotStates, Active, Ending
<1>. QED  BY <1>1, <1>2, <1>3, <1>4, MoveKeeps

\* Whatever a server, its peers and the timers do.
LEMMA ServerKeeps ==
    ASSUME ApiInv, role = "server", ServerNext, UNCHANGED <<role, arp, clientVars>>
    PROVE  ApiInv'
<1>1. ASSUME NEW p \in Ports, Listen(p) \/ Unlisten(p)
      PROVE  ApiInv'
  <2>1. listening' \subseteq Ports
    BY <1>1 DEF Listen, Unlisten, ApiInv, TypeOK
  <2>. QED  BY <1>1, <2>1, NothingChanges DEF Listen, Unlisten, clientVars
<1>2. ASSUME NEW s \in SlotIds, QuietMove(s), UNCHANGED listening
      PROVE  ApiInv'
  BY <1>2, QuietMoveKeeps DEF clientVars
<1>. QED  BY <1>1, <1>2, AcceptKeeps, ServerEventKeeps, ServerMoveKeeps DEF ServerNext

-----------------------------------------------------------------------------
(***************************************************************************)
(* The last call or callback.                                              *)
(***************************************************************************)

ActIsRight ==
    EventsReachTheirHandle /\ UndisturbedCallsReachTheirConnection /\ CookieIsOfItsConnection

\* A step that reaches no slot.
LEMMA NoActIsRight ==
    ASSUME act' = NoAct
    PROVE  ActIsRight'
BY DEF ActIsRight, EventsReachTheirHandle, UndisturbedCallsReachTheirConnection,
       CallsReachTheirConnection, CookieIsOfItsConnection, NoAct

\* A call on a handle reaches the connection of the handle.
LEMMA CallIsRight ==
    ASSUME ApiInv, NEW h \in SlotIds, Send(h) \/ Close(h)
    PROVE  ActIsRight'
<1>1. /\ app[h].view = "up" /\ UNCHANGED <<vanished, refused>>
      /\ act'.what \in {"send", "close"} /\ act'.cookie = 0
      /\ act'.conn = slot[handle[h].conn].owner /\ act'.mine = app[h].mine
  BY DEF Send, Close, Did, clientVars
<1>2. Undisturbed' => act'.conn = act'.mine
  BY <1>1 DEF ApiInv, ConnectedHandlesHaveSlots, HandlesAreRight, Undisturbed
<1>. QED  BY <1>1, <1>2 DEF ActIsRight, EventsReachTheirHandle,
             UndisturbedCallsReachTheirConnection, CallsReachTheirConnection,
             CookieIsOfItsConnection

\* An event reaches the handle of its connection, and passes the cookie of it.
LEMMA EventIsRight ==
    ASSUME ApiInv, role = "client", NEW s \in SlotIds, OnConnected(s) \/ OnData(s)
    PROVE  ActIsRight'
<1>1. CASE ~ IsCurrent(s)
  BY <1>1, NoActIsRight DEF OnConnected, OnData
<1>2. CASE IsCurrent(s)
  <2>1. /\ slot[s].state \in Active /\ refused' = refused
        /\ act'.what \in {"connected", "data"} /\ act'.cookie \in {0, slot[s].cookie}
        /\ act'.conn = slot[s].owner /\ act'.mine = app[idx[s]].mine
    BY <1>2 DEF OnConnected, OnData, HandleOf, Active, clientVars
  <2>2. refused' = 0 => act'.conn = act'.mine
    BY <1>2, <2>1 DEF ApiInv, IndexIsRight
  <2>3. act'.cookie \in {0, act'.conn}
    BY <2>1 DEF ApiInv, SlotsKeepTheirCookie
  <2>. QED  BY <2>1, <2>2, <2>3 DEF ActIsRight, EventsReachTheirHandle,
               UndisturbedCallsReachTheirConnection, CallsReachTheirConnection,
               CookieIsOfItsConnection
<1>. QED  BY <1>1, <1>2

\* The end of a connection passes its cookie.
LEMMA EndIsRight ==
    ASSUME ApiInv, role = "client", NEW s \in SlotIds, NEW st, Ended(s, st)
    PROVE  ActIsRight'
<1>1. CASE ~ IsCurrent(s)
  BY <1>1, NoActIsRight DEF Ended
<1>2. CASE IsCurrent(s)
  <2>1. /\ act'.what = "closed" /\ act'.conn = slot[s].owner
        /\ act'.cookie = slot[s].cookie
    BY <1>2 DEF Ended
  <2>2. act'.cookie \in {0, act'.conn}
    BY <2>1 DEF ApiInv, SlotsKeepTheirCookie
  <2>. QED  BY <2>1, <2>2 DEF ActIsRight, EventsReachTheirHandle,
               UndisturbedCallsReachTheirConnection, CallsReachTheirConnection,
               CookieIsOfItsConnection
<1>. QED  BY <1>1, <1>2

\* Of a server: as long as nothing vanished, the cookie is that of the slot's owner.
LEMMA ServerActIsRight ==
    ASSUME ApiInv, role = "server", NEW s \in SlotIds, ServerEnd(s) \/ ServerData(s)
    PROVE  ActIsRight'
<1>1. /\ act'.what \in {"closed", "data"} /\ act'.conn = act'.mine
      /\ act'.conn = slot[s].owner /\ act'.cookie = slot[s].cookie
  BY DEF ServerEnd, ServerData, ServerCallback
<1>2. vanished => vanished'
  BY DEF ServerEnd, ServerData, React
<1>3. ~ vanished' => act'.cookie \in {0, act'.conn}
  BY <1>1, <1>2 DEF ApiInv, SlotsKeepTheirCookie
<1>. QED  BY <1>1, <1>3 DEF ActIsRight, EventsReachTheirHandle,
             UndisturbedCallsReachTheirConnection, CallsReachTheirConnection,
             CookieIsOfItsConnection

\* Whatever happens next.
LEMMA NextActIsRight ==
    ASSUME ApiInv, Next
    PROVE  ActIsRight'
<1>1. CASE role = "client" /\ ClientNext
  <2>1. ASSUME NEW h \in SlotIds, Open(h) \/ Discover(h) \/ Connect(h)
        PROVE  ActIsRight'
    BY <2>1, NoActIsRight DEF Open, Discover, Connect
  <2>2. ASSUME NEW h \in SlotIds, Abort(h)
        PROVE  ActIsRight'
    <3>1. handle[h].conn \in SlotIds /\ Ended(handle[h].conn, "CLOSED")
      BY <2>2 DEF Abort, ApiInv, ConnectedHandlesHaveSlots
    <3>. QED  BY <1>1, <3>1, EndIsRight
  <2>3. ASSUME NEW s \in SlotIds, OnEnd(s)
        PROVE  ActIsRight'
    BY <1>1, <2>3, EndIsRight DEF OnEnd
  <2>4. ASSUME NEW s \in SlotIds, QuietMove(s)
        PROVE  ActIsRight'
    BY <2>4, NoActIsRight DEF QuietMove
  <2>5. CASE ArpChanges
    BY <2>5, NoActIsRight DEF ArpChanges
  <2>. QED  BY <1>1, <2>1, <2>2, <2>3, <2>4, <2>5, CallIsRight, EventIsRight DEF ClientNext
<1>2. CASE role = "server" /\ ServerNext
  <2>1. ASSUME NEW p \in Ports, Listen(p) \/ Unlisten(p) \/ Accept(p)
        PROVE  ActIsRight'
    BY <2>1, NoActIsRight DEF Listen, Unlisten, Accept
  <2>2. ASSUME NEW s \in SlotIds, ServerConnected(s) \/ ServerClose(s) \/ QuietMove(s)
        PROVE  ActIsRight'
    BY <2>2, NoActIsRight DEF ServerConnected, ServerClose, QuietMove
  <2>. QED  BY <1>2, <2>1, <2>2, ServerActIsRight DEF ServerNext
<1>. QED  BY <1>1, <1>2 DEF Next

-----------------------------------------------------------------------------
(***************************************************************************)
(* Theorems.                                                               *)
(***************************************************************************)

\* No slot is taken, no handle is open, and the delegate waits for nothing.
LEMMA InitIsRight ==
    ASSUME Init
    PROVE  ApiInv /\ ActIsRight
<1>. USE DEF Init, SlotsInit, ClientInit, ServerInit, NewSlot, NoApp
<1>1. 0 \in SlotIds /\ 0 \in 0 .. MaxConns /\ 0 \in 0 .. MaxRefused
  BY SlotsAssumption, ClientAssumption DEF SlotIds
<1>2. TypeOK
  BY <1>1 DEF TypeOK, SlotStates, HandleStates
<1>3. RolesApart
  BY ApiAssumption DEF RolesApart
<1>4. OwnersAreDistinct /\ SlotsKeepTheirCookie
  BY DEF OwnersAreDistinct, SlotsKeepTheirCookie
<1>5. ConnectedHandlesHaveSlots /\ IndexIsRight /\ HandlesAreRight
  BY DEF ConnectedHandlesHaveSlots, IndexIsRight, HandlesAreRight, Active
<1>6. NoCookieIsLost /\ NoCookieAfterClosed
  BY DEF NoCookieIsLost, NoCookieAfterClosed
<1>7. ActIsRight
  BY DEF ActIsRight, EventsReachTheirHandle, UndisturbedCallsReachTheirConnection,
         CallsReachTheirConnection, CookieIsOfItsConnection, NoAct
<1>. QED  BY <1>2, <1>3, <1>4, <1>5, <1>6, <1>7 DEF ApiInv

\* In every reachable state the tables are what the handlers take them for, and the
\* last call or callback reached what it was meant for.
THEOREM ApiInvariant == Spec => [](ApiInv /\ ActIsRight)
<1>1. Init => ApiInv /\ ActIsRight
  BY InitIsRight
<1>2. ApiInv /\ ActIsRight /\ [Next]_vars => (ApiInv /\ ActIsRight)'
  <2>1. SUFFICES ASSUME ApiInv, ActIsRight, [Next]_vars
                 PROVE  (ApiInv /\ ActIsRight)'
    OBVIOUS
  <2>2. CASE Next
    <3>1. ApiInv'
      BY <2>1, <2>2, ClientKeeps, ServerKeeps DEF Next
    <3>. QED  BY <2>1, <2>2, <3>1, NextActIsRight
  <2>3. CASE UNCHANGED vars
    <3>1. UNCHANGED <<role, slot, serial, out, vanished, act, handle, idx, refused, app,
                      listening>>
      BY <2>3 DEF vars, clientVars
    <3>2. ApiInv'
      <4>1. listening' \subseteq Ports
        BY <2>1, <3>1 DEF ApiInv, TypeOK
      <4>. QED  BY <2>1, <3>1, <4>1, NothingChanges
    <3>3. ActIsRight'
      BY <2>1, <3>1 DEF ActIsRight, EventsReachTheirHandle,
         UndisturbedCallsReachTheirConnection, CallsReachTheirConnection,
         CookieIsOfItsConnection, Undisturbed
    <3>. QED  BY <3>2, <3>3
  <2>. QED  BY <2>1, <2>2, <2>3
<1>. QED  BY <1>1, <1>2, PTL DEF Spec

\* As long as no connection vanishes and no SYN is refused, a connected handle, its
\* slot and the index of the client lead to one another: no two handles share a
\* connection, for any number of slots and any order of connects, events and reuse.
THEOREM ClientTablesAgree == Spec => []TablesAgree
<1>1. ApiInv => TablesAgree
  <2>1. NoSlot \notin SlotIds
    BY SlotsAssumption DEF NoSlot, SlotIds
  <2>. QED  BY <2>1 DEF ApiInv, HandlesAreRight, TablesAgree, Unreported
<1>. QED  BY <1>1, ApiInvariant, PTL

\* onConnected(), onAcked() and onNewData() are passed to the handle whose connect()
\* began the connection, even when connections vanished.
THEOREM EventsReachTheirHandles == Spec => []EventsReachTheirHandle
<1>1. ActIsRight => EventsReachTheirHandle
  BY DEF ActIsRight
<1>. QED  BY <1>1, ApiInvariant, PTL

\* send() and close() act on the connection of the handle they are called with.
THEOREM CallsReachTheirConnections == Spec => []UndisturbedCallsReachTheirConnection
<1>1. ActIsRight => UndisturbedCallsReachTheirConnection
  BY DEF ActIsRight
<1>. QED  BY <1>1, ApiInvariant, PTL

\* The delegate has the state it returned for a connection back, once, with the
\* events of this connection and with no other.
THEOREM CookiesStayIntact == Spec => []CookiesAreIntact
<1>1. ApiInv /\ ActIsRight => CookiesAreIntact
  BY DEF ApiInv, ActIsRight, CookiesAreIntact
<1>. QED  BY <1>1, ApiInvariant, PTL

-----------------------------------------------------------------------------
(***************************************************************************)
(* The programs above the client API.  Their invariant speaks of the same  *)
(* tables and holds whatever was refused or went away without an event.    *)
(***************************************************************************)
CallsTypeOK ==
    /\ slot \in [SlotIds -> [state : SlotStates, owner : Nat, cookie : Nat]]
    /\ serial \in Nat
    /\ handle \in [SlotIds -> [state : HandleStates, conn : SlotIds \cup {NoSlot}]]
    /\ idx \in [SlotIds \cup {NoSlot} -> SlotIds]
    /\ app \in [SlotIds -> [view : {"none", "open", "up"}, mine : Nat]]

\* A slot that is in use has a connection that no other slot has.
OwnersDiffer ==
    /\ \A s \in SlotIds : slot[s].owner <= serial /\ app[s].mine <= serial
    /\ \A s \in SlotIds : slot[s].state # "CLOSED" => slot[s].owner # 0
    /\ \A s, t \in SlotIds : s # t /\ slot[s].owner # 0 => slot[s].owner # slot[t].owner

\* A handle whose slot leads back to it has there the connection it began, or began
\* none since it was opened: also when connections vanished or were refused.
HandlesNameTheirOwn ==
    \A h \in SlotIds :
        LET s == handle[h].conn IN
        /\ handle[h].state = "Connected" => s \in SlotIds
        /\ handle[h].state \in {"Opened", "Resolving"} => app[h].mine = 0
        /\ s \in SlotIds /\ idx[s] = h /\ slot[s].state # "CLOSED" /\ app[h].mine # 0 =>
              slot[s].owner = app[h].mine

CallsInv == CallsTypeOK /\ OwnersDiffer /\ HandlesNameTheirOwn

\* The handle, the slot it names and the connection it began are past their end.
IsOver(h) ==
    /\ handle[h].state = "Closed" /\ handle[h].conn \in SlotIds
    /\ slot[handle[h].conn].state \in Ending
    /\ \A s \in SlotIds : slot[s].owner = app[h].mine => slot[s].state \in Ending

\* What the stack took of the data, up to off.
IsTaken(n) ==
    /\ given = <<>> <=> n = 0
    /\ given # <<>> =>
        /\ given[1].from = 0 /\ given[Len(given)].to = n
        /\ \A i \in 2 .. Len(given) :
            /\ given[i].from = given[i - 1].to
            /\ given[i].conn = given[i - 1].conn

Actions == {"None", "Connect", "Close", "Info", "Write"}

Taken == [conn : Nat, from : Nat, to : Nat]

PollerTypeOK ==
    /\ m_action \in Actions /\ call \in Actions
    /\ m_id \in SlotIds /\ ids \subseteq SlotIds
    /\ length \in Nat /\ off \in Nat /\ closing \in BOOLEAN
    /\ user \in {"idle", "waiting", "woken"}
    /\ given \in Seq(Taken)
    /\ program \in {"poller", "latency"}

\* The two threads agree on whose turn it is.
TurnsAreKept ==
    /\ user = "waiting" => m_action = call /\ call # "None"
    /\ user # "waiting" => m_action = "None"
    /\ program = "latency" => user = "idle"

\* A command that takes rounds, and where it is; between the rounds the handle goes
\* on naming the connection that the data went to.
RoundsAreSound ==
    /\ m_action # "Close" => ~ closing
    /\ m_action # "Write" => off = 0
    /\ m_action = "Write" =>
        /\ off < length /\ IsTaken(off)
        /\ given # <<>> => SlotOf(m_id) \in SlotIds /\ given[Len(given)].conn = Owner(m_id)
    /\ closing => handle[m_id].state = "Connected" \/ IsOver(m_id)

AnswersAreKept ==
    /\ Says("Write") => length # 0 /\ IsTaken(length)
    /\ Says("Close") => IsOver(m_id)

PollerInv == PollerTypeOK /\ TurnsAreKept /\ RoundsAreSound /\ AnswersAreKept

\* The byte n of the stream of messages of length len, from 0.
ByteOf(len, n) == <<n \div len, n % len>>

IsRun(len, data, n) == \A i \in DOMAIN data : data[i] = ByteOf(len, n + i - 1)

Bytes == Seq(Nat \X Nat)

LatencyTypeOK ==
    /\ opts \in [length : Lengths, nodelay : BOOLEAN, wait : BOOLEAN]
    /\ sends \in Nat /\ res \in Nat /\ res < opts.length
    /\ buf \in Bytes /\ segs \in Seq(Bytes)
    /\ server \in [up : BOOLEAN, m_next : Nat, errors : Nat, data : Bytes]

\* Segments that are one stream, from one place in it to another.
IsStream(len, ss, from, to) ==
    \E start \in [1 .. Len(ss) + 1 -> Nat] :
        /\ start[1] = from /\ start[Len(ss) + 1] = to
        /\ \A j \in 1 .. Len(ss) :
            start[j + 1] = start[j] + Len(ss[j]) /\ IsRun(len, ss[j], start[j])

\* What the server has, what is on its way and what waits in the send buffer is one
\* stream, up to where the client is in its message.
StreamIsWhole ==
    /\ IsRun(opts.length, server.data, 0)
    /\ \E n \in Nat :
        /\ IsStream(opts.length, segs, Len(server.data), n)
        /\ IsRun(opts.length, buf, n)
        /\ n + Len(buf) = sends * opts.length + res

\* Each segment is a message.
HeadersAreSound ==
    opts.nodelay /\ opts.length <= MSS =>
        /\ buf = <<>> /\ res = 0 /\ server.errors = 0
        /\ sends = server.m_next + Len(segs)
        /\ \A j \in 1 .. Len(segs) : segs[j] # <<>> /\ segs[j][1][1] = server.m_next + j - 1

LatencyInv == LatencyTypeOK /\ StreamIsWhole /\ HeadersAreSound

-----------------------------------------------------------------------------
(***************************************************************************)
(* The stream of the latency test.                                         *)
(***************************************************************************)

LEMMA Division ==
    ASSUME NEW x \in Nat, NEW d \in Nat \ {0}
    PROVE  x \div d \in Int /\ (x % d) \in 0 .. d - 1 /\ x = d * (x \div d) + (x % d)
OBVIOUS

\* Where a byte of a message is in the stream.
LEMMA DivMod ==
    ASSUME NEW len \in Nat \ {0}, NEW k \in Nat, NEW o \in 0 .. len - 1
    PROVE  ByteOf(len, k * len + o) = <<k, o>>
<1>. DEFINE n == k * len + o
<1>1. k * len \in Nat
  OBVIOUS
<1>2. n \in Nat
  BY <1>1
<1>3. PICK q \in Int, r \in 0 .. len - 1 : /\ q = n \div len /\ r = n % len /\ n = len * q + r
  <2>1. /\ n \div len \in Int /\ (n % len) \in 0 .. len - 1
        /\ n = len * (n \div len) + (n % len)
    BY <1>2, Division
  <2>. WITNESS n \div len \in Int, (n % len) \in 0 .. len - 1
  <2>. QED  BY <2>1
<1>4. len * (k - q) = r - o
  <2>1. k * len = len * k
    OBVIOUS
  <2>2. len * (k - q) = len * k - len * q
    BY <1>3
  <2>3. len * k \in Int /\ len * q \in Int
    BY <1>3
  <2>. QED  BY <1>3, <2>1, <2>2, <2>3
<1>5. \A d \in Int : d >= 1 => len * d >= len
  OBVIOUS
<1>6. \A d \in Int : d <= -1 => len * d <= -len
  OBVIOUS
<1>7. k - q \in Int /\ -len < r - o /\ r - o < len
  BY <1>3
<1>8. k = q
  BY <1>3, <1>4, <1>5, <1>6, <1>7
<1>9. r = o
  BY <1>3, <1>8, <1>1
<1>. QED  BY <1>3, <1>8, <1>9 DEF ByteOf

\* A part of a message is a run of the stream.
LEMMA PieceIsRun ==
    ASSUME NEW len \in Nat \ {0}, NEW k \in Nat, NEW a \in Nat, NEW b \in Nat,
           a <= b, b <= len
    PROVE  /\ Piece(k, a, b) \in Bytes /\ Len(Piece(k, a, b)) = b - a
           /\ IsRun(len, Piece(k, a, b), k * len + a)
<1>1. b - a \in Nat /\ k * len \in Nat
  OBVIOUS
<1>2. \A i \in 1 .. b - a : a + i - 1 \in Nat /\ a + i - 1 \in 0 .. len - 1
  BY <1>1
<1>3. Piece(k, a, b) \in [1 .. b - a -> Nat \X Nat]
  BY <1>2 DEF Piece
<1>4. Piece(k, a, b) \in Bytes /\ Len(Piece(k, a, b)) = b - a /\ DOMAIN Piece(k, a, b) = 1 .. b - a
  <2>1. Piece(k, a, b) \in Seq(Nat \X Nat) /\ DOMAIN Piece(k, a, b) = 1 .. b - a
    BY <1>1, <1>3, SeqDef
  <2>. QED  BY <1>1, <2>1 DEF Bytes
<1>5. ASSUME NEW i \in 1 .. b - a
      PROVE  Piece(k, a, b)[i] = ByteOf(len, k * len + a + i - 1)
  <2>1. ByteOf(len, k * len + (a + i - 1)) = <<k, a + i - 1>>
    BY <1>2, DivMod
  <2>2. k * len + (a + i - 1) = k * len + a + i - 1
    BY <1>1
  <2>. QED  BY <2>1, <2>2 DEF Piece
<1>. QED  BY <1>4, <1>5 DEF IsRun

LEMMA RunAppends ==
    ASSUME NEW len, NEW a \in Bytes, NEW b \in Bytes, NEW n \in Nat,
           IsRun(len, a, n), IsRun(len, b, n + Len(a))
    PROVE  a \o b \in Bytes /\ Len(a \o b) = Len(a) + Len(b) /\ IsRun(len, a \o b, n)
<1>1. a \o b \in Bytes /\ Len(a \o b) = Len(a) + Len(b)
  BY DEF Bytes
<1>2. Len(a) \in Nat /\ Len(b) \in Nat
  BY DEF Bytes
<1>3. ASSUME NEW i \in 1 .. Len(a) + Len(b)
      PROVE  (a \o b)[i] = ByteOf(len, n + i - 1)
  <2>1. CASE i <= Len(a)
    <3>1. i \in DOMAIN a /\ (a \o b)[i] = a[i]
      BY <2>1, <1>2 DEF Bytes
    <3>. QED  BY <3>1 DEF IsRun
  <2>2. CASE i > Len(a)
    <3>1. i - Len(a) \in DOMAIN b /\ (a \o b)[i] = b[i - Len(a)]
      BY <2>2, <1>2 DEF Bytes
    <3>2. (n + Len(a)) + (i - Len(a)) - 1 = n + i - 1
      BY <1>2
    <3>. QED  BY <3>1, <3>2 DEF IsRun
  <2>. QED  BY <2>1, <2>2, <1>2
<1>4. DOMAIN (a \o b) = 1 .. Len(a) + Len(b)
  BY <1>1 DEF Bytes
<1>. QED  BY <1>1, <1>3, <1>4 DEF IsRun

\* A segment more.
LEMMA StreamGrows ==
    ASSUME NEW len, NEW ss \in Seq(Bytes), NEW from \in Nat, NEW to \in Nat,
           NEW data \in Bytes, IsStream(len, ss, from, to), IsRun(len, data, to)
    PROVE  IsStream(len, Append(ss, data), from, to + Len(data))
<1>. DEFINE n == Len(ss)
            more == Append(ss, data)
<1>1. n \in Nat /\ Len(data) \in Nat
  BY DEF Bytes
<1>2. PICK start \in [1 .. n + 1 -> Nat] :
        /\ start[1] = from /\ start[n + 1] = to
        /\ \A j \in 1 .. n :
            start[j + 1] = start[j] + Len(ss[j]) /\ IsRun(len, ss[j], start[j])
  BY DEF IsStream
<1>. DEFINE next == [j \in 1 .. n + 2 |-> IF j = n + 2 THEN to + Len(data) ELSE start[j]]
<1>3. Len(more) = n + 1 /\ more[n + 1] = data /\ \A j \in 1 .. n : more[j] = ss[j]
  OBVIOUS
<1>4. next \in [1 .. n + 2 -> Nat]
  BY <1>1, <1>2
<1>5. next[1] = from /\ next[n + 2] = to + Len(data)
  BY <1>1, <1>2
<1>6. ASSUME NEW j \in 1 .. n + 1
      PROVE  next[j + 1] = next[j] + Len(more[j]) /\ IsRun(len, more[j], next[j])
  <2>1. CASE j = n + 1
    <3>1. next[j] = to /\ next[j + 1] = to + Len(data)
      BY <2>1, <1>1, <1>2
    <3>. QED  BY <2>1, <3>1, <1>3
  <2>2. CASE j \in 1 .. n
    <3>1. next[j] = start[j] /\ next[j + 1] = start[j + 1]
      BY <2>2, <1>1
    <3>. QED  BY <2>2, <3>1, <1>2, <1>3
  <2>. QED  BY <2>1, <2>2, <1>1
<1>7. (n + 1) + 1 = n + 2
  BY <1>1
<1>. HIDE DEF next, n, more
<1>8. Len(more) + 1 = n + 2
  BY <1>3, <1>7
<1>9. IsStream(len, more, from, to + Len(data))
  BY <1>3, <1>4, <1>5, <1>6, <1>8 DEF IsStream
<1>. QED  BY <1>9 DEF more

\* A segment less.
LEMMA StreamShrinks ==
    ASSUME NEW len, NEW ss \in Seq(Bytes), ss # <<>>, NEW from \in Nat, NEW to \in Nat,
           IsStream(len, ss, from, to)
    PROVE  /\ IsRun(len, Head(ss), from)
           /\ IsStream(len, Tail(ss), from + Len(Head(ss)), to)
<1>. DEFINE n == Len(ss)
            rest == Tail(ss)
<1>1. n \in Nat /\ n >= 1
  OBVIOUS
<1>2. PICK start \in [1 .. n + 1 -> Nat] :
        /\ start[1] = from /\ start[n + 1] = to
        /\ \A j \in 1 .. n :
            start[j + 1] = start[j] + Len(ss[j]) /\ IsRun(len, ss[j], start[j])
  BY DEF IsStream
<1>. DEFINE next == [j \in 1 .. n |-> start[j + 1]]
<1>3. Len(rest) = n - 1 /\ Head(ss) = ss[1] /\ \A j \in 1 .. n - 1 : rest[j] = ss[j + 1]
  OBVIOUS
<1>4. next \in [1 .. n -> Nat]
  BY <1>1, <1>2
<1>5. next[1] = from + Len(Head(ss)) /\ next[n] = to
  BY <1>1, <1>2, <1>3
<1>6. ASSUME NEW j \in 1 .. n - 1
      PROVE  next[j + 1] = next[j] + Len(rest[j]) /\ IsRun(len, rest[j], next[j])
  <2>1. next[j] = start[j + 1] /\ next[j + 1] = start[(j + 1) + 1] /\ j + 1 \in 1 .. n
    BY <1>1
  <2>2. start[(j + 1) + 1] = start[j + 1] + Len(ss[j + 1]) /\ IsRun(len, ss[j + 1], start[j + 1])
    BY <2>1, <1>2
  <2>. QED  BY <2>1, <2>2, <1>3
<1>7. IsRun(len, Head(ss), from)
  BY <1>1, <1>2, <1>3
<1>8. (n - 1) + 1 = n
  BY <1>1
<1>. HIDE DEF next, n, rest
<1>9. IsStream(len, rest, from + Len(Head(ss)), to)
  BY <1>3, <1>4, <1>5, <1>6, <1>8 DEF IsStream
<1>. QED  BY <1>7, <1>9 DEF rest

LEMMA EmptyRuns ==
    ASSUME NEW len, NEW n
    PROVE  <<>> \in Bytes /\ Len(<<>>) = 0 /\ IsRun(len, <<>>, n)
BY EmptySeq DEF Bytes, IsRun

\* Steps that leave the stream alone.
LEMMA StreamKept ==
    ASSUME LatencyInv, UNCHANGED <<opts, sends, res, buf, segs>>,
           server' = server \/ server' = [server EXCEPT !.up = FALSE]
    PROVE  LatencyInv'
<1>. USE DEF LatencyInv
<1>1. /\ server'.m_next = server.m_next /\ server'.errors = server.errors
      /\ server'.data = server.data
      /\ server' \in [up : BOOLEAN, m_next : Nat, errors : Nat, data : Bytes]
  BY DEF LatencyTypeOK
<1>2. LatencyTypeOK'
  BY <1>1 DEF LatencyTypeOK
<1>3. StreamIsWhole'
  BY <1>1 DEF StreamIsWhole
<1>4. HeadersAreSound'
  BY <1>1 DEF HeadersAreSound
<1>. QED  BY <1>2, <1>3, <1>4

\* send() takes a part of a message, and the stack makes a segment of it or not.
LEMMA SendsKeeps ==
    ASSUME LatencyInv, Sends
    PROVE  LatencyInv'
<1>. USE DEF LatencyInv
<1>1. PICK len \in Nat \ {0}, k \in Nat, a \in Nat, bytes \in Bytes, ss \in Seq(Bytes) :
        /\ len = opts.length /\ k = sends /\ a = res /\ bytes = buf /\ ss = segs
        /\ a < len
  BY LatencyAssumption DEF LatencyTypeOK
<1>2. PICK to \in {res + MSS - Len(buf), opts.length} :
        /\ res < to /\ to <= opts.length /\ to - res <= MSS - Len(buf)
        /\ Transmit(buf \o Piece(sends, res, to))
        /\ sends' = Counted(to)
        /\ res' = IF to = opts.length THEN 0 ELSE to
  BY DEF Sends
<1>3. MSS \in Nat /\ Len(bytes) \in Nat /\ to \in Nat
  <2>1. MSS \in Nat /\ Len(bytes) \in Nat
    BY LatencyAssumption DEF Bytes
  <2>. QED  BY <2>1, <1>1, <1>2
<1>4. PICK n \in Nat :
        /\ IsStream(len, ss, Len(server.data), n) /\ IsRun(len, bytes, n)
        /\ n + Len(bytes) = k * len + a
  BY <1>1 DEF StreamIsWhole
<1>. DEFINE part == Piece(k, a, to)
            data == bytes \o part
<1>5. /\ part \in Bytes /\ Len(part) = to - a /\ IsRun(len, part, n + Len(bytes))
  <2>1. a <= to /\ to <= len
    BY <1>1, <1>2, <1>3
  <2>2. /\ part \in Bytes /\ Len(part) = to - a /\ IsRun(len, part, k * len + a)
    BY <2>1, <1>3, PieceIsRun
  <2>. QED  BY <2>2, <1>4
<1>. HIDE DEF part
<1>6. data \in Bytes /\ Len(data) = Len(bytes) + Len(part) /\ IsRun(len, data, n)
  BY <1>4, <1>5, RunAppends
<1>. HIDE DEF data
<1>7. k * len \in Nat /\ (k + 1) * len = k * len + len
  BY <1>1
<1>8. /\ sends' \in Nat /\ res' \in Nat /\ res' < len
      /\ n + Len(data) = sends' * len + res'
  <2>1. n + Len(data) = k * len + to
    <3>1. n + (Len(bytes) + (to - a)) = k * len + to
      <4>. HIDE DEF part
      <4>1. PICK base \in Nat : base = k * len
        BY <1>7
      <4>2. n + Len(bytes) = base + a
        BY <1>4, <4>1
      <4>3. n + (Len(bytes) + (to - a)) = base + to
        BY <1>1, <1>3, <4>2
      <4>. QED  BY <4>1, <4>3
    <3>. QED  BY <3>1, <1>5, <1>6
  <2>2. CASE to = len
    <3>1. sends' = k + 1 /\ res' = 0
      BY <1>1, <1>2, <2>2 DEF Counted
    <3>. QED  BY <3>1, <2>1, <2>2, <1>7
  <2>3. CASE to # len
    <3>1. sends' = k /\ res' = to /\ to < len
      BY <1>1, <1>2, <1>3, <2>3 DEF Counted
    <3>. QED  BY <3>1, <2>1, <1>3
  <2>. QED  BY <2>2, <2>3
<1>9. opts' = opts /\ server' = server
  BY DEF Sends
<1>10. \/ segs' = Append(ss, data) /\ buf' = <<>>
       \/ buf' = data /\ segs' = ss
  BY <1>1, <1>2 DEF Transmit, data, part
<1>11. /\ segs' \in Seq(Bytes) /\ buf' \in Bytes
  <2>1. Append(ss, data) \in Seq(Bytes)
    BY <1>6
  <2>2. <<>> \in Bytes /\ data \in Bytes
    BY <1>6, EmptyRuns
  <2>. QED  BY <2>1, <2>2, <1>10
<1>12. LatencyTypeOK'
  BY <1>1, <1>8, <1>9, <1>11 DEF LatencyTypeOK
<1>13. Len(server.data) \in Nat /\ Len(data) \in Nat
  BY <1>6 DEF LatencyTypeOK, Bytes
<1>14. StreamIsWhole'
  <2>1. \E m \in Nat :
          /\ IsStream(len, segs', Len(server.data), m) /\ IsRun(len, buf', m)
          /\ m + Len(buf') = sends' * len + res'
    <3>1. CASE segs' = Append(ss, data) /\ buf' = <<>>
      <4>1. IsStream(len, segs', Len(server.data), n + Len(data))
        BY <3>1, <1>4, <1>6, <1>13, StreamGrows
      <4>2. IsRun(len, buf', n + Len(data)) /\ Len(buf') = 0 /\ n + Len(data) \in Nat
        BY <3>1, <1>13, EmptyRuns
      <4>3. (n + Len(data)) + 0 = n + Len(data)
        BY <1>13
      <4>. QED  BY <4>1, <4>2, <4>3, <1>8
    <3>2. CASE buf' = data /\ segs' = ss
      BY <3>2, <1>4, <1>6, <1>8
    <3>. QED  BY <3>1, <3>2, <1>10
  <2>. QED  BY <2>1, <1>1, <1>9 DEF StreamIsWhole
<1>15. HeadersAreSound'
  <2>. SUFFICES ASSUME opts.nodelay, len <= MSS
                PROVE  /\ buf' = <<>> /\ res' = 0 /\ server.errors = 0
                       /\ sends' = server.m_next + Len(segs')
                       /\ \A j \in 1 .. Len(segs') :
                            segs'[j] # <<>> /\ segs'[j][1][1] = server.m_next + j - 1
    BY <1>1, <1>9 DEF HeadersAreSound
  <2>1. /\ bytes = <<>> /\ a = 0 /\ server.errors = 0
        /\ k = server.m_next + Len(ss)
        /\ \A j \in 1 .. Len(ss) : ss[j] # <<>> /\ ss[j][1][1] = server.m_next + j - 1
    BY <1>1 DEF HeadersAreSound
  <2>2. Len(bytes) = 0
    BY <2>1, EmptyRuns
  <2>3. to = len
    BY <2>1, <2>2, <1>1, <1>2, <1>3
  <2>4. sends' = k + 1 /\ res' = 0
    BY <1>1, <1>2, <2>3 DEF Counted
  <2>5. segs' = Append(ss, data) /\ buf' = <<>>
    BY <1>1, <1>2 DEF Transmit, Sends, data, part
  <2>6. data = part
    BY <2>1, <1>5 DEF Bytes, data
  <2>7. data # <<>> /\ data[1][1] = k
    <3>1. 1 \in 1 .. to - a
      BY <2>1, <2>3, <1>1
    <3>2. part[1] = <<k, a + 1 - 1>>
      BY <3>1 DEF Piece, part
    <3>4. a + 1 - 1 = a
      BY <2>1
    <3>3. part # <<>>
      BY <3>1, <1>5, EmptyRuns
    <3>. QED  BY <2>6, <3>2, <3>3
  <2>8. server.m_next \in Nat /\ Len(ss) \in Nat
    BY DEF LatencyTypeOK
  <2>9. Len(segs') = Len(ss) + 1 /\ segs'[Len(ss) + 1] = data
        /\ \A j \in 1 .. Len(ss) : segs'[j] = ss[j]
    BY <2>5, <1>6
  <2>10. k = server.m_next + (Len(ss) + 1) - 1 /\ k + 1 = server.m_next + (Len(ss) + 1)
    <3>1. PICK m \in Nat, c \in Nat : m = server.m_next /\ c = Len(ss)
      BY <2>8
    <3>2. k = m + c
      BY <2>1, <3>1
    <3>3. k = m + (c + 1) - 1 /\ k + 1 = m + (c + 1)
      BY <3>2
    <3>. QED  BY <3>1, <3>3
  <2>11. ASSUME NEW j \in 1 .. Len(segs')
         PROVE  segs'[j] # <<>> /\ segs'[j][1][1] = server.m_next + j - 1
    <3>1. CASE j = Len(ss) + 1
      BY <3>1, <2>7, <2>9, <2>10
    <3>2. CASE j \in 1 .. Len(ss)
      BY <3>2, <2>1, <2>9
    <3>. QED  BY <3>1, <3>2, <2>8, <2>9
  <2>. QED  BY <2>1, <2>4, <2>5, <2>9, <2>10, <2>11
<1>. QED  BY <1>12, <1>14, <1>15

LEMMA ServerType ==
    ASSUME NEW s \in [up : BOOLEAN, m_next : Nat, errors : Nat, data : Bytes],
           NEW m \in Nat, NEW e \in Nat, NEW d \in Bytes
    PROVE  [s EXCEPT !.m_next = m, !.errors = e, !.data = d]
                \in [up : BOOLEAN, m_next : Nat, errors : Nat, data : Bytes]
OBVIOUS

\* onNewData() is given the next segment.
LEMMA DeliversKeeps ==
    ASSUME LatencyInv, Delivers
    PROVE  LatencyInv'
<1>. USE DEF LatencyInv
<1>1. PICK len \in Nat \ {0}, ss \in Seq(Bytes), had \in Bytes, next \in Nat, errors \in Nat :
        /\ len = opts.length /\ ss = segs /\ had = server.data /\ next = server.m_next
        /\ errors = server.errors /\ ss # <<>>
  BY LatencyAssumption DEF LatencyTypeOK, Delivers
<1>2. PICK data \in Bytes : data = Head(ss) /\ data = ss[1]
  BY <1>1
<1>3. /\ server'.data = had \o data /\ server'.m_next = next + 1
      /\ server'.errors = IF data[1][1] = next THEN errors ELSE errors + 1
      /\ server'.up \in BOOLEAN /\ DOMAIN server' = DOMAIN server
      /\ segs' = Tail(ss) /\ UNCHANGED <<opts, sends, res, buf>>
  BY <1>1, <1>2 DEF Delivers, OnNewData, LatencyTypeOK
<1>4. PICK n \in Nat :
        /\ IsStream(len, ss, Len(had), n) /\ IsRun(len, buf, n)
        /\ n + Len(buf) = sends * len + res
  BY <1>1 DEF StreamIsWhole
<1>5. Len(had) \in Nat /\ 0 + Len(had) = Len(had)
  BY DEF Bytes
<1>6. IsRun(len, data, Len(had)) /\ IsStream(len, Tail(ss), Len(had) + Len(data), n)
  BY <1>1, <1>2, <1>4, <1>5, StreamShrinks
<1>7. IsRun(len, had, 0)
  BY <1>1 DEF StreamIsWhole
<1>8. /\ had \o data \in Bytes /\ Len(had \o data) = Len(had) + Len(data)
      /\ IsRun(len, had \o data, 0)
  BY <1>5, <1>6, <1>7, RunAppends
<1>9. LatencyTypeOK'
  <2>1. server' \in [up : BOOLEAN, m_next : Nat, errors : Nat, data : Bytes]
    <3>1. PICK e \in Nat : e = IF Head(data)[1] = server.m_next THEN server.errors
                               ELSE server.errors + 1
      BY DEF LatencyTypeOK
    <3>2. server' = [server EXCEPT !.m_next = server.m_next + 1, !.errors = e,
                                   !.data = server.data \o data]
      BY <3>1, <1>1, <1>2 DEF Delivers, OnNewData
    <3>3. /\ server.m_next + 1 \in Nat /\ server.data \o data \in Bytes
          /\ server \in [up : BOOLEAN, m_next : Nat, errors : Nat, data : Bytes]
      BY <1>1, <1>8 DEF LatencyTypeOK
    <3>. QED  BY <3>2, <3>3, ServerType
  <2>2. segs' \in Seq(Bytes)
    BY <1>1, <1>3
  <2>. QED  BY <2>1, <2>2, <1>3 DEF LatencyTypeOK
<1>10. StreamIsWhole'
  BY <1>1, <1>3, <1>4, <1>6, <1>8 DEF StreamIsWhole
<1>11. HeadersAreSound'
  <2>. SUFFICES ASSUME opts.nodelay, len <= MSS
                PROVE  /\ buf = <<>> /\ res = 0 /\ server'.errors = 0
                       /\ sends = (next + 1) + Len(segs')
                       /\ \A j \in 1 .. Len(segs') :
                            segs'[j] # <<>> /\ segs'[j][1][1] = (next + 1) + j - 1
    BY <1>1, <1>3 DEF HeadersAreSound
  <2>1. /\ buf = <<>> /\ res = 0 /\ errors = 0 /\ sends = next + Len(ss)
        /\ \A j \in 1 .. Len(ss) : ss[j] # <<>> /\ ss[j][1][1] = next + j - 1
    BY <1>1 DEF HeadersAreSound
  <2>2. Len(ss) \in Nat /\ Len(ss) >= 1
    BY <1>1
  <2>3. data[1][1] = next
    <3>1. 1 \in 1 .. Len(ss) /\ next + 1 - 1 = next
      BY <2>2
    <3>. QED  BY <3>1, <2>1, <1>2
  <2>4. Len(segs') = Len(ss) - 1 /\ \A j \in 1 .. Len(ss) - 1 : segs'[j] = ss[j + 1]
    BY <1>1, <1>3
  <2>5. next + Len(ss) = (next + 1) + (Len(ss) - 1)
    BY <2>2
  <2>6. ASSUME NEW j \in 1 .. Len(segs')
        PROVE  segs'[j] # <<>> /\ segs'[j][1][1] = (next + 1) + j - 1
    <3>1. j + 1 \in 1 .. Len(ss) /\ next + (j + 1) - 1 = (next + 1) + j - 1
      BY <2>2, <2>4
    <3>. QED  BY <3>1, <2>1, <2>4
  <2>. QED  BY <2>1, <2>3, <2>4, <2>5, <2>6, <1>3
<1>. QED  BY <1>9, <1>10, <1>11

\* What was waiting goes out.
LEMMA FlushesKeeps ==
    ASSUME LatencyInv, Flushes
    PROVE  LatencyInv'
<1>. USE DEF LatencyInv
<1>1. PICK len \in Nat \ {0}, data \in Bytes :
        /\ len = opts.length /\ data = buf /\ data # <<>> /\ segs = <<>>
        /\ segs' = <<data>> /\ buf' = <<>> /\ UNCHANGED <<opts, sends, res, server>>
  BY LatencyAssumption DEF LatencyTypeOK, Flushes
<1>2. LatencyTypeOK'
  BY <1>1, EmptyRuns DEF LatencyTypeOK
<1>3. PICK n \in Nat :
        /\ IsStream(len, segs, Len(server.data), n) /\ IsRun(len, data, n)
        /\ n + Len(data) = sends * len + res
  BY <1>1 DEF StreamIsWhole
<1>4. Len(server.data) \in Nat /\ Len(data) \in Nat /\ segs \in Seq(Bytes)
  BY DEF LatencyTypeOK, Bytes
<1>5. segs' = Append(segs, data)
  BY <1>1
<1>6. IsStream(len, segs', Len(server.data), n + Len(data))
  BY <1>3, <1>4, <1>5, StreamGrows
<1>7. StreamIsWhole'
  <2>1. IsRun(len, buf', n + Len(data)) /\ Len(buf') = 0
    BY <1>1, EmptyRuns
  <2>2. (n + Len(data)) + 0 = sends * len + res /\ n + Len(data) \in Nat
    BY <1>3, <1>4
  <2>. QED  BY <2>1, <2>2, <1>1, <1>3, <1>6 DEF StreamIsWhole
<1>8. HeadersAreSound'
  BY <1>1 DEF HeadersAreSound
<1>. QED  BY <1>2, <1>7, <1>8

LEMMA LatencyKeeps ==
    ASSUME LatencyInv, LatencyNext
    PROVE  LatencyInv'
<1>1. ASSUME Opens \/ WaitsInVain \/ Connects \/ Stops \/ SendFails \/ Finishes \/ Interrupt
             \/ UNCHANGED latencyVars
      PROVE  LatencyInv'
  <2>1. UNCHANGED <<opts, sends, res, buf, segs, server>>
    BY <1>1 DEF Opens, WaitsInVain, Connects, Stops, SendFails, Finishes, Interrupt, wireVars,
                latencyVars
  <2>. QED  BY <2>1, StreamKept
<1>2. CASE Sends
  BY <1>2, SendsKeeps
<1>3. CASE Delivers
  BY <1>3, DeliversKeeps
<1>4. CASE Flushes
  BY <1>4, FlushesKeeps
<1>5. CASE ServerStops
  BY <1>5, StreamKept DEF ServerStops
<1>. QED  BY <1>1, <1>2, <1>3, <1>4, <1>5 DEF LatencyNext, Turn

LEMMA LatencyStarts == ASSUME LatencyInit PROVE LatencyInv
<1>1. LatencyTypeOK
  <2>1. /\ opts \in [length : Lengths, nodelay : BOOLEAN, wait : BOOLEAN]
        /\ opts.length \in Nat \ {0} /\ sends = 0 /\ res = 0 /\ buf = <<>> /\ segs = <<>>
        /\ server = [up |-> TRUE, m_next |-> 0, errors |-> 0, data |-> <<>>]
    BY LatencyAssumption DEF LatencyInit, NewServer
  <2>2. server \in [up : BOOLEAN, m_next : Nat, errors : Nat, data : Bytes]
    BY <2>1, EmptyRuns
  <2>3. segs \in Seq(Bytes) /\ buf \in Bytes
    BY <2>1, EmptyRuns, EmptySeq
  <2>4. sends \in Nat /\ res \in Nat /\ res < opts.length
    BY <2>1
  <2>. QED  BY <2>1, <2>2, <2>3, <2>4 DEF LatencyTypeOK
<1>2. PICK len \in Nat \ {0} : len = opts.length
  BY LatencyAssumption DEF LatencyInit
<1>3. segs = <<>> /\ buf = <<>> /\ server.data = <<>> /\ sends = 0 /\ res = 0
      /\ server.errors = 0 /\ server.m_next = 0
  BY DEF LatencyInit, NewServer
<1>4. Len(segs) = 0 /\ Len(buf) = 0 /\ Len(server.data) = 0
  BY <1>3
<1>5. IsStream(len, segs, 0, 0)
  <2>. DEFINE start == [j \in 1 .. 1 |-> 0]
  <2>1. start \in [1 .. 1 -> Nat] /\ start[1] = 0
    OBVIOUS
  <2>. HIDE DEF start
  <2>. QED  BY <1>4, <2>1 DEF IsStream
<1>6. StreamIsWhole
  <2>1. IsRun(len, buf, 0) /\ IsRun(len, server.data, 0)
    BY <1>3, EmptyRuns
  <2>2. 0 + 0 = 0 * len + 0
    BY <1>2
  <2>. QED  BY <2>1, <2>2, <1>2, <1>3, <1>4, <1>5 DEF StreamIsWhole
<1>7. HeadersAreSound
  BY <1>3, <1>4 DEF HeadersAreSound
<1>. QED  BY <1>1, <1>6, <1>7 DEF LatencyInv

LEMMA MessagesAreInOrder == ASSUME LatencyInv PROVE MessagesInOrder
<1>1. DataInOrder
  <2>. SUFFICES ASSUME NEW i \in DOMAIN server.data
                PROVE  server.data[i] = <<(i - 1) \div opts.length, (i - 1) % opts.length>>
    BY DEF DataInOrder
  <2>1. server.data[i] = ByteOf(opts.length, 0 + i - 1)
    BY DEF LatencyInv, StreamIsWhole, IsRun
  <2>2. i \in Int
    <3>1. server.data \in Seq(Nat \X Nat)
      BY DEF LatencyInv, LatencyTypeOK, Bytes
    <3>. QED  BY <3>1
  <2>3. 0 + i - 1 = i - 1
    BY <2>2
  <2>. QED  BY <2>1, <2>3 DEF ByteOf
<1>2. HeadersMatch
  BY DEF LatencyInv, HeadersAreSound, HeadersMatch
<1>. QED  BY <1>1, <1>2 DEF MessagesInOrder

-----------------------------------------------------------------------------
(***************************************************************************)
(* The calls of the programs, and the events between them.                 *)
(***************************************************************************)
Slots == [SlotIds -> [state : SlotStates, owner : Nat, cookie : Nat]]
Handles == [SlotIds -> [state : HandleStates, conn : SlotIds \cup {NoSlot}]]
Views == [SlotIds -> [view : {"none", "open", "up"}, mine : Nat]]

\* What may happen to a handle while its program makes no call: it is told that it
\* is connected, or that the connection of its slot ended.
HandleGoesOn(h) ==
    LET s == handle[h].conn IN
    \/ handle'[h].state = handle[h].state
    \/ /\ handle'[h].state = "Connected"
       /\ s \in SlotIds /\ slot[s].state = "SYN_SENT"
    \/ /\ handle'[h].state = "Closed"
       /\ s \in SlotIds /\ idx[s] = h
       /\ slot[s].state # "CLOSED" /\ slot'[s].state \in Ending

GoesOn ==
    /\ UNCHANGED <<serial, idx>>
    /\ slot' \in Slots /\ handle' \in Handles /\ app' \in Views
    /\ \A s \in SlotIds :
        /\ slot'[s].owner = slot[s].owner
        /\ slot[s].state = "CLOSED" => slot'[s].state = "CLOSED"
        /\ slot[s].state \in Ending => slot'[s].state \in Ending
    /\ \A h \in SlotIds :
        /\ handle'[h].conn = handle[h].conn /\ app'[h].mine = app[h].mine
        /\ HandleGoesOn(h)

LEMMA EntersSlot ==
    ASSUME slot \in Slots, NEW s \in SlotIds, NEW st \in SlotStates, slot[s].state # "CLOSED",
           slot[s].state \in Ending => st \in Ending,
           \/ slot' = Enter(s, st)
           \/ slot' = EndsWith(s, st)
           \/ st = "ESTABLISHED" /\ Announced(s)
    PROVE  /\ slot' \in Slots /\ slot'[s].state = st
           /\ \A i \in SlotIds :
                /\ slot'[i].owner = slot[i].owner
                /\ slot[i].state = "CLOSED" => slot'[i].state = "CLOSED"
                /\ slot[i].state \in Ending => slot'[i].state \in Ending
<1>. DEFINE mid == Enter(s, st)
<1>1. /\ mid \in Slots /\ mid[s].state = st /\ mid[s].owner = slot[s].owner
      /\ \A i \in SlotIds : i # s => mid[i] = slot[i]
  BY DEF Enter, Slots
<1>2. /\ slot' \in Slots /\ slot'[s].state = st /\ slot'[s].owner = slot[s].owner
      /\ \A i \in SlotIds : i # s => slot'[i] = slot[i]
  <2>1. CASE slot' = mid
    BY <1>1, <2>1
  <2>2. CASE slot' # mid
    <3>1. PICK k \in Nat : slot' = [mid EXCEPT ![s].cookie = k]
      <4>1. CASE slot' = EndsWith(s, st)
        BY <4>1 DEF EndsWith, Enter
      <4>2. CASE st = "ESTABLISHED" /\ Announced(s)
        <5>1. slot[s].owner \in Nat
          BY DEF Slots
        <5>. QED  BY <4>2, <5>1 DEF Announced, Enter
      <4>. QED  BY <2>2, <4>1, <4>2
    <3>. HIDE DEF mid
    <3>. QED  BY <1>1, <3>1 DEF Slots
  <2>. QED  BY <2>1, <2>2
<1>. QED  BY <1>2

LEMMA TellsHandle ==
    ASSUME handle \in Handles, app \in Views, NEW h \in SlotIds, NEW st \in {"Connected", "Closed"},
           NEW v \in {"none", "up"},
           handle' = [handle EXCEPT ![h].state = st], Tell(h, v)
    PROVE  /\ handle' \in Handles /\ app' \in Views /\ handle'[h].state = st
           /\ \A i \in SlotIds :
                /\ handle'[i].conn = handle[i].conn /\ app'[i].mine = app[i].mine
                /\ i # h => handle'[i].state = handle[i].state
<1>1. app' = [app EXCEPT ![h].view = v]
  BY DEF Tell
<1>2. app' \in Views /\ \A i \in SlotIds : app'[i].mine = app[i].mine
  BY <1>1 DEF Views
<1>3. st \in HandleStates
  BY DEF HandleStates
<1>. QED  BY <1>2, <1>3 DEF Handles

LEMMA QuietMoveIs ==
    ASSUME NEW m \in QuietMoves
    PROVE  /\ m[1] # "CLOSED" /\ m[2] \in SlotStates
           /\ m[1] \in Ending => m[2] \in Ending
BY DEF QuietMoves, SlotStates, Ending

LEMMA EndsAreStates == Ending \subseteq SlotStates /\ "SYN_SENT" \notin Ending
BY DEF Ending, SlotStates

\* Between its calls, the connections of a program go on.
LEMMA CallsGoOn ==
    ASSUME CallsInv, CallsNext
    PROVE  GoesOn
<1>1. slot \in Slots /\ handle \in Handles /\ app \in Views
      /\ \A s \in SlotIds : idx[s] \in SlotIds
  BY DEF CallsInv, CallsTypeOK, Slots, Handles, Views
<1>2. CASE TableLearns
  BY <1>1, <1>2 DEF TableLearns, ArpChanges, GoesOn, HandleGoesOn
<1>3. ASSUME NEW s \in SlotIds, OnConnected(s)
      PROVE  GoesOn
  <2>1. /\ slot[s].state = "SYN_SENT" /\ UNCHANGED <<serial, idx>>
        /\ slot' = Enter(s, "ESTABLISHED") \/ Announced(s)
    BY <1>3 DEF OnConnected
  <2>2. "ESTABLISHED" \in SlotStates /\ "SYN_SENT" \notin Ending /\ "SYN_SENT" # "CLOSED"
    BY EndsAreStates DEF SlotStates
  <2>3. /\ slot' \in Slots
        /\ \A i \in SlotIds :
                /\ slot'[i].owner = slot[i].owner
                /\ slot[i].state = "CLOSED" => slot'[i].state = "CLOSED"
                /\ slot[i].state \in Ending => slot'[i].state \in Ending
    BY <1>1, <2>1, <2>2, EntersSlot
  <2>4. CASE ~ IsCurrent(s)
    BY <1>1, <1>3, <2>1, <2>3, <2>4 DEF OnConnected, GoesOn, HandleGoesOn
  <2>5. CASE IsCurrent(s)
    <3>1. /\ handle' = [handle EXCEPT ![idx[s]].state = "Connected"] /\ Tell(idx[s], "up")
          /\ idx[s] \in SlotIds /\ handle[idx[s]].conn = s
      BY <1>1, <1>3, <2>5 DEF OnConnected, HandleOf, IsCurrent
    <3>2. /\ handle' \in Handles /\ app' \in Views /\ handle'[idx[s]].state = "Connected"
          /\ \A i \in SlotIds :
                /\ handle'[i].conn = handle[i].conn /\ app'[i].mine = app[i].mine
                /\ i # idx[s] => handle'[i].state = handle[i].state
      BY <1>1, <3>1, TellsHandle
    <3>3. \A h \in SlotIds : HandleGoesOn(h)
      BY <2>1, <3>1, <3>2 DEF HandleGoesOn
    <3>. QED  BY <2>1, <2>3, <3>2, <3>3 DEF GoesOn
  <2>. QED  BY <2>4, <2>5
<1>4. ASSUME NEW s \in SlotIds, OnEnd(s)
      PROVE  GoesOn
  <2>1. PICK st \in Ending : slot[s].state # "CLOSED" /\ Ended(s, st)
    <3>1. PICK m \in EndMoves : slot[s].state = m[1] /\ Ended(s, m[2])
      BY <1>4 DEF OnEnd
    <3>. QED  BY <3>1, EndMoveIs
  <2>2. /\ UNCHANGED <<serial, idx>> /\ st \in SlotStates
        /\ slot' = Enter(s, st) \/ slot' = EndsWith(s, st)
    BY <2>1, EndsAreStates DEF Ended
  <2>3. /\ slot' \in Slots /\ slot'[s].state = st
        /\ \A i \in SlotIds :
                /\ slot'[i].owner = slot[i].owner
                /\ slot[i].state = "CLOSED" => slot'[i].state = "CLOSED"
                /\ slot[i].state \in Ending => slot'[i].state \in Ending
    BY <1>1, <2>1, <2>2, EntersSlot
  <2>4. CASE ~ IsCurrent(s)
    BY <1>1, <2>1, <2>2, <2>3, <2>4 DEF Ended, GoesOn, HandleGoesOn
  <2>5. CASE IsCurrent(s)
    <3>1. /\ handle' = [handle EXCEPT ![idx[s]].state = "Closed"] /\ Tell(idx[s], "none")
          /\ idx[s] \in SlotIds /\ handle[idx[s]].conn = s
      BY <1>1, <2>1, <2>5 DEF Ended, HandleOf, IsCurrent
    <3>2. /\ handle' \in Handles /\ app' \in Views /\ handle'[idx[s]].state = "Closed"
          /\ \A i \in SlotIds :
                /\ handle'[i].conn = handle[i].conn /\ app'[i].mine = app[i].mine
                /\ i # idx[s] => handle'[i].state = handle[i].state
      BY <1>1, <3>1, TellsHandle
    <3>3. \A h \in SlotIds : HandleGoesOn(h)
      BY <2>1, <2>3, <3>1, <3>2 DEF HandleGoesOn
    <3>. QED  BY <2>2, <2>3, <3>2, <3>3 DEF GoesOn
  <2>. QED  BY <2>4, <2>5
<1>5. ASSUME NEW s \in SlotIds, QuietMove(s), UNCHANGED clientVars
      PROVE  GoesOn
  <2>1. PICK m \in QuietMoves : slot[s].state = m[1] /\ slot' = Enter(s, m[2])
    BY <1>5 DEF QuietMove
  <2>2. PICK st \in SlotStates : /\ slot' = Enter(s, st) /\ slot[s].state # "CLOSED"
                                 /\ slot[s].state \in Ending => st \in Ending
    BY <2>1, QuietMoveIs
  <2>3. /\ slot' \in Slots
        /\ \A i \in SlotIds :
                /\ slot'[i].owner = slot[i].owner
                /\ slot[i].state = "CLOSED" => slot'[i].state = "CLOSED"
                /\ slot[i].state \in Ending => slot'[i].state \in Ending
    BY <1>1, <2>2, EntersSlot
  <2>4. UNCHANGED <<serial, idx, handle, app>>
    BY <1>5 DEF QuietMove, clientVars
  <2>. QED  BY <1>1, <2>3, <2>4 DEF GoesOn, HandleGoesOn
<1>. QED  BY <1>2, <1>3, <1>4, <1>5 DEF CallsNext, SlotMoves

\* Between the calls, the tables stay right.
LEMMA GoingOnKeeps ==
    ASSUME CallsInv, GoesOn
    PROVE  CallsInv'
<1>. USE DEF CallsInv, GoesOn
<1>1. CallsTypeOK'
  BY DEF CallsTypeOK, Slots, Handles, Views
<1>2. OwnersDiffer'
  BY DEF OwnersDiffer
<1>3. HandlesNameTheirOwn'
  <2>. SUFFICES ASSUME NEW h \in SlotIds
                PROVE  LET s == handle'[h].conn IN
                       /\ handle'[h].state = "Connected" => s \in SlotIds
                       /\ handle'[h].state \in {"Opened", "Resolving"} => app'[h].mine = 0
                       /\ s \in SlotIds /\ idx'[s] = h /\ slot'[s].state # "CLOSED"
                          /\ app'[h].mine # 0 => slot'[s].owner = app'[h].mine
    BY DEF HandlesNameTheirOwn
  <2>1. HandleGoesOn(h)
    OBVIOUS
  <2>. QED  BY <2>1 DEF HandlesNameTheirOwn, HandleGoesOn
<1>. QED  BY <1>1, <1>2, <1>3

\* The end of a connection that was reported stays one.
LEMMA OverStays ==
    ASSUME CallsInv, GoesOn, NEW h \in SlotIds, IsOver(h)
    PROVE  IsOver(h)'
<1>1. HandleGoesOn(h) /\ handle'[h].conn = handle[h].conn /\ app'[h].mine = app[h].mine
  BY DEF GoesOn
<1>2. handle'[h].state = "Closed"
  BY <1>1, EndsAreStates DEF IsOver, HandleGoesOn
<1>. QED  BY <1>1, <1>2 DEF IsOver, GoesOn

\* A handle that is connected stays so, or its connection ends.
LEMMA ConnectedGoesOn ==
    ASSUME CallsInv, GoesOn, NEW h \in SlotIds, handle[h].state = "Connected"
    PROVE  handle'[h].state = "Connected" \/ IsOver(h)'
<1>. DEFINE s == handle[h].conn
<1>1. HandleGoesOn(h) /\ handle'[h].conn = s /\ app'[h].mine = app[h].mine
  BY DEF GoesOn
<1>2. SUFFICES ASSUME /\ handle'[h].state = "Closed" /\ s \in SlotIds /\ idx[s] = h
                      /\ slot[s].state # "CLOSED" /\ slot'[s].state \in Ending
               PROVE  IsOver(h)'
  BY <1>1 DEF HandleGoesOn
<1>3. ASSUME NEW t \in SlotIds, slot'[t].owner = app'[h].mine
      PROVE  slot'[t].state \in Ending
  <2>1. slot[t].owner = app[h].mine
    BY <1>1, <1>3 DEF GoesOn
  <2>2. CASE app[h].mine = 0
    <3>1. slot[t].state = "CLOSED"
      BY <2>1, <2>2 DEF CallsInv, OwnersDiffer
    <3>. QED  BY <3>1 DEF GoesOn, Ending
  <2>3. CASE app[h].mine # 0
    <3>1. slot[s].owner = app[h].mine
      BY <1>2, <2>3 DEF CallsInv, HandlesNameTheirOwn
    <3>2. t = s
      BY <1>2, <2>1, <2>3, <3>1 DEF CallsInv, OwnersDiffer
    <3>. QED  BY <3>2, <1>2
  <2>. QED  BY <2>2, <2>3
<1>. QED  BY <1>1, <1>2, <1>3 DEF IsOver

LEMMA OpenKeepsCalls ==
    ASSUME CallsInv, NEW h \in SlotIds, Open(h)
    PROVE  CallsInv'
<1>. USE DEF CallsInv
<1>1. /\ handle' = [handle EXCEPT ![h].state = "Opened"]
      /\ app' = [app EXCEPT ![h] = [view |-> "open", mine |-> 0]]
      /\ UNCHANGED <<slot, serial, idx>>
  BY DEF Open
<1>2. /\ \A i \in SlotIds : handle'[i].conn = handle[i].conn
      /\ \A i \in SlotIds : i # h => handle'[i] = handle[i] /\ app'[i] = app[i]
      /\ handle'[h].state = "Opened" /\ app'[h].mine = 0
  BY <1>1 DEF CallsTypeOK
<1>3. CallsTypeOK'
  <2>1. handle' \in [SlotIds -> [state : HandleStates, conn : SlotIds \cup {NoSlot}]]
    BY <1>1 DEF CallsTypeOK, HandleStates
  <2>2. app' \in [SlotIds -> [view : {"none", "open", "up"}, mine : Nat]]
    BY <1>1 DEF CallsTypeOK
  <2>. QED  BY <1>1, <2>1, <2>2 DEF CallsTypeOK
<1>4. OwnersDiffer'
  BY <1>1, <1>2 DEF OwnersDiffer, CallsTypeOK
<1>5. HandlesNameTheirOwn'
  BY <1>1, <1>2 DEF HandlesNameTheirOwn
<1>. QED  BY <1>3, <1>4, <1>5

LEMMA DiscoverKeepsCalls ==
    ASSUME CallsInv, NEW h \in SlotIds, Discover(h)
    PROVE  CallsInv'
<1>. USE DEF CallsInv
<1>1. /\ handle[h].state = "Opened"
      /\ handle' = [handle EXCEPT ![h].state = "Resolving"]
      /\ UNCHANGED <<slot, serial, idx, app>>
  BY DEF Discover
<1>2. /\ \A i \in SlotIds : handle'[i].conn = handle[i].conn
      /\ \A i \in SlotIds : i # h => handle'[i] = handle[i]
      /\ handle'[h].state = "Resolving"
  BY <1>1 DEF CallsTypeOK
<1>3. CallsTypeOK'
  <2>1. /\ handle \in [SlotIds -> [state : HandleStates, conn : SlotIds \cup {NoSlot}]]
        /\ handle[h] \in [state : HandleStates, conn : SlotIds \cup {NoSlot}]
    BY DEF CallsTypeOK
  <2>2. [handle[h] EXCEPT !.state = "Resolving"]
            \in [state : HandleStates, conn : SlotIds \cup {NoSlot}]
    BY <2>1 DEF HandleStates
  <2>3. handle' \in [SlotIds -> [state : HandleStates, conn : SlotIds \cup {NoSlot}]]
    BY <1>1, <2>1, <2>2
  <2>. QED  BY <1>1, <2>3 DEF CallsTypeOK
<1>4. OwnersDiffer'
  BY <1>1 DEF OwnersDiffer
<1>5. HandlesNameTheirOwn'
  BY <1>1, <1>2 DEF HandlesNameTheirOwn
<1>. QED  BY <1>3, <1>4, <1>5

\* connect() begins a connection that no slot had before, or begins none.
LEMMA ConnectKeepsCalls ==
    ASSUME CallsInv, NEW h \in SlotIds, Connect(h)
    PROVE  CallsInv'
<1>. USE DEF CallsInv
<1>1. serial' = serial + 1 /\ serial \in Nat /\ serial' \in Nat /\ app[h].mine = 0
  BY DEF Connect, CallsTypeOK, HandlesNameTheirOwn
<1>2. PICK s \in SlotIds, st \in {"SYN_SENT", "CLOSED"} :
        /\ slot' = [slot EXCEPT ![s] = [state |-> st, owner |-> serial', cookie |-> 0]]
        /\ \/ /\ handle' = [handle EXCEPT ![h] = [state |-> "Connecting", conn |-> s]]
              /\ idx' = [idx EXCEPT ![s] = h]
              /\ app' = [app EXCEPT ![h].mine = serial']
           \/ /\ st = "CLOSED"
              /\ handle' = [handle EXCEPT ![h].state = "Connecting"]
              /\ idx' = [idx EXCEPT ![handle[h].conn] = h]
              /\ app' = app
  <2>1. /\ [NewSlot EXCEPT !.state = "SYN_SENT", !.owner = serial']
              = [state |-> "SYN_SENT", owner |-> serial', cookie |-> 0]
        /\ [NewSlot EXCEPT !.owner = serial']
              = [state |-> "CLOSED", owner |-> serial', cookie |-> 0]
    BY ClearedSlot
  <2>2. PICK s \in SlotIds :
        \/ /\ slot' = [slot EXCEPT ![s] = [NewSlot EXCEPT !.state = "SYN_SENT", !.owner = serial']]
           /\ handle' = [handle EXCEPT ![h] = [state |-> "Connecting", conn |-> s]]
           /\ idx' = [idx EXCEPT ![s] = h]
           /\ app' = [app EXCEPT ![h].mine = serial']
        \/ /\ slot' = [slot EXCEPT ![s] = [NewSlot EXCEPT !.owner = serial']]
           /\ handle' = [handle EXCEPT ![h].state = "Connecting"]
           /\ idx' = [idx EXCEPT ![handle[h].conn] = h]
           /\ app' = app
    BY DEF Connect
  <2>. QED  BY <2>1, <2>2
<1>3. /\ slot'[s].owner = serial' /\ slot'[s].state = st
      /\ \A i \in SlotIds : i # s => slot'[i] = slot[i]
      /\ slot' \in [SlotIds -> [state : SlotStates, owner : Nat, cookie : Nat]]
  BY <1>1, <1>2 DEF CallsTypeOK, SlotStates
<1>4. CASE /\ handle' = [handle EXCEPT ![h] = [state |-> "Connecting", conn |-> s]]
           /\ idx' = [idx EXCEPT ![s] = h]
           /\ app' = [app EXCEPT ![h].mine = serial']
  <2>1. /\ handle'[h].state = "Connecting" /\ handle'[h].conn = s /\ app'[h].mine = serial'
        /\ \A i \in SlotIds : i # h => handle'[i] = handle[i] /\ app'[i] = app[i]
        /\ idx'[s] = h /\ \A i \in SlotIds : i # s => idx'[i] = idx[i]
    BY <1>4 DEF CallsTypeOK
  <2>2. CallsTypeOK'
    <3>1. handle' \in [SlotIds -> [state : HandleStates, conn : SlotIds \cup {NoSlot}]]
      BY <1>4 DEF CallsTypeOK, HandleStates
    <3>2. app' \in [SlotIds -> [view : {"none", "open", "up"}, mine : Nat]]
      BY <1>1, <1>4 DEF CallsTypeOK
    <3>3. idx' \in [SlotIds \cup {NoSlot} -> SlotIds]
      BY <1>4 DEF CallsTypeOK
    <3>. QED  BY <1>1, <1>3, <3>1, <3>2, <3>3 DEF CallsTypeOK
  <2>3. OwnersDiffer'
    <3>1. \A i \in SlotIds : slot[i].owner <= serial /\ app[i].mine <= serial
                             /\ slot[i].owner \in Nat /\ app[i].mine \in Nat
      BY DEF OwnersDiffer, CallsTypeOK
    <3>2. \A i \in SlotIds : slot'[i].owner <= serial' /\ app'[i].mine <= serial'
      BY <1>1, <1>3, <2>1, <3>1
    <3>3. \A i \in SlotIds : slot'[i].state # "CLOSED" => slot'[i].owner # 0
      BY <1>1, <1>3 DEF OwnersDiffer
    <3>4. \A i, t \in SlotIds : i # t /\ slot'[i].owner # 0 => slot'[i].owner # slot'[t].owner
      BY <1>1, <1>3, <3>1 DEF OwnersDiffer
    <3>. QED  BY <3>2, <3>3, <3>4 DEF OwnersDiffer
  <2>4. HandlesNameTheirOwn'
    BY <1>3, <2>1 DEF HandlesNameTheirOwn
  <2>. QED  BY <2>2, <2>3, <2>4
<1>5. CASE /\ st = "CLOSED"
           /\ handle' = [handle EXCEPT ![h].state = "Connecting"]
           /\ idx' = [idx EXCEPT ![handle[h].conn] = h]
           /\ app' = app
  <2>1. /\ handle'[h].state = "Connecting" /\ handle'[h].conn = handle[h].conn
        /\ \A i \in SlotIds : i # h => handle'[i] = handle[i]
        /\ \A i \in SlotIds : idx'[i] = idx[i] \/ idx'[i] = h
    BY <1>5 DEF CallsTypeOK
  <2>2. CallsTypeOK'
    BY <1>1, <1>3, <1>5 DEF CallsTypeOK, HandleStates
  <2>3. OwnersDiffer'
    <3>1. \A i \in SlotIds : slot[i].owner <= serial /\ app[i].mine <= serial
                             /\ slot[i].owner \in Nat /\ app[i].mine \in Nat
      BY DEF OwnersDiffer, CallsTypeOK
    <3>2. \A i \in SlotIds : slot'[i].owner <= serial' /\ app'[i].mine <= serial'
      BY <1>1, <1>3, <1>5, <3>1
    <3>3. \A i \in SlotIds : slot'[i].state # "CLOSED" => slot'[i].owner # 0
      BY <1>1, <1>3 DEF OwnersDiffer
    <3>4. \A i, t \in SlotIds : i # t /\ slot'[i].owner # 0 => slot'[i].owner # slot'[t].owner
      BY <1>1, <1>3, <3>1 DEF OwnersDiffer
    <3>. QED  BY <3>2, <3>3, <3>4 DEF OwnersDiffer
  <2>4. HandlesNameTheirOwn'
    BY <1>1, <1>3, <1>5, <2>1 DEF HandlesNameTheirOwn
  <2>. QED  BY <2>2, <2>3, <2>4
<1>. QED  BY <1>2, <1>4, <1>5

\* close() changes the slot alone.
LEMMA CloseKeepsCalls ==
    ASSUME CallsInv, NEW h \in SlotIds, Close(h)
    PROVE  CallsInv'
<1>. DEFINE s == handle[h].conn
<1>1. PICK st \in {"CLOSE", "FIN_WAIT_1"} : slot' = Enter(s, st)
  BY DEF Close
<1>2. /\ handle[h].state = "Connected" /\ slot[s].state = "ESTABLISHED"
      /\ UNCHANGED <<serial, handle, idx, app>>
  BY DEF Close, clientVars
<1>3. s \in SlotIds
  BY <1>2 DEF CallsInv, HandlesNameTheirOwn
<1>4. slot \in Slots
  BY DEF CallsInv, CallsTypeOK, Slots
<1>5. "ESTABLISHED" # "CLOSED" /\ "ESTABLISHED" \notin Ending /\ st \in SlotStates
  BY DEF Ending, SlotStates
<1>. HIDE DEF s
<1>6. /\ slot' \in Slots
      /\ \A i \in SlotIds :
            /\ slot'[i].owner = slot[i].owner
            /\ slot[i].state = "CLOSED" => slot'[i].state = "CLOSED"
            /\ slot[i].state \in Ending => slot'[i].state \in Ending
  BY <1>1, <1>2, <1>3, <1>4, <1>5, EntersSlot
<1>7. GoesOn
  BY <1>2, <1>6 DEF CallsInv, CallsTypeOK, GoesOn, HandleGoesOn, Handles, Views
<1>. QED  BY <1>7, GoingOnKeeps

LEMMA NothingGoesOn ==
    ASSUME CallsInv, UNCHANGED apiVars
    PROVE  CallsInv'
BY DEF apiVars, clientVars, CallsInv, CallsTypeOK, OwnersDiffer, HandlesNameTheirOwn

LEMMA ConnectReturnsKeeps ==
    ASSUME CallsInv, NEW h \in SlotIds, NEW st, ConnectReturns(h, st)
    PROVE  CallsInv'
<1>1. UNCHANGED apiVars \/ Discover(h) \/ Connect(h)
  BY DEF ConnectReturns
<1>. QED  BY <1>1, NothingGoesOn, DiscoverKeepsCalls, ConnectKeepsCalls

LEMMA CloseReturnsKeeps ==
    ASSUME CallsInv, NEW h \in SlotIds, NEW st, CloseReturns(h, st)
    PROVE  CallsInv'
<1>1. UNCHANGED apiVars \/ Close(h)
  BY DEF CloseReturns
<1>. QED  BY <1>1, NothingGoesOn, CloseKeepsCalls

LEMMA CallsStart == ASSUME CallsInit PROVE CallsInv
BY SlotsAssumption
   DEF CallsInit, SlotsInit, ClientInit, NewSlot, NoApp, SlotIds, NoSlot, SlotStates, HandleStates,
       CallsInv, CallsTypeOK, OwnersDiffer, HandlesNameTheirOwn

-----------------------------------------------------------------------------
(***************************************************************************)
(* The poller.                                                             *)
(***************************************************************************)

LEMMA TakenMore ==
    ASSUME given \in Seq(Taken), NEW n \in Nat, NEW k \in Nat \ {0}, NEW c \in Nat,
           IsTaken(n), given # <<>> => given[Len(given)].conn = c,
           given' = Append(given, [conn |-> c, from |-> n, to |-> n + k])
    PROVE  /\ given' \in Seq(Taken) /\ IsTaken(n + k)' /\ given' # <<>>
           /\ given'[Len(given')].conn = c
<1>1. PICK m \in Nat, t \in Taken :
        /\ m = Len(given) /\ t = [conn |-> c, from |-> n, to |-> n + k]
        /\ t.conn = c /\ t.from = n /\ t.to = n + k
  <2>1. n + k \in Nat
    OBVIOUS
  <2>. QED  BY <2>1 DEF Taken
<1>2. /\ given' = Append(given, t) /\ given' \in Seq(Taken) /\ Len(given') = m + 1
      /\ given'[m + 1] = t /\ \A i \in 1 .. m : given'[i] = given[i]
      /\ given' # <<>>
  BY <1>1
<1>3. given = <<>> <=> m = 0
  BY <1>1
<1>4. n + k # 0
  OBVIOUS
<1>5. given'[1].from = 0
  <2>1. CASE m = 0
    BY <2>1, <1>1, <1>2, <1>3 DEF IsTaken
  <2>2. CASE m # 0
    BY <2>2, <1>2, <1>3 DEF IsTaken
  <2>. QED  BY <2>1, <2>2
<1>6. ASSUME NEW i \in 2 .. m + 1
      PROVE  /\ given'[i].from = given'[i - 1].to
             /\ given'[i].conn = given'[i - 1].conn
  <2>1. CASE i = m + 1
    <3>0. m + 1 >= 2 /\ i - 1 = m
      BY <2>1
    <3>1. m # 0 /\ i - 1 = m /\ m \in 1 .. m
      BY <3>0
    <3>2. given'[i] = t /\ given'[i - 1] = given[m]
      BY <2>1, <3>1, <1>2
    <3>3. given[m].to = n /\ given[m].conn = c
      BY <3>1, <1>1, <1>3 DEF IsTaken
    <3>. QED  BY <3>2, <3>3, <1>1
  <2>2. CASE i \in 2 .. m
    <3>1. i - 1 \in 1 .. m /\ i \in 1 .. m /\ m # 0
      BY <2>2
    <3>2. given'[i] = given[i] /\ given'[i - 1] = given[i - 1]
      BY <3>1, <1>2
    <3>3. given[i].from = given[i - 1].to /\ given[i].conn = given[i - 1].conn
      BY <2>2, <3>1, <1>1, <1>3 DEF IsTaken
    <3>. QED  BY <3>2, <3>3
  <2>3. i = m + 1 \/ i \in 2 .. m
    OBVIOUS
  <2>. QED  BY <2>1, <2>2, <2>3
<1>7. IsTaken(n + k)'
  BY <1>1, <1>2, <1>4, <1>5, <1>6 DEF IsTaken
<1>. QED  BY <1>1, <1>2, <1>7

\* What the poller keeps while the thread of the user does nothing and no command
\* is carried out.
LEMMA CallsKeepPoller ==
    ASSUME CallsInv, PollerInv, GoesOn, UNCHANGED <<program, pollerVars>>
    PROVE  PollerInv'
<1>. USE DEF PollerInv
<1>1. PICK h \in SlotIds : h = m_id /\ h = m_id'
  BY DEF PollerTypeOK, pollerVars
<1>2. /\ PollerTypeOK' /\ TurnsAreKept'
  BY DEF PollerTypeOK, TurnsAreKept, pollerVars
<1>3. ASSUME NEW n, IsTaken(n)
      PROVE  IsTaken(n)'
  BY <1>3 DEF IsTaken, pollerVars
<1>4. IsOver(h) => IsOver(h)'
  BY OverStays
<1>5. RoundsAreSound'
  <2>1. closing => handle'[h].state = "Connected" \/ IsOver(h)'
    BY <1>1, <1>4, ConnectedGoesOn DEF RoundsAreSound
  <2>2. closing' => handle'[m_id'].state = "Connected" \/ IsOver(m_id)'
    BY <1>1, <2>1 DEF IsOver, pollerVars
  <2>3. ASSUME m_action = "Write"
        PROVE  /\ off' < length' /\ IsTaken(off)'
               /\ given' # <<>> =>
                    SlotOf(m_id)' \in SlotIds /\ given'[Len(given')].conn = Owner(m_id)'
    <3>1. off < length /\ IsTaken(off)
      BY <2>3 DEF RoundsAreSound
    <3>2. IsTaken(off)'
      BY <3>1 DEF IsTaken, pollerVars
    <3>3. SlotOf(m_id)' = SlotOf(m_id)
          /\ (SlotOf(m_id) \in SlotIds => Owner(m_id)' = Owner(m_id))
      BY <1>1 DEF GoesOn, SlotOf, Owner
    <3>. QED  BY <2>3, <3>1, <3>2, <3>3 DEF RoundsAreSound, pollerVars
  <2>4. m_action' # "Close" => ~ closing'
    BY DEF RoundsAreSound, pollerVars
  <2>5. m_action' # "Write" => off' = 0
    BY DEF RoundsAreSound, pollerVars
  <2>6. m_action' = m_action
    BY DEF pollerVars
  <2>. QED  BY <2>2, <2>3, <2>4, <2>5, <2>6 DEF RoundsAreSound
<1>6. AnswersAreKept'
  <2>1. Says("Write")' => length' # 0 /\ IsTaken(length)'
    <3>1. IsTaken(length) => IsTaken(length)'
      BY DEF IsTaken, pollerVars
    <3>. QED  BY <3>1 DEF AnswersAreKept, Says, pollerVars
  <2>2. Says("Close")' => IsOver(m_id)'
    <3>1. Says("Close")' => IsOver(h)
      BY <1>1 DEF AnswersAreKept, Says, pollerVars
    <3>. QED  BY <1>1, <1>4, <3>1 DEF IsOver
  <2>. QED  BY <2>1, <2>2 DEF AnswersAreKept
<1>. QED  BY <1>2, <1>5, <1>6

\* Nothing of the poller counts as long as its user waits for nothing.
LEMMA IdlePoller ==
    ASSUME PollerInv, UNCHANGED <<program, pollerVars>>, user = "idle"
    PROVE  PollerInv'
<1>. USE DEF PollerInv
<1>1. m_action = "None" /\ closing = FALSE /\ off = 0
  BY DEF TurnsAreKept, RoundsAreSound, PollerTypeOK
<1>2. PollerTypeOK' /\ TurnsAreKept'
  BY DEF PollerTypeOK, TurnsAreKept, pollerVars
<1>3. RoundsAreSound'
  BY <1>1 DEF RoundsAreSound, pollerVars
<1>4. AnswersAreKept'
  BY DEF AnswersAreKept, Says, pollerVars
<1>. QED  BY <1>2, <1>3, <1>4

\* The user asks for something.
LEMMA AskKeeps ==
    ASSUME PollerInv, program = "poller", UNCHANGED program,
           NEW h \in SlotIds, NEW action \in {"Connect", "Close", "Info", "Write"},
           Ask(action, h), length' \in Nat, action = "Write" => length' # 0
    PROVE  PollerInv'
<1>. USE DEF PollerInv
<1>1. m_action = "None" /\ closing = FALSE /\ off = 0
  BY DEF Ask, TurnsAreKept, RoundsAreSound, PollerTypeOK
<1>2. /\ m_action' = action /\ call' = action /\ m_id' = h /\ user' = "waiting"
      /\ given' = <<>> /\ off' = 0 /\ closing' = FALSE /\ ids' = ids
  BY <1>1 DEF Ask
<1>3. PollerTypeOK'
  <2>1. given' \in Seq(Taken)
    BY <1>2, EmptySeq
  <2>. QED  BY <1>2, <2>1 DEF PollerTypeOK, Actions
<1>4. TurnsAreKept'
  BY <1>2 DEF TurnsAreKept
<1>5. RoundsAreSound'
  BY <1>2 DEF RoundsAreSound, IsTaken
<1>6. AnswersAreKept'
  BY <1>2 DEF AnswersAreKept, Says
<1>. QED  BY <1>3, <1>4, <1>5, <1>6

LEMMA UserReturnsKeeps ==
    ASSUME PollerInv, ~ Spurious, program = "poller", UNCHANGED program, UserReturns
    PROVE  PollerInv'
<1>. USE DEF PollerInv
<1>1. user = "woken" /\ m_action = "None" /\ closing = FALSE /\ off = 0
  BY DEF UserReturns, TurnsAreKept, RoundsAreSound, PollerTypeOK
<1>2. UNCHANGED <<m_id, m_status, length, off, closing, given>>
  BY DEF UserReturns
<1>3. CASE call = "Connect" /\ m_status = "OperationInProgress"
  <2>1. m_action' = "Connect" /\ user' = "waiting" /\ UNCHANGED <<ids, call>>
    BY <1>3 DEF UserReturns
  <2>. QED  BY <1>1, <1>2, <1>3, <2>1
            DEF PollerTypeOK, Actions, TurnsAreKept, RoundsAreSound, AnswersAreKept, Says
<1>4. CASE ~ (call = "Connect" /\ m_status = "OperationInProgress")
  <2>1. user' = "idle" /\ call' = "None" /\ m_action' = "None"
    BY <1>1, <1>4 DEF UserReturns
  <2>2. ids' \subseteq SlotIds
    <3>1. ids' \in {ids, ids \cup {m_id}, ids \ {m_id}}
      BY <1>4 DEF UserReturns
    <3>. QED  BY <3>1 DEF PollerTypeOK
  <2>. QED  BY <1>1, <1>2, <2>1, <2>2
            DEF PollerTypeOK, Actions, TurnsAreKept, RoundsAreSound, AnswersAreKept, Says
<1>. QED  BY <1>3, <1>4

\* The command is answered.
LEMMA SignalKeeps ==
    ASSUME PollerInv, program = "poller", UNCHANGED <<program, m_id, length, call, ids>>,
           m_action # "None", NEW st, Signal(st),
           off' = 0, closing' = FALSE, given' \in Seq(Taken),
           st = "Ok" /\ call = "Write" => length # 0 /\ IsTaken(length)',
           st = "Ok" /\ call = "Close" => IsOver(m_id)'
    PROVE  PollerInv'
<1>. USE DEF PollerInv
<1>1. user = "waiting"
  BY DEF TurnsAreKept, PollerTypeOK
<1>2. m_action' = "None" /\ m_status' = st /\ user' = "woken"
  BY <1>1 DEF Signal
<1>3. PollerTypeOK'
  BY <1>2 DEF PollerTypeOK, Actions
<1>4. TurnsAreKept' /\ RoundsAreSound'
  BY <1>2 DEF TurnsAreKept, RoundsAreSound
<1>5. AnswersAreKept'
  BY <1>2 DEF AnswersAreKept, Says
<1>. QED  BY <1>3, <1>4, <1>5

LEMMA Commanded ==
    ASSUME PollerInv, m_action # "None"
    PROVE  call = m_action /\ user = "waiting" /\ m_id \in SlotIds
BY DEF PollerInv, TurnsAreKept, PollerTypeOK

LEMMA DoConnectKeeps ==
    ASSUME PollerInv, program = "poller", UNCHANGED program, DoConnect
    PROVE  PollerInv'
<1>1. m_action = "Connect" /\ call = "Connect"
  BY Commanded DEF DoConnect
<1>2. PICK st : Signal(st)
  BY DEF DoConnect
<1>3. UNCHANGED <<m_id, length, off, closing, call, ids, given>>
  BY DEF DoConnect
<1>4. off = 0 /\ closing = FALSE /\ given \in Seq(Taken)
  BY <1>1 DEF PollerInv, RoundsAreSound, PollerTypeOK
<1>. QED  BY <1>1, <1>2, <1>3, <1>4, SignalKeeps

LEMMA DoInfoKeeps ==
    ASSUME PollerInv, program = "poller", UNCHANGED program, DoInfo
    PROVE  PollerInv'
<1>1. m_action = "Info" /\ call = "Info"
  BY Commanded DEF DoInfo
<1>2. PICK st : Signal(st)
  BY DEF DoInfo
<1>3. UNCHANGED <<m_id, length, off, closing, call, ids, given>>
  BY DEF DoInfo
<1>4. off = 0 /\ closing = FALSE /\ given \in Seq(Taken)
  BY <1>1 DEF PollerInv, RoundsAreSound, PollerTypeOK
<1>. QED  BY <1>1, <1>2, <1>3, <1>4, SignalKeeps

LEMMA DoCloseKeeps ==
    ASSUME PollerInv, program = "poller", UNCHANGED program, DoClose
    PROVE  PollerInv'
<1>1. m_action = "Close" /\ call = "Close" /\ user = "waiting" /\ m_id \in SlotIds
  BY Commanded DEF DoClose
<1>2. UNCHANGED <<m_id, length, off, call, ids, given>>
  BY DEF DoClose
<1>3. off = 0 /\ given \in Seq(Taken) /\ closing \in BOOLEAN
  BY <1>1 DEF PollerInv, RoundsAreSound, PollerTypeOK
<1>4. CASE closing /\ IsClosed(m_id) /\ closing' = FALSE /\ Signal("Ok") /\ UNCHANGED apiVars
  <2>1. IsOver(m_id)
    BY <1>4 DEF PollerInv, RoundsAreSound, IsClosed
  <2>2. IsOver(m_id)'
    BY <1>2, <1>4, <2>1 DEF IsOver, apiVars, clientVars
  <2>. QED  BY <1>1, <1>2, <1>3, <1>4, <2>2, SignalKeeps
<1>5. CASE /\ ~ closing /\ CloseReturns(m_id, "Ok")
           /\ m_status' = "Ok" /\ closing' = TRUE /\ UNCHANGED <<m_action, user>>
  <2>1. handle'[m_id].state = "Connected" /\ m_id' = m_id
    BY <1>2, <1>5 DEF CloseReturns, Close, clientVars
  <2>2. UNCHANGED <<m_action, user, call, m_id, length, off, given, ids, program>>
    BY <1>2, <1>5
  <2>. QED  BY <1>1, <1>3, <1>5, <2>1, <2>2
            DEF PollerInv, PollerTypeOK, TurnsAreKept, RoundsAreSound, AnswersAreKept, Says
<1>6. CASE ~ closing /\ Signal("NotConnected") /\ UNCHANGED closing
  BY <1>1, <1>2, <1>3, <1>6, SignalKeeps
<1>. QED  BY <1>4, <1>5, <1>6 DEF DoClose

LEMMA DoWriteKeeps ==
    ASSUME CallsInv, PollerInv, program = "poller", UNCHANGED program, DoWrite
    PROVE  PollerInv'
<1>1. m_action = "Write" /\ call = "Write" /\ user = "waiting" /\ m_id \in SlotIds
  BY Commanded DEF DoWrite
<1>2. UNCHANGED apiVars /\ UNCHANGED <<m_id, length, closing, call, ids>>
  BY DEF DoWrite
<1>3. /\ off \in Nat /\ length \in Nat /\ off < length /\ IsTaken(off) /\ closing = FALSE
      /\ given \in Seq(Taken)
      /\ given # <<>> => SlotOf(m_id) \in SlotIds /\ given[Len(given)].conn = Owner(m_id)
  BY <1>1 DEF PollerInv, RoundsAreSound, PollerTypeOK
<1>4. CASE Fails
  BY <1>1, <1>2, <1>3, <1>4, SignalKeeps DEF Fails
<1>5. CASE ~ Fails
  <2>1. /\ IsEstablished(m_id)
        /\ \E n \in 1 .. length - off :
                /\ Took(n)
                /\ \/ off + n < length /\ off' = off + n
                                       /\ m_status' = "Ok" /\ UNCHANGED <<m_action, user>>
                   \/ off + n = length /\ off' = 0 /\ Signal("Ok")
                   \/ off' = 0 /\ Signal("HardwareError")
    BY <1>5 DEF DoWrite
  <2>2. SlotOf(m_id) \in SlotIds
    BY <1>1, <2>1 DEF IsEstablished, SlotOf, CallsInv, CallsTypeOK
  <2>3. PICK c \in Nat : c = Owner(m_id)
    BY <2>2 DEF Owner, CallsInv, CallsTypeOK
  <2>4. PICK n \in 1 .. length - off :
                /\ Took(n)
                /\ \/ off + n < length /\ off' = off + n
                                       /\ m_status' = "Ok" /\ UNCHANGED <<m_action, user>>
                   \/ off + n = length /\ off' = 0 /\ Signal("Ok")
                   \/ off' = 0 /\ Signal("HardwareError")
    BY <2>1
  <2>5. PICK k \in Nat \ {0}, o \in Nat : k = n /\ o = off
    BY <1>3
  <2>6. given' = Append(given, [conn |-> c, from |-> o, to |-> o + k])
    BY <2>3, <2>4, <2>5 DEF Took
  <2>7. given # <<>> => given[Len(given)].conn = c
    BY <1>3, <2>3
  <2>8. IsTaken(o)
    BY <1>3, <2>5
  <2>9. /\ given' \in Seq(Taken) /\ IsTaken(o + k)' /\ given' # <<>>
        /\ given'[Len(given')].conn = c
    BY <1>3, <2>6, <2>7, <2>8, TakenMore
  <2>10. CASE off + n < length /\ off' = off + n
              /\ m_status' = "Ok" /\ UNCHANGED <<m_action, user>>
    <3>1. off' = o + k /\ off' \in Nat /\ off' < length'
      BY <1>2, <2>5, <2>10
    <3>2. IsTaken(off)'
      BY <2>9, <3>1 DEF IsTaken
    <3>3. SlotOf(m_id)' \in SlotIds /\ Owner(m_id)' = c
      BY <1>2, <2>2, <2>3 DEF SlotOf, Owner, apiVars, clientVars
    <3>4. /\ UNCHANGED <<m_action, user, call, m_id, length, closing, ids, program>>
      BY <1>2, <2>10
    <3>5. PollerTypeOK'
      BY <2>9, <3>1, <3>4 DEF PollerInv, PollerTypeOK
    <3>6. TurnsAreKept'
      BY <3>4 DEF PollerInv, TurnsAreKept
    <3>7. RoundsAreSound'
      BY <1>1, <1>3, <2>9, <3>1, <3>2, <3>3, <3>4 DEF RoundsAreSound
    <3>8. AnswersAreKept'
      BY <1>1, <3>4 DEF AnswersAreKept, Says
    <3>. QED  BY <3>5, <3>6, <3>7, <3>8 DEF PollerInv
  <2>11. CASE off + n = length /\ off' = 0 /\ Signal("Ok")
    <3>1. length' = o + k /\ length # 0
      BY <1>2, <1>3, <2>5, <2>11
    <3>2. IsTaken(length)'
      BY <2>9, <3>1 DEF IsTaken
    <3>. QED  BY <1>1, <1>2, <1>3, <2>9, <2>11, <3>1, <3>2, SignalKeeps
  <2>12. CASE off' = 0 /\ Signal("HardwareError")
    BY <1>1, <1>2, <1>3, <2>9, <2>12, SignalKeeps
  <2>. QED  BY <2>4, <2>10, <2>11, <2>12
<1>. QED  BY <1>4, <1>5

LEMMA PollerKeeps ==
    ASSUME CallsInv, PollerInv, ~ Spurious, program = "poller", UNCHANGED program, PollerNext
    PROVE  CallsInv' /\ PollerInv'
<1>1. /\ m_id \in SlotIds /\ ids \subseteq SlotIds /\ length \in Nat
      /\ MaxLen \in Nat
  BY PollerAssumption DEF PollerInv, PollerTypeOK
<1>2. CASE UserConnects
  <2>1. PICK h \in SlotIds : Open(h) /\ Ask("Connect", h)
    BY <1>2 DEF UserConnects
  <2>2. length' \in Nat
    BY <1>1, <1>2 DEF UserConnects
  <2>. QED  BY <2>1, <2>2, OpenKeepsCalls, AskKeeps
<1>3. CASE UserCloses
  <2>1. PICK h \in SlotIds : Ask("Close", h)
    BY <1>1, <1>3 DEF UserCloses
  <2>2. length' \in Nat /\ UNCHANGED apiVars
    BY <1>1, <1>3 DEF UserCloses
  <2>. QED  BY <2>1, <2>2, NothingGoesOn, AskKeeps
<1>4. CASE UserLists
  <2>1. PICK h \in SlotIds : Ask("Info", h)
    BY <1>1, <1>4 DEF UserLists
  <2>2. length' \in Nat /\ UNCHANGED apiVars
    BY <1>1, <1>4 DEF UserLists
  <2>. QED  BY <2>1, <2>2, NothingGoesOn, AskKeeps
<1>5. CASE UserWrites
  <2>1. PICK h \in SlotIds : Ask("Write", h)
    BY <1>1, <1>5 DEF UserWrites
  <2>2. length' \in Nat /\ length' # 0 /\ UNCHANGED apiVars
    BY <1>1, <1>5 DEF UserWrites
  <2>. QED  BY <2>1, <2>2, NothingGoesOn, AskKeeps
<1>6. CASE UserReturns
  <2>1. UNCHANGED apiVars
    BY <1>6 DEF UserReturns
  <2>. QED  BY <1>6, <2>1, NothingGoesOn, UserReturnsKeeps
<1>7. CASE DoConnect
  <2>1. \E st : ConnectReturns(m_id, st)
    BY <1>7 DEF DoConnect
  <2>. QED  BY <1>1, <1>7, <2>1, ConnectReturnsKeeps, DoConnectKeeps
<1>8. CASE DoClose
  <2>1. UNCHANGED apiVars \/ \E st : CloseReturns(m_id, st)
    BY <1>8 DEF DoClose
  <2>. QED  BY <1>1, <1>8, <2>1, NothingGoesOn, CloseReturnsKeeps, DoCloseKeeps
<1>9. CASE DoInfo
  <2>1. UNCHANGED apiVars
    BY <1>9 DEF DoInfo
  <2>. QED  BY <1>9, <2>1, NothingGoesOn, DoInfoKeeps
<1>10. CASE DoWrite
  <2>1. UNCHANGED apiVars
    BY <1>10 DEF DoWrite
  <2>. QED  BY <1>10, <2>1, NothingGoesOn, DoWriteKeeps
<1>11. CASE CallsNext /\ UNCHANGED pollerVars
  BY <1>11, CallsGoOn, GoingOnKeeps, CallsKeepPoller
<1>. QED  BY <1>2, <1>3, <1>4, <1>5, <1>6, <1>7, <1>8, <1>9, <1>10, <1>11 DEF PollerNext, Checks

LEMMA LatencyKeepsCalls ==
    ASSUME CallsInv, LatencyNext
    PROVE  CallsInv'
<1>1. Id \in SlotIds
  BY SlotsAssumption DEF Id, SlotIds
<1>2. CASE Opens
  BY <1>1, <1>2, OpenKeepsCalls DEF Opens
<1>3. CASE Connects
  <2>1. \E st : ConnectReturns(Id, st)
    BY <1>3 DEF Connects
  <2>. QED  BY <1>1, <2>1, ConnectReturnsKeeps
<1>4. CASE Stops \/ Finishes
  <2>1. \E st : CloseReturns(Id, st)
    BY <1>4 DEF Stops, Finishes
  <2>. QED  BY <1>1, <2>1, CloseReturnsKeeps
<1>5. CASE CallsNext
  BY <1>5, CallsGoOn, GoingOnKeeps
<1>6. CASE SendFails \/ Sends \/ WaitsInVain \/ Interrupt \/ Delivers \/ Flushes \/ ServerStops
  <2>1. UNCHANGED apiVars
    BY <1>6 DEF SendFails, Sends, WaitsInVain, Interrupt, Delivers, Flushes, ServerStops
  <2>. QED  BY <2>1, NothingGoesOn
<1>. QED  BY <1>2, <1>3, <1>4, <1>5, <1>6 DEF LatencyNext, Turn

LEMMA PollerStarts == ASSUME AppsInit PROVE PollerInv
<1>1. 0 \in SlotIds
  BY SlotsAssumption DEF SlotIds
<1>2. program \in {"poller", "latency"}
  BY AppsAssumption DEF AppsInit
<1>3. given = <<>> /\ given \in Seq(Taken)
  BY EmptySeq DEF AppsInit, PollerInit
<1>. QED  BY <1>1, <1>2, <1>3
          DEF AppsInit, PollerInit, PollerInv, PollerTypeOK, Actions, TurnsAreKept, RoundsAreSound,
              AnswersAreKept, Says

-----------------------------------------------------------------------------
(***************************************************************************)
(* The theorems.                                                           *)
(***************************************************************************)

\* The server of the latency test is given the messages in order, whole and once,
\* however the stack cuts them and at whatever offset a call resumes, and counts no
\* error where a message is a segment.
THEOREM MessagesStayInOrder == AppsSpec => []MessagesInOrder
<1>1. AppsInit => LatencyInv
  BY LatencyStarts DEF AppsInit
<1>2. LatencyInv /\ [AppsNext]_appsVars => LatencyInv'
  <2>. SUFFICES ASSUME LatencyInv, [AppsNext]_appsVars
                PROVE  LatencyInv'
    OBVIOUS
  <2>1. LatencyNext \/ UNCHANGED latencyVars
    BY DEF AppsNext, appsVars
  <2>2. CASE UNCHANGED latencyVars
    BY <2>2, StreamKept DEF latencyVars
  <2>. QED  BY <2>1, <2>2, LatencyKeeps
<1>3. LatencyInv => MessagesInOrder
  BY MessagesAreInOrder
<1>. QED  BY <1>1, <1>2, <1>3, PTL DEF AppsSpec

\* The two threads of the client tool, and the handles that the commands name.
THEOREM PollerInvariant ==
    ASSUME ~ Spurious
    PROVE  AppsSpec => [](CallsInv /\ PollerInv)
<1>1. AppsInit => CallsInv /\ PollerInv
  BY CallsStart, PollerStarts DEF AppsInit
<1>2. CallsInv /\ PollerInv /\ [AppsNext]_appsVars => CallsInv' /\ PollerInv'
  <2>. SUFFICES ASSUME CallsInv, PollerInv, [AppsNext]_appsVars
                PROVE  CallsInv' /\ PollerInv'
    OBVIOUS
  <2>1. CASE program = "poller" /\ PollerNext /\ UNCHANGED program
    BY <2>1, PollerKeeps
  <2>2. CASE program = "latency" /\ LatencyNext /\ UNCHANGED <<program, pollerVars>>
    <3>1. user = "idle"
      BY <2>2 DEF PollerInv, TurnsAreKept
    <3>. QED  BY <2>2, <3>1, LatencyKeepsCalls, IdlePoller
  <2>3. CASE UNCHANGED appsVars
    <3>1. CallsInv'
      BY <2>3, NothingGoesOn DEF appsVars
    <3>2. PollerInv'
      <4>1. UNCHANGED <<program, apiVars, pollerVars>>
        BY <2>3 DEF appsVars
      <4>. QED  BY <4>1 DEF apiVars, clientVars, pollerVars, PollerInv, PollerTypeOK,
                            TurnsAreKept, RoundsAreSound, AnswersAreKept, Says, IsTaken, IsOver,
                            SlotOf, Owner
    <3>. QED  BY <3>1, <3>2
  <2>. QED  BY <2>1, <2>2, <2>3 DEF AppsNext
<1>. QED  BY <1>1, <1>2, PTL DEF AppsSpec

\* A write that is answered with Ok was taken whole and by one connection, and a
\* close that is answered with Ok left the connection past its end: for every run in
\* which the thread of the user wakes up on signals alone.
THEOREM AnswersStayTrue ==
    ASSUME ~ Spurious
    PROVE  AppsSpec => []AnswersAreTrue
<1>1. CallsInv /\ PollerInv => AnswersAreTrue
  <2>. SUFFICES ASSUME CallsInv, PollerInv
                PROVE  WriteIsWhole /\ CloseIsDone
    BY DEF AnswersAreTrue
  <2>1. WriteIsWhole
    BY DEF PollerInv, AnswersAreKept, IsTaken, WriteIsWhole
  <2>2. CloseIsDone
    BY DEF PollerInv, AnswersAreKept, IsOver, Ending, CloseIsDone
  <2>. QED  BY <2>1, <2>2
<1>. QED  BY <1>1, PollerInvariant, PTL
=============================================================================
