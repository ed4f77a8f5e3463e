-------------------------- MODULE CtpSessionProofs --------------------------
(***************************************************************************)
(* CtpSession for every number of phones.  Types and the handling of every *)
(* departure hold whatever the phones do; the count, the release of every  *)
(* connection and the reset of the session hold as long as the phones keep *)
(* to the protocol.  Those follow from one inductive invariant, PoliteInv. *)
(***************************************************************************)
EXTENDS CtpSession, FiniteSetTheorems, TLAPS

USE DEF info, net

(* The initial session has its types. *)
LEMMA TypeAtStart == Init => TypeOK
<1> SUFFICES ASSUME Init PROVE TypeOK
  OBVIOUS
<1>1. conn \in [Clients -> {"free", "on", "gone", "leaked"}]
  BY DEF Init
<1>2. vrt \in BOOLEAN
  BY DEF Init
<1>3. access \subseteq Clients /\ num \in Nat /\ sync \subseteq Topics
  BY DEF Init
<1> QED
  BY <1>1, <1>2, <1>3 DEF Init, TypeOK

(* The session's fields keep their types. *)
THEOREM TypeCorrect == Spec => []TypeOK
<1>1. TypeOK /\ [Next]_vars => TypeOK'
  <2> SUFFICES ASSUME TypeOK, [Next]_vars PROVE TypeOK'
    OBVIOUS
  <2> USE DEF TypeOK, Topics
  <2>1. ASSUME NEW c \in Clients, Client(c) PROVE TypeOK'
    <3>1. CASE Connect(c)
      BY <3>1 DEF Connect
    <3>2. CASE Drop(c)
      BY <3>2 DEF Drop
    <3>3. CASE cmd_put_app_access(c)
      BY <3>3 DEF cmd_put_app_access
    <3>4. CASE cmd_put_open_rt_stream(c)
      BY <3>4 DEF cmd_put_open_rt_stream
    <3>5. CASE cmd_put_close_rt_stream(c)
      BY <3>5 DEF cmd_put_close_rt_stream, StreamOff
    <3>6. CASE cmd_put_ctp_cli_disconnect(c)
      <4>1. CASE NotLast(c)
        BY <3>6, <4>1 DEF cmd_put_ctp_cli_disconnect, NotLast, free_cli
      <4>2. CASE NotCounted(c)
        BY <3>6, <4>2 DEF cmd_put_ctp_cli_disconnect, NotCounted
      <4>3. CASE Last(c)
        BY <3>6, <4>3 DEF cmd_put_ctp_cli_disconnect, Last, free_cli, close_rt_stream, StreamOff
      <4> QED
        BY <3>6, <4>1, <4>2, <4>3 DEF cmd_put_ctp_cli_disconnect
    <3>7. CASE \E t \in Topics \ {"CTP_CLI_DISCONNECT"} : Ignored(c, t)
      BY <3>7 DEF Ignored
    <3> QED
      BY <2>1, <3>1, <3>2, <3>3, <3>4, <3>5, <3>6, <3>7 DEF Client
  <2>2. ASSUME NEW t \in Topics, Answered(t) PROVE TypeOK'
    BY <2>2 DEF Answered
  <2>3. CASE UNCHANGED vars
    BY <2>3 DEF vars
  <2> QED
    BY <2>1, <2>2, <2>3 DEF Next
<1> QED
  BY TypeAtStart, <1>1, PTL DEF Spec

(* No departure is dropped as a repeated command. *)
THEOREM DepartureTheorem == Spec => []DepartureTaken
<1>1. Init => DepartureTaken
  BY DEF Init, DepartureTaken
<1>2. DepartureTaken /\ [Next]_vars => DepartureTaken'
  BY DEF DepartureTaken, Next, vars, Client, Answered, Connect, Drop, Ignored,
     cmd_put_app_access, cmd_put_open_rt_stream, cmd_put_close_rt_stream,
     cmd_put_ctp_cli_disconnect, NotLast, NotCounted, Last
<1> QED
  BY <1>1, <1>2, PTL DEF Spec

-----------------------------------------------------------------------------
(* The session of polite phones. *)

\* The phones whose APP_ACCESS was executed are exactly counted, a phone
\* leaves only after that, and a remembered address is a phone's that has it
\* or a free slot's.
SessionInv ==
    /\ TypeOK
    /\ num = Cardinality(access)
    /\ \A c \in Clients : conn[c] # "leaked"
    /\ \A c \in Clients : conn[c] = "gone" => c \in access
    /\ \A c \in Clients : c \in access => conn[c] # "free"
    /\ dest # None /\ dest \notin access => conn[dest] = "free"
    /\ num = 0 => dest = None
    /\ num = 0 /\ cli # None => conn[cli] = "on"
    /\ vrt => num > 0 \/ \E c \in CtpClients : conn[c] = "on"
    /\ stream # None => vrt

\* The session as long as the phones keep to the protocol.
PoliteInv == ~rude => SessionInv

\* Facts on the count that the steps below use.
LEMMA CountFacts ==
    ASSUME TypeOK, num = Cardinality(access)
    PROVE  /\ IsFiniteSet(access)
           /\ num = 0 => access = {}
           /\ \A c \in Clients : c \in access => num > 0
           /\ \A c \in Clients : c \notin access => Cardinality(access \cup {c}) = num + 1
           /\ \A c \in Clients : c \in access => Cardinality(access \ {c}) = num - 1
           /\ \A c, d \in Clients : c \in access /\ d \in access /\ c # d => num > 1
<1>1. IsFiniteSet(access)
  BY ClientsAssumption, FS_Subset DEF TypeOK
<1>2. num = 0 => access = {}
  BY <1>1, FS_EmptySet
<1>3. ASSUME NEW c \in Clients, c \in access PROVE Cardinality(access \ {c}) = num - 1
  BY <1>1, <1>3, FS_RemoveElement
<1>4. ASSUME NEW c \in Clients, c \notin access PROVE Cardinality(access \cup {c}) = num + 1
  BY <1>1, <1>4, FS_AddElement
<1>5. ASSUME NEW c \in Clients, c \in access PROVE num > 0
  BY <1>2, <1>5 DEF TypeOK
<1>6. ASSUME NEW c \in Clients, NEW d \in Clients, c \in access, d \in access, c # d PROVE num > 1
  <2>1. IsFiniteSet(access \ {c})
    BY <1>1, FS_RemoveElement
  <2>2. Cardinality(access \ {c}) # 0
    BY <1>6, <2>1, FS_EmptySet
  <2> QED
    BY <1>3, <1>5, <1>6, <2>2 DEF TypeOK
<1> QED
  BY <1>1, <1>2, <1>3, <1>4, <1>5, <1>6

\* With no CTP connection counted, none is on.
LEMMA NoneOn ==
    ASSUME ctp_srv_get_cli_cnt # 0
    PROVE  \E c \in CtpClients : conn[c] = "on"
BY FS_EmptySet DEF ctp_srv_get_cli_cnt, On

LEMMA SessionStep ==
    ASSUME ~rude', SessionInv, [Next]_vars, TypeOK'
    PROVE  SessionInv'
<1> USE DEF SessionInv
<1>f. /\ num = 0 => access = {}
      /\ \A c \in Clients : c \in access => num > 0
      /\ \A c \in Clients : c \notin access => Cardinality(access \cup {c}) = num + 1
      /\ \A c \in Clients : c \in access => Cardinality(access \ {c}) = num - 1
      /\ \A c, d \in Clients : c \in access /\ d \in access /\ c # d => num > 1
  BY CountFacts
<1>a. CtpClients \subseteq Clients /\ None \notin Clients
  BY ClientsAssumption
<1> USE DEF TypeOK
<1>1. ASSUME NEW c \in Clients, Client(c) PROVE SessionInv'
  <2>1. CASE Connect(c)
    BY <1>f, <1>a, <2>1 DEF Connect
  <2>2. CASE Drop(c)
    <3>1. c \in access
      BY <2>2 DEF Drop
    <3>2. num > 0
      BY <1>f, <3>1
    <3> QED
      BY <1>a, <2>2, <3>1, <3>2 DEF Drop
  <2>3. CASE cmd_put_app_access(c)
    <3>1. c \notin access /\ conn[c] # "free" /\ num \in Nat
      BY <2>3 DEF cmd_put_app_access, Taken, Queued
    <3>2. c # dest
      BY <3>1, <1>a
    <3>3. num' = num + 1 /\ access' = access \cup {c} /\ num' > 0
      BY <2>3, <3>1, <3>2 DEF cmd_put_app_access
    <3>4. num' = Cardinality(access')
      BY <1>f, <3>1, <3>3
    <3>5. \/ conn' = [conn EXCEPT ![c] = "gone"] /\ dest' = dest
          \/ conn' = conn /\ dest' = c
      BY <2>3 DEF cmd_put_app_access
    <3>6. vrt' = vrt /\ stream' = stream
      BY <2>3 DEF cmd_put_app_access
    <3> QED
      BY <1>a, <3>1, <3>2, <3>3, <3>4, <3>5, <3>6
  <2>4. CASE cmd_put_open_rt_stream(c)
    <3>1. num > 0
      BY <1>f, <2>4 DEF cmd_put_open_rt_stream
    <3> QED
      BY <2>4, <3>1 DEF cmd_put_open_rt_stream
  <2>5. CASE cmd_put_close_rt_stream(c)
    <3>1. num > 0
      BY <1>f, <2>5 DEF cmd_put_close_rt_stream
    <3> QED
      BY <2>5, <3>1 DEF cmd_put_close_rt_stream, StreamOff
  <2>6. CASE cmd_put_ctp_cli_disconnect(c)
    <3>1. c \in access /\ conn[c] = "gone" /\ access' = access \ {c} /\ num > 0
      BY <1>f, <2>6 DEF cmd_put_ctp_cli_disconnect
    <3>2. CASE NotLast(c)
      BY <1>f, <1>a, <3>1, <3>2 DEF NotLast, free_cli
    <3>3. CASE Last(c)
      <4>1. access' = {} /\ num' = 0
        BY <1>f, <3>1, <3>3 DEF Last
      <4>2. /\ conn' = [conn EXCEPT ![c] = "free"]
            /\ dest' = None /\ cli' = None
        BY <3>3 DEF Last, free_cli
      <4>3. num' = Cardinality(access')
        BY <4>1, FS_EmptySet
      <4>4. \/ vrt' = FALSE /\ stream' = None
            \/ vrt' = vrt /\ stream' = stream /\ \E d \in CtpClients : conn[d] = "on"
        BY <3>3, NoneOn DEF Last, close_rt_stream, StreamOff
      <4>5. \A d \in Clients : conn'[d] = IF d = c THEN "free" ELSE conn[d]
        BY <4>2
      <4>6. vrt' => \E d \in CtpClients : conn'[d] = "on"
        BY <1>a, <3>1, <4>4, <4>5
      <4>7. \A d \in Clients : conn'[d] # "leaked" /\ conn'[d] # "gone"
        BY <1>f, <3>1, <3>3, <4>5 DEF Last
      <4> QED
        BY <4>1, <4>2, <4>3, <4>4, <4>6, <4>7
    <3> QED
      BY <2>6, <3>1, <3>2, <3>3 DEF cmd_put_ctp_cli_disconnect, NotCounted
  <2>7. CASE \E t \in Topics \ {"CTP_CLI_DISCONNECT"} : Ignored(c, t)
    <3>1. num = 0 => conn[c] = "on"
      BY <1>f, <2>7 DEF Ignored, Queued
    <3> QED
      BY <2>7, <3>1 DEF Ignored
  <2> QED
    BY <1>1, <2>1, <2>2, <2>3, <2>4, <2>5, <2>6, <2>7 DEF Client
<1>2. ASSUME NEW t \in Topics, Answered(t) PROVE SessionInv'
  BY <1>2 DEF Answered
<1>3. CASE UNCHANGED vars
  BY <1>3 DEF vars
<1> QED
  BY <1>1, <1>2, <1>3 DEF Next

(* No step of a phone that is rude makes it polite. *)
LEMMA RudeStays == TypeOK /\ [Next]_vars /\ ~rude' => ~rude
BY DEF TypeOK, Next, vars, Client, Answered, Connect, Drop, Ignored,
   cmd_put_app_access, cmd_put_open_rt_stream, cmd_put_close_rt_stream,
   cmd_put_ctp_cli_disconnect

LEMMA SessionInvariant == Spec => []PoliteInv
<1>1. Init => PoliteInv
  <2> SUFFICES ASSUME Init, TypeOK PROVE SessionInv
    BY TypeAtStart DEF PoliteInv
  <2>1. num = Cardinality(access)
    BY FS_EmptySet DEF Init
  <2>2. \A c \in Clients : conn[c] = "free"
    BY DEF Init
  <2> QED
    BY <2>1, <2>2 DEF Init, SessionInv
<1>2. TypeOK /\ PoliteInv /\ [Next]_vars /\ TypeOK' => PoliteInv'
  BY SessionStep, RudeStays DEF PoliteInv
<1> QED
  BY <1>1, <1>2, TypeCorrect, PTL DEF Spec

(* info.num counts exactly the phones whose departure is to come. *)
THEOREM CountTheorem == Spec => []CountsPhones
<1>1. PoliteInv => CountsPhones
  BY DEF PoliteInv, SessionInv, CountsPhones
<1> QED
  BY <1>1, SessionInvariant, PTL

(* Every connection record is released. *)
THEOREM FreedTheorem == Spec => []EveryLeaverFreed
<1>1. PoliteInv => EveryLeaverFreed
  BY DEF PoliteInv, SessionInv, EveryLeaverFreed
<1> QED
  BY <1>1, SessionInvariant, PTL

(* The last departure brings the session back to its initial state. *)
THEOREM IdleTheorem == Spec => []IdleIsReset
<1>1. PoliteInv => IdleIsReset
  <2> SUFFICES ASSUME SessionInv, \A c \in Clients : conn[c] = "free"
               PROVE  num = 0 /\ dest = None /\ cli = None /\ ~vrt /\ stream = None
    BY DEF IdleIsReset, PoliteInv
  <2>1. access = {}
    BY DEF SessionInv, TypeOK
  <2>2. num = 0
    BY <2>1, FS_EmptySet DEF SessionInv
  <2> QED
    BY <2>2, ClientsAssumption DEF SessionInv, TypeOK
<1> QED
  BY <1>1, SessionInvariant, PTL

(* A departure stops the stream only when no admitted phone is connected. *)
THEOREM KeepStreamTheorem == Spec => OthersKeepStream
<1>1. PoliteInv /\ [Next]_vars =>
        [\A c \in Clients : ~rude /\ vrt /\ ~vrt' /\ cmd_put_ctp_cli_disconnect(c) => On(access) = {}]_vars
  <2> SUFFICES ASSUME SessionInv, NEW c \in Clients,
                      vrt, ~vrt', cmd_put_ctp_cli_disconnect(c), NEW d \in On(access)
               PROVE  FALSE
    BY DEF On, PoliteInv
  <2>1. c \in access /\ conn[c] = "gone"
    BY DEF SessionInv, cmd_put_ctp_cli_disconnect
  <2>2. d \in access /\ d \in Clients /\ conn[d] = "on"
    BY DEF On, SessionInv, TypeOK
  <2>3. num > 1
    BY <2>1, <2>2, CountFacts DEF SessionInv
  <2>4. NotLast(c) \/ NotCounted(c) \/ Last(c)
    BY DEF cmd_put_ctp_cli_disconnect
  <2>5. num # 0 /\ num # 1
    BY <2>3
  <2>6. NotLast(c)
    BY <2>4, <2>5 DEF NotCounted, Last
  <2>7. vrt' = vrt
    BY <2>6 DEF NotLast
  <2> QED
    BY <2>7
<1> QED
  BY <1>1, SessionInvariant, PTL DEF Spec, OthersKeepStream

=============================================================================
