-------------------------- MODULE OmxCommandProofs --------------------------
(***************************************************************************)
(* Proofs about OmxCommand, for components with any number of ports.       *)
(***************************************************************************)
EXTENDS OmxCommand, NatSetInduction, SequenceTheorems

Executing == [cmd |-> "StateSet", param |-> "Executing"]

CommandOf(r) == [cmd |-> r.cmd, param |-> r.param]

\* In calls 1 to k, what is sent to component c has been waited for.
Waited(k, c) ==
  \E i \in 1..k :
    /\ Script[i].op = "wait1" /\ Script[i].comp = c
    /\ \A j \in i..k : ~(Script[j].op = "wait0" /\ Script[j].comp = c)

-----------------------------------------------------------------------------
(* What the proofs use of the script.  The first three are about any sequence of calls, so *)
(* that they can be proved of its parts.                                                   *)

\* No component is sent the same command twice,
SendsOnce(s) ==
  \A i, j \in 1..Len(s) :
    i < j /\ s[i].op = "wait0" /\ s[j].op = "wait0" /\ s[i].comp = s[j].comp
      => CommandOf(s[i]) # CommandOf(s[j])

\* a command that is waited for has been sent,
WaitsForSent(s) ==
  \A i \in 1..Len(s) :
    s[i].op = "wait1" =>
      \E j \in 1..(i - 1) : s[j].op = "wait0" /\ s[j].comp = s[i].comp
                            /\ CommandOf(s[j]) = CommandOf(s[i])

\* a component is set up before it is sent anything,
InitFirst(s) ==
  \A i, j \in 1..Len(s) :
    s[i].op = "wait0" /\ s[j].op = "init" /\ s[i].comp = s[j].comp => j < i

\* a component that is told to execute has been waited for, and that is waited for before it is
\* sent anything else.
ExecutesWaited ==
  \A j \in 1..Len(Script) :
    Script[j].op = "wait0" /\ CommandOf(Script[j]) = Executing
      => Waited(j - 1, Script[j].comp)

ExecutesOnly ==
  \A i, j \in 1..Len(Script) :
    i < j /\ Script[i].op = "wait0" /\ Script[j].op = "wait0" /\ Script[i].comp = Script[j].comp
          /\ CommandOf(Script[i]) = Executing
      => \E l \in 1..(j - 1) : Script[l].op = "wait1" /\ Script[l].comp = Script[j].comp
                               /\ CommandOf(Script[l]) = Executing

-----------------------------------------------------------------------------
(* The inductive invariant *)

Sending(c) == sending /\ call.comp = c

\* wait0 has recorded the command it is about to send.
SendingInv == sending => In("wait0") /\ slot[call.comp] = command

\* A command that is outstanding has been sent by a call before this one.
SentInv ==
  \A c \in Components : \A k \in 1..Len(outstanding[c]) :
    \E j \in 1..(next - 1) : Script[j].op = "wait0" /\ Script[j].comp = c
                             /\ outstanding[c][k] = CommandOf(Script[j])

DistinctInv ==
  \A c \in Components : \A k, l \in 1..Len(outstanding[c]) :
    outstanding[c][k] = outstanding[c][l] => k = l

\* In order, the command in the slot is the last to complete.
LastInv ==
  in_order => \A c \in Components :
    /\ slot[c] = NONE => outstanding[c] = <<>>
    /\ slot[c] # NONE /\ ~Sending(c) =>
         outstanding[c] # <<>> /\ slot[c] = outstanding[c][Len(outstanding[c])]

\* So that after a wait nothing is outstanding.
QuietInv ==
  in_order => \A c \in Components :
    Waited(next - 1, c) => outstanding[c] = <<>> /\ (~Sending(c) => slot[c] = NONE)

IInv == TypeOK /\ SlotIsOutstanding /\ SendingInv /\ SentInv /\ DistinctInv /\ LastInv /\ QuietInv
          /\ WaitedIsDone
-----------------------------------------------------------------------------
(* Sequences and the script *)

ScriptFacts ==
  SendsOnce(Script) /\ WaitsForSent(Script) /\ InitFirst(Script) /\ ExecutesWaited /\ ExecutesOnly

Calls == {r \in [op : {"init", "wait0", "wait1", "alloc"}, comp : Components, cmd : Cmds,
                 param : Params] : r.op = "alloc" => r.param \in {130, 201}}

\* A call that disables port p or waits for that.
Disabling(op, c, p) == [op |-> op, comp |-> c, cmd |-> "PortDisable", param |-> p]

LEMMA DisablingIsCall ==
  ASSUME NEW op \in {"wait0", "wait1"}, NEW c \in Components, NEW p \in Nat
  PROVE  Disabling(op, c, p) \in Calls
<1>1. p \in Params /\ "PortDisable" \in Cmds
  BY DEF Params, Cmds
<1> QED
  BY <1>1 DEF Calls, Disabling

\* r is s followed by t.
Joins(r, s, t) ==
  /\ Len(r) = Len(s) + Len(t)
  /\ \A j \in 1..Len(s) : r[j] = s[j]
  /\ \A j \in 1..Len(t) : r[Len(s) + j] = t[j]

LEMMA Joined ==
  ASSUME NEW S, NEW s \in Seq(S), NEW t \in Seq(S)
  PROVE  s \o t \in Seq(S) /\ Joins(s \o t, s, t)
<1>1. s \o t \in Seq(S) /\ Len(s \o t) = Len(s) + Len(t)
  OBVIOUS
<1>2. \A j \in 1..Len(s) : (s \o t)[j] = s[j]
  OBVIOUS
<1>3. \A j \in 1..Len(t) : (s \o t)[Len(s) + j] = t[j]
  OBVIOUS
<1> QED
  BY <1>1, <1>2, <1>3, Zenon DEF Joins

\* Two calls are added to a sequence.
LEMMA TwoMore ==
  ASSUME NEW S, NEW s \in Seq(S), NEW m \in Nat, Len(s) = m, NEW t \in Seq(S), Len(t) = 2
  PROVE  /\ s \o t \in Seq(S) /\ Len(s \o t) = m + 2
         /\ (s \o t)[m + 1] = t[1] /\ (s \o t)[m + 2] = t[2]
         /\ \A j \in 1..m : (s \o t)[j] = s[j]
<1>1. PICK r \in Seq(S) : r = s \o t /\ Joins(r, s, t)
  BY Joined, Zenon
<1>2. Len(r) = m + 2 /\ \A j \in 1..m : r[j] = s[j]
  BY <1>1 DEF Joins
<1>3. r[m + 1] = t[1] /\ r[m + 2] = t[2]
  BY <1>1 DEF Joins
<1> QED
  BY <1>1, <1>2, <1>3, Zenon

\* The ports of a component are disabled one after the other.
LEMMA PortsDisabled ==
  ASSUME NEW c \in Components
  PROVE  \E D \in Seq(Calls), l \in Nat :
           /\ D = omx_disable_all_ports(c) /\ l = Len(Ports[c]) /\ Len(D) = 2 * l
           /\ \A n \in 1..l : /\ D[2 * n - 1] = Disabling("wait0", c, Ports[c][n])
                              /\ D[2 * n] = Disabling("wait1", c, Ports[c][n])
<1> DEFINE l == Len(Ports[c])
           one(n) == omx_send_command_and_wait(c, "PortDisable", Ports[c][n])
           w == [n \in 1..l |-> one(n)]
           disable == CHOOSE disable :
             disable = [n \in 0..l |-> IF n = 0 THEN <<>> ELSE disable[n - 1] \o one(n)]
<1>1. l \in Nat /\ \A n \in 1..l : Ports[c][n] \in Nat
  BY PortsAssumption DEF Components
<1>2. ASSUME NEW n \in 1..l
      PROVE  /\ one(n) \in Seq(Calls) /\ Len(one(n)) = 2
             /\ one(n)[1] = Disabling("wait0", c, Ports[c][n])
             /\ one(n)[2] = Disabling("wait1", c, Ports[c][n])
  <2>1. PICK a \in Calls, b \in Calls : a = Disabling("wait0", c, Ports[c][n])
                                       /\ b = Disabling("wait1", c, Ports[c][n])
    BY <1>1, DisablingIsCall
  <2>2. one(n) = <<a>> \o <<b>>
    BY <2>1 DEF omx_send_command_and_wait, omx_send_command_and_wait0, omx_send_command_and_wait1,
       Call, Disabling
  <2> HIDE DEF one
  <2> QED
    BY <2>1, <2>2
<1>3. omx_disable_all_ports(c) = disable[l]
  BY DEF omx_disable_all_ports
<1> HIDE DEF l, one
<1>4. w \in [1..l -> Seq(Calls)] /\ \A n \in 1..l : w[n] = one(n)
  BY <1>2
<1> HIDE DEF w
<1>5. PICK f \in [0..l -> Seq(Calls)] : IsConcat(f, w, l)
  BY <1>1, <1>4, ConcatsExist
<1>6. f = [n \in 0..l |-> IF n = 0 THEN <<>> ELSE f[n - 1] \o one(n)]
  <2>1. f[0] = <<>> /\ \A n \in 1..l : f[n] = f[n - 1] \o one(n)
    BY <1>4, <1>5 DEF IsConcat
  <2>2. \A n \in 0..l : f[n] = IF n = 0 THEN <<>> ELSE f[n - 1] \o one(n)
    <3> TAKE n \in 0..l
    <3>1. n = 0 \/ n \in 1..l
      BY <1>1
    <3> QED
      BY <2>1, <3>1
  <2> QED
    BY <2>2
<1>7. disable = [n \in 0..l |-> IF n = 0 THEN <<>> ELSE disable[n - 1] \o one(n)]
  BY <1>6, Zenon
<1> HIDE DEF disable
<1>12. \A n \in 0..l : disable[n] = IF n = 0 THEN <<>> ELSE disable[n - 1] \o one(n)
  BY <1>7, Zenon
<1> DEFINE Right(D, k) ==
             /\ D \in Seq(Calls) /\ Len(D) = 2 * k
             /\ \A n \in 1..k : /\ D[2 * n - 1] = Disabling("wait0", c, Ports[c][n])
                                /\ D[2 * n] = Disabling("wait1", c, Ports[c][n])
           S == {k \in 0..l : Right(disable[k], k)}
<1>8. 0 \in S
  <2>1. disable[0] = <<>>
    BY <1>1, <1>12
  <2>2. Right(<<>>, 0)
    OBVIOUS
  <2> HIDE DEF Right
  <2> QED
    BY <1>1, <2>1, <2>2
<1>9. ASSUME NEW k \in 0..(l - 1), k \in S PROVE k + 1 \in S
  <2>1. k + 1 \in 1..l /\ k + 1 \in 0..l /\ k \in Nat /\ (k + 1) - 1 = k
    BY <1>1
  <2>2. disable[k + 1] = disable[k] \o one(k + 1)
    <3>1. PICK n \in 0..l : n = k + 1 /\ n # 0 /\ n - 1 = k
      BY <2>1
    <3>2. disable[n] = disable[n - 1] \o one(n)
      BY <1>12, <3>1
    <3> QED
      BY <3>1, <3>2
  <2>3. PICK D \in Seq(Calls) : D = disable[k] /\ Right(D, k)
    BY <1>9
  <2>4. PICK t \in Seq(Calls) : t = one(k + 1) /\ Len(t) = 2
                               /\ t[1] = Disabling("wait0", c, Ports[c][k + 1])
                               /\ t[2] = Disabling("wait1", c, Ports[c][k + 1])
    BY <1>2, <2>1
  <2>5. /\ D \o t \in Seq(Calls) /\ Len(D \o t) = 2 * k + 2
        /\ (D \o t)[2 * k + 1] = t[1] /\ (D \o t)[2 * k + 2] = t[2]
        /\ \A j \in 1..(2 * k) : (D \o t)[j] = D[j]
    <3>1. 2 * k \in Nat /\ Len(D) = 2 * k
      BY <2>1, <2>3
    <3> QED
      BY <2>4, <3>1, TwoMore
  <2>6. PICK E : E = D \o t
    OBVIOUS
  <2>7. ASSUME NEW n \in 1..(k + 1)
        PROVE  /\ E[2 * n - 1] = Disabling("wait0", c, Ports[c][n])
               /\ E[2 * n] = Disabling("wait1", c, Ports[c][n])
    <3>1. CASE n = k + 1
      <4>1. 2 * n - 1 = 2 * k + 1 /\ 2 * n = 2 * k + 2
        BY <2>1, <3>1
      <4> QED
        BY <2>4, <2>5, <2>6, <3>1, <4>1
    <3>2. CASE n # k + 1
      <4>1. n \in 1..k /\ 2 * n - 1 \in 1..(2 * k) /\ 2 * n \in 1..(2 * k)
        BY <2>1, <3>2
      <4> QED
        BY <2>3, <2>5, <2>6, <4>1
    <3> QED
      BY <3>1, <3>2
  <2>8. Right(E, k + 1)
    <3>1. 2 * (k + 1) = 2 * k + 2
      BY <2>1
    <3> QED
      BY <2>5, <2>6, <2>7, <3>1
  <2> HIDE DEF Right
  <2> QED
    BY <2>1, <2>2, <2>3, <2>4, <2>6, <2>8
<1> HIDE DEF S, Right
<1>10. \A k \in 0..l : k \in S
  <2>1. \A k \in 0..(l - 1) : k \in S => k + 1 \in S
    BY <1>9
  <2> QED
    BY <1>1, <1>8, <2>1, InductTo, Zenon
<1>11. Right(disable[l], l)
  BY <1>1, <1>10 DEF S
<1> QED
  BY <1>1, <1>3, <1>11 DEF Right, l

\* A part of the script that only sets up the components in C and disables their ports.
Disables(s, C) ==
  /\ s \in Seq(Calls)
  /\ \A i \in 1..Len(s) : /\ s[i].comp \in C /\ s[i].op # "alloc"
                          /\ s[i].op \in {"wait0", "wait1"} => s[i].cmd = "PortDisable"
  /\ SendsOnce(s) /\ WaitsForSent(s) /\ InitFirst(s)

LEMMA InitComponentDisables ==
  ASSUME NEW c \in Components
  PROVE  Disables(omx_init_component(c), {c})
<1>1. PICK D \in Seq(Calls), l \in Nat :
        /\ D = omx_disable_all_ports(c) /\ l = Len(Ports[c]) /\ Len(D) = 2 * l
        /\ \A n \in 1..l : /\ D[2 * n - 1] = Disabling("wait0", c, Ports[c][n])
                           /\ D[2 * n] = Disabling("wait1", c, Ports[c][n])
  BY PortsDisabled
<1>2. PICK x : x = [op |-> "init", comp |-> c, cmd |-> "GetHandle", param |-> 0]
  OBVIOUS
<1>3. x \in Calls
  <2>1. 0 \in Params /\ "GetHandle" \in Cmds
    BY DEF Params, Cmds
  <2> QED
    BY <1>2, <2>1 DEF Calls
<1>4. omx_init_component(c) = <<x>> \o D
  BY <1>1, <1>2 DEF omx_init_component, Call
<1>5. PICK h \in Seq(Calls), s \in Seq(Calls) :
        h = <<x>> /\ s = omx_init_component(c) /\ Joins(s, h, D)
  <2>3. <<x>> \in Seq(Calls)
    BY <1>3
  <2>1. PICK h \in Seq(Calls) : h = <<x>>
    BY <2>3, Zenon
  <2>2. h \o D \in Seq(Calls) /\ Joins(h \o D, h, D)
    BY Joined, Zenon
  <2> QED
    BY <1>4, <2>1, <2>2, Zenon
<1>6. /\ Len(s) = 1 + 2 * l /\ s[1] = x
      /\ \A j \in 1..(2 * l) : s[1 + j] = D[j]
  <2>1. Len(h) = 1 /\ h[1] = x /\ 1 \in 1..1
    BY <1>5
  <2> QED
    BY <1>1, <1>5, <2>1 DEF Joins
<1>7. ASSUME NEW n \in 1..l
      PROVE  /\ s[2 * n] = Disabling("wait0", c, Ports[c][n])
             /\ s[2 * n + 1] = Disabling("wait1", c, Ports[c][n])
             /\ 2 * n \in 1..(1 + 2 * l) /\ 2 * n + 1 \in 1..(1 + 2 * l)
  <2>1. /\ 2 * n - 1 \in 1..(2 * l) /\ 1 + (2 * n - 1) = 2 * n
        /\ 2 * n \in 1..(2 * l) /\ 1 + 2 * n = 2 * n + 1
    OBVIOUS
  <2> QED
    BY <1>1, <1>6, <2>1
<1>8. ASSUME NEW i \in 1..(1 + 2 * l), i # 1
      PROVE  \E n \in 1..l : i = 2 * n \/ i = 2 * n + 1
  <2>1. i = 2 * (i \div 2) \/ i = 2 * (i \div 2) + 1
    OBVIOUS
  <2>2. i \div 2 \in 1..l
    BY <1>8, <2>1
  <2> QED
    BY <2>1, <2>2
<1>9. ASSUME NEW i \in 1..(1 + 2 * l)
      PROVE  \/ i = 1 /\ s[i] = x
             \/ \E n \in 1..l : \/ i = 2 * n /\ s[i] = Disabling("wait0", c, Ports[c][n])
                                \/ i = 2 * n + 1 /\ s[i] = Disabling("wait1", c, Ports[c][n])
  <2>1. CASE i = 1
    BY <1>6, <2>1
  <2>2. CASE i # 1
    <3>1. PICK n \in 1..l : i = 2 * n \/ i = 2 * n + 1
      BY <1>8, <2>2
    <3> QED
      BY <1>7, <3>1
  <2> QED
    BY <2>1, <2>2
<1>10. \A op : \A p : /\ Disabling(op, c, p).op = op /\ Disabling(op, c, p).comp = c
                      /\ Disabling(op, c, p).cmd = "PortDisable" /\ Disabling(op, c, p).param = p
  BY DEF Disabling
<1>11. x.op = "init" /\ x.comp = c
  BY <1>2
<1>12. \A i \in 1..Len(s) : /\ s[i].comp \in {c} /\ s[i].op # "alloc"
                            /\ s[i].op \in {"wait0", "wait1"} => s[i].cmd = "PortDisable"
  <2> SUFFICES ASSUME NEW i \in 1..(1 + 2 * l)
               PROVE  /\ s[i].comp \in {c} /\ s[i].op # "alloc"
                      /\ s[i].op \in {"wait0", "wait1"} => s[i].cmd = "PortDisable"
    BY <1>6
  <2>1. s[i] = x \/ \E op \in {"wait0", "wait1"} : \E p : s[i] = Disabling(op, c, p)
    BY <1>9
  <2> QED
    BY <1>10, <1>11, <2>1
<1>13. ASSUME NEW i \in 1..(1 + 2 * l), s[i].op = "wait0"
       PROVE  \E n \in 1..l : i = 2 * n /\ s[i].param = Ports[c][n]
  <2>1. s[i] # x /\ \A p : s[i] # Disabling("wait1", c, p)
    BY <1>10, <1>11, <1>13
  <2>2. PICK n \in 1..l : i = 2 * n /\ s[i] = Disabling("wait0", c, Ports[c][n])
    BY <1>9, <2>1
  <2> QED
    BY <1>10, <2>2
<1>14. SendsOnce(s)
  <2> SUFFICES ASSUME NEW i \in 1..(1 + 2 * l), NEW j \in 1..(1 + 2 * l), i < j,
                      s[i].op = "wait0", s[j].op = "wait0", CommandOf(s[i]) = CommandOf(s[j])
               PROVE  FALSE
    BY <1>6 DEF SendsOnce
  <2>1. PICK m \in 1..l : i = 2 * m /\ s[i].param = Ports[c][m]
    BY <1>13
  <2>2. PICK n \in 1..l : j = 2 * n /\ s[j].param = Ports[c][n]
    BY <1>13
  <2>3. s[i].param = s[j].param
    BY DEF CommandOf
  <2>4. m = n
    BY <1>1, <2>1, <2>2, <2>3, PortsAssumption DEF Components
  <2> QED
    BY <2>1, <2>2, <2>4
<1>15. WaitsForSent(s)
  <2> SUFFICES ASSUME NEW i \in 1..(1 + 2 * l), s[i].op = "wait1"
               PROVE  \E j \in 1..(i - 1) : s[j].op = "wait0" /\ s[j].comp = s[i].comp
                                            /\ CommandOf(s[j]) = CommandOf(s[i])
    BY <1>6 DEF WaitsForSent
  <2>4. s[i] # x /\ \A p : s[i] # Disabling("wait0", c, p)
    BY <1>10, <1>11
  <2>1. PICK n \in 1..l : i = 2 * n + 1 /\ s[i] = Disabling("wait1", c, Ports[c][n])
    BY <1>9, <2>4
  <2>2. s[2 * n] = Disabling("wait0", c, Ports[c][n])
    BY <1>7
  <2>3. PICK j \in 1..(i - 1) : j = 2 * n
    BY <2>1
  <2>5. /\ s[j].op = "wait0" /\ s[j].comp = c /\ s[i].comp = c
        /\ s[j].cmd = s[i].cmd /\ s[j].param = s[i].param
    BY <1>10, <2>1, <2>2, <2>3
  <2> QED
    BY <2>5 DEF CommandOf
<1>16. InitFirst(s)
  <2> SUFFICES ASSUME NEW i \in 1..(1 + 2 * l), NEW j \in 1..(1 + 2 * l),
                      s[i].op = "wait0", s[j].op = "init"
               PROVE  j < i
    BY <1>6 DEF InitFirst
  <2>3. \A op \in {"wait0", "wait1"} : \A p : s[j] # Disabling(op, c, p)
    BY <1>10
  <2>1. j = 1
    BY <1>9, <2>3
  <2>2. PICK n \in 1..l : i = 2 * n
    BY <1>13
  <2> QED
    BY <2>1, <2>2
<1> QED
  BY <1>5, <1>12, <1>14, <1>15, <1>16 DEF Disables

LEMMA DisablesJoined ==
  ASSUME NEW A, NEW B, NEW s, NEW t, Disables(s, A), Disables(t, B), A \cap B = {}
  PROVE  Disables(s \o t, A \cup B)
<1>1. s \in Seq(Calls) /\ t \in Seq(Calls)
  BY DEF Disables
<1>2. PICK r \in Seq(Calls) : r = s \o t /\ Joins(r, s, t)
  BY <1>1, Joined
<1>3. PICK m \in Nat, n \in Nat : m = Len(s) /\ n = Len(t)
  BY <1>1
<1>4. Len(r) = m + n /\ (\A j \in 1..m : r[j] = s[j]) /\ \A j \in 1..n : r[m + j] = t[j]
  BY <1>2, <1>3 DEF Joins
<1>5. ASSUME NEW i \in 1..(m + n)
      PROVE  \/ i \in 1..m /\ r[i] = s[i]
             \/ \E k \in 1..n : i = m + k /\ r[i] = t[k]
  <2>1. CASE i <= m
    BY <1>4, <2>1
  <2>2. CASE ~(i <= m)
    <3>1. PICK k \in 1..n : i = m + k
      <4>1. i - m \in 1..n /\ i = m + (i - m)
        BY <2>2
      <4> QED
        BY <4>1
    <3> QED
      BY <1>4, <3>1
  <2> QED
    BY <2>1, <2>2
<1>6. /\ \A i \in 1..m : /\ s[i].comp \in A /\ s[i].op # "alloc"
                         /\ s[i].op \in {"wait0", "wait1"} => s[i].cmd = "PortDisable"
      /\ \A i \in 1..n : /\ t[i].comp \in B /\ t[i].op # "alloc"
                         /\ t[i].op \in {"wait0", "wait1"} => t[i].cmd = "PortDisable"
      /\ SendsOnce(s) /\ WaitsForSent(s) /\ InitFirst(s)
      /\ SendsOnce(t) /\ WaitsForSent(t) /\ InitFirst(t)
  BY <1>3 DEF Disables
<1>7. \A i \in 1..(m + n) : /\ r[i].comp \in A \cup B /\ r[i].op # "alloc"
                            /\ r[i].op \in {"wait0", "wait1"} => r[i].cmd = "PortDisable"
  BY <1>5, <1>6
\* Calls of the same component are in the same part.
<1>8. ASSUME NEW i \in 1..(m + n), NEW j \in 1..(m + n), r[i].comp = r[j].comp
      PROVE  \/ i \in 1..m /\ j \in 1..m /\ r[i] = s[i] /\ r[j] = s[j]
             \/ \E k, l \in 1..n : i = m + k /\ j = m + l /\ r[i] = t[k] /\ r[j] = t[l]
  BY <1>5, <1>6, <1>8
<1>9. SendsOnce(r)
  <2> SUFFICES ASSUME NEW i \in 1..(m + n), NEW j \in 1..(m + n), i < j,
                      r[i].op = "wait0", r[j].op = "wait0", r[i].comp = r[j].comp
               PROVE  CommandOf(r[i]) # CommandOf(r[j])
    BY <1>4 DEF SendsOnce
  <2>1. CASE i \in 1..m /\ j \in 1..m /\ r[i] = s[i] /\ r[j] = s[j]
    BY <1>3, <1>6, <2>1 DEF SendsOnce
  <2>2. CASE \E k, l \in 1..n : i = m + k /\ j = m + l /\ r[i] = t[k] /\ r[j] = t[l]
    <3>1. PICK k \in 1..n, l \in 1..n : i = m + k /\ j = m + l /\ r[i] = t[k] /\ r[j] = t[l]
      BY <2>2
    <3>2. k < l
      BY <3>1
    <3> QED
      BY <1>3, <1>6, <3>1, <3>2 DEF SendsOnce
  <2> QED
    BY <1>8, <2>1, <2>2
<1>10. InitFirst(r)
  <2> SUFFICES ASSUME NEW i \in 1..(m + n), NEW j \in 1..(m + n),
                      r[i].op = "wait0", r[j].op = "init", r[i].comp = r[j].comp
               PROVE  j < i
    BY <1>4 DEF InitFirst
  <2>1. CASE i \in 1..m /\ j \in 1..m /\ r[i] = s[i] /\ r[j] = s[j]
    BY <1>3, <1>6, <2>1 DEF InitFirst
  <2>2. CASE \E k, l \in 1..n : i = m + k /\ j = m + l /\ r[i] = t[k] /\ r[j] = t[l]
    <3>1. PICK k \in 1..n, l \in 1..n : i = m + k /\ j = m + l /\ r[i] = t[k] /\ r[j] = t[l]
      BY <2>2
    <3>2. l < k
      BY <1>3, <1>6, <3>1 DEF InitFirst
    <3> QED
      BY <3>1, <3>2
  <2> QED
    BY <1>8, <2>1, <2>2
<1>11. WaitsForSent(r)
  <2> SUFFICES ASSUME NEW i \in 1..(m + n), r[i].op = "wait1"
               PROVE  \E j \in 1..(i - 1) : r[j].op = "wait0" /\ r[j].comp = r[i].comp
                                            /\ CommandOf(r[j]) = CommandOf(r[i])
    BY <1>4 DEF WaitsForSent
  <2>1. CASE i \in 1..m /\ r[i] = s[i]
    <3>1. PICK j \in 1..(i - 1) : s[j].op = "wait0" /\ s[j].comp = s[i].comp
                                  /\ CommandOf(s[j]) = CommandOf(s[i])
      BY <1>3, <1>6, <2>1 DEF WaitsForSent
    <3>2. j \in 1..m
      BY <2>1
    <3> QED
      BY <1>4, <2>1, <3>1, <3>2
  <2>2. CASE \E k \in 1..n : i = m + k /\ r[i] = t[k]
    <3>1. PICK k \in 1..n : i = m + k /\ r[i] = t[k]
      BY <2>2
    <3>2. PICK l \in 1..(k - 1) : t[l].op = "wait0" /\ t[l].comp = t[k].comp
                                  /\ CommandOf(t[l]) = CommandOf(t[k])
      BY <1>3, <1>6, <3>1 DEF WaitsForSent
    <3>3. PICK j \in 1..(i - 1) : j = m + l /\ l \in 1..n
      BY <3>1
    <3>4. r[j] = t[l]
      BY <1>4, <3>3
    <3> QED
      BY <3>1, <3>2, <3>3, <3>4
  <2> QED
    BY <1>5, <2>1, <2>2
<1> QED
  BY <1>2, <1>4, <1>7, <1>9, <1>10, <1>11 DEF Disables

\* The calls after the components have been set up.
Later == <<
  Call("wait0", "video_decode", "StateSet", "Idle")[1],
  Call("wait1", "video_decode", "StateSet", "Idle")[1],
  Call("wait0", "image_fx", "StateSet", "Idle")[1],
  Call("wait1", "image_fx", "StateSet", "Idle")[1],
  Call("wait0", "video_decode", "PortEnable", 130)[1],
  Call("alloc", "video_decode", "UseBuffer", 130)[1],
  Call("wait1", "video_decode", "PortEnable", 130)[1],
  Call("wait0", "video_decode", "StateSet", "Executing")[1],
  Call("wait1", "video_decode", "StateSet", "Executing")[1],
  Call("wait0", "video_decode", "PortEnable", 131)[1],
  Call("wait1", "video_decode", "PortEnable", 131)[1],
  Call("wait0", "image_fx", "PortEnable", 190)[1],
  Call("wait1", "image_fx", "PortEnable", 190)[1],
  Call("wait0", "image_fx", "StateSet", "Executing")[1],
  Call("wait1", "image_fx", "StateSet", "Executing")[1],
  Call("wait0", "video_encode", "StateSet", "Idle")[1],
  Call("wait0", "video_encode", "PortEnable", 201)[1],
  Call("alloc", "video_encode", "UseBuffer", 201)[1],
  Call("wait1", "video_encode", "PortEnable", 201)[1],
  Call("wait1", "video_encode", "StateSet", "Idle")[1],
  Call("wait0", "image_fx", "PortEnable", 191)[1],
  Call("wait0", "video_encode", "PortEnable", 200)[1],
  Call("wait1", "video_encode", "PortEnable", 200)[1],
  Call("wait1", "image_fx", "PortEnable", 191)[1],
  Call("wait0", "video_encode", "StateSet", "Executing")[1],
  Call("wait1", "video_encode", "StateSet", "Executing")[1]>>

LEMMA LaterIsCalls == Later \in Seq(Calls) /\ Len(Later) = 26
BY DEF Later, Call, Calls, Cmds, Params, Components

LEMMA LaterOps ==
  /\ \A k \in 1..26 : Later[k].op = "wait0" => k \in {1, 3, 5, 8, 10, 12, 14, 16, 17, 21, 22, 25}
  /\ \A k \in 1..26 : Later[k].op = "wait1" => k \in {2, 4, 7, 9, 11, 13, 15, 19, 20, 23, 24, 26}
  /\ \A k \in 1..26 : Later[k].op # "init"
BY DEF Later, Call

\* What each component is sent, and in which order.
Is(k, j, cmd, param) == k = j /\ Later[k].cmd = cmd /\ Later[k].param = param

Sends(k) ==
  /\ Later[k].comp = "video_decode" =>
       \/ Is(k, 1, "StateSet", "Idle") \/ Is(k, 5, "PortEnable", 130)
       \/ Is(k, 8, "StateSet", "Executing") \/ Is(k, 10, "PortEnable", 131)
  /\ Later[k].comp = "image_fx" =>
       \/ Is(k, 3, "StateSet", "Idle") \/ Is(k, 12, "PortEnable", 190)
       \/ Is(k, 14, "StateSet", "Executing") \/ Is(k, 21, "PortEnable", 191)
  /\ Later[k].comp = "video_encode" =>
       \/ Is(k, 16, "StateSet", "Idle") \/ Is(k, 17, "PortEnable", 201)
       \/ Is(k, 22, "PortEnable", 200) \/ Is(k, 25, "StateSet", "Executing")
  /\ Later[k].comp \in {"video_decode", "image_fx", "video_encode"}
  /\ Later[k].cmd # "PortDisable"

LEMMA LaterSends ==
  ASSUME NEW k \in 1..26, Later[k].op = "wait0"
  PROVE  Sends(k)
BY LaterOps DEF Later, Call, Is, Sends

LEMMA LaterSendsOnce == SendsOnce(Later)
<1> SUFFICES ASSUME NEW i \in 1..26, NEW j \in 1..26, i < j, Later[i].op = "wait0",
                    Later[j].op = "wait0", Later[i].comp = Later[j].comp,
                    Later[i].cmd = Later[j].cmd, Later[i].param = Later[j].param
             PROVE  FALSE
  BY LaterIsCalls DEF SendsOnce, CommandOf
<1>1. Sends(i) /\ Sends(j)
  BY LaterSends
<1> QED
  BY <1>1 DEF Sends, Is

\* Call j sends what call k waits for.
Matches(k, j) ==
  Later[j].op = "wait0" /\ Later[j].comp = Later[k].comp /\ CommandOf(Later[j]) = CommandOf(Later[k])

LEMMA LaterMatches ==
  /\ Matches(2, 1) /\ Matches(4, 3) /\ Matches(7, 5) /\ Matches(9, 8) /\ Matches(11, 10)
  /\ Matches(13, 12) /\ Matches(15, 14) /\ Matches(19, 17) /\ Matches(20, 16)
  /\ Matches(23, 22) /\ Matches(24, 21) /\ Matches(26, 25)
BY DEF Later, Call, Matches, CommandOf

LEMMA LaterWaitsForSent == WaitsForSent(Later)
<1>1. ASSUME NEW k \in 1..26, Later[k].op = "wait1" PROVE \E j \in 1..(k - 1) : Matches(k, j)
  BY <1>1, LaterOps, LaterMatches
<1> QED
  BY <1>1, LaterIsCalls DEF WaitsForSent, Matches

\* A component is told to execute after a wait for it, and that is waited for.
LEMMA LaterExecutes ==
  ASSUME NEW k \in 1..26, Later[k].op = "wait0", CommandOf(Later[k]) = Executing
  PROVE  /\ \E i \in 1..(k - 1) :
              /\ Later[i].op = "wait1" /\ Later[i].comp = Later[k].comp
              /\ \A j \in i..(k - 1) : ~(Later[j].op = "wait0" /\ Later[j].comp = Later[k].comp)
         /\ \E l \in 1..26 :
              /\ l = k + 1 /\ Later[l].op = "wait1" /\ Later[l].comp = Later[k].comp
              /\ CommandOf(Later[l]) = Executing
<1>1. Later[k].cmd = "StateSet" /\ Later[k].param = "Executing" /\ Sends(k)
  BY LaterSends DEF CommandOf, Executing
<1>2. k \in {8, 14, 25}
  BY <1>1 DEF Sends, Is
<1>3. /\ Later[7].op = "wait1" /\ Later[7].comp = Later[8].comp
      /\ Later[9].op = "wait1" /\ Later[9].comp = Later[8].comp /\ CommandOf(Later[9]) = Executing
      /\ Later[13].op = "wait1" /\ Later[13].comp = Later[14].comp
      /\ Later[15].op = "wait1" /\ Later[15].comp = Later[14].comp /\ CommandOf(Later[15]) = Executing
      /\ Later[23].op = "wait1" /\ Later[23].comp = Later[25].comp /\ Later[24].op = "wait1"
      /\ Later[26].op = "wait1" /\ Later[26].comp = Later[25].comp /\ CommandOf(Later[26]) = Executing
  BY DEF Later, Call, CommandOf, Executing
<1>4. CASE k = 8
  <2>1. \A j \in 7..(k - 1) : j = 7
    BY <1>4
  <2> QED
    BY <1>3, <1>4, <2>1
<1>5. CASE k = 14
  <2>1. \A j \in 13..(k - 1) : j = 13
    BY <1>5
  <2> QED
    BY <1>3, <1>5, <2>1
<1>6. CASE k = 25
  <2>1. \A j \in 23..(k - 1) : j = 23 \/ j = 24
    BY <1>6
  <2> QED
    BY <1>3, <1>6, <2>1
<1> QED
  BY <1>2, <1>4, <1>5, <1>6

-----------------------------------------------------------------------------
(* The whole script *)

\* t is calls k + 1 to k + l of the tail.
Slice(t, k, l) ==
  t \in Seq(Calls) /\ Len(t) = l /\ \A j \in 1..l : t[j] = Later[k + j]

LEMMA SlicesJoined ==
  ASSUME NEW k \in Nat, NEW l \in Nat, NEW m \in Nat, NEW n \in Nat, NEW j \in Nat,
         NEW t, NEW u, Slice(t, k, l), Slice(u, j, m), j = k + l, n = l + m
  PROVE  Slice(t \o u, k, n)
<1>1. PICK r \in Seq(Calls) : r = t \o u /\ Joins(r, t, u)
  <2>1. t \in Seq(Calls) /\ u \in Seq(Calls)
    BY DEF Slice
  <2> QED
    BY <2>1, Joined
<1>2. /\ Len(r) = l + m /\ (\A i \in 1..l : r[i] = t[i]) /\ \A i \in 1..m : r[l + i] = u[i]
  BY <1>1 DEF Joins, Slice
<1>3. ASSUME NEW i \in 1..n PROVE r[i] = Later[k + i]
  <2>1. CASE i <= l
    BY <1>2, <2>1 DEF Slice
  <2>2. CASE ~(i <= l)
    <3>1. PICK h \in 1..m : i = l + h
      <4>1. i - l \in 1..m /\ i = l + (i - l)
        BY <2>2
      <4> QED
        BY <4>1
    <3>2. r[i] = u[h] /\ u[h] = Later[j + h] /\ j + h = k + i
      BY <1>2, <3>1 DEF Slice
    <3> QED
      BY <3>2
  <2> QED
    BY <2>1, <2>2
<1>4. Slice(r, k, n)
  BY <1>2, <1>3 DEF Slice
<1> QED
  BY <1>1, <1>4

\* The slices of one call.
LEMMA WaitSlices ==
  ASSUME NEW k \in Nat, NEW l \in Nat, k + 1 \in 1..26, l = k + 1,
         NEW c, NEW cmd, NEW param
  PROVE  /\ Later[l] = Call("wait0", c, cmd, param)[1]
              => Slice(omx_send_command_and_wait0(c, cmd, param), k, 1)
         /\ Later[l] = Call("wait1", c, cmd, param)[1]
              => Slice(omx_send_command_and_wait1(c, cmd, param), k, 1)
         /\ Later[l] = Call("alloc", c, "UseBuffer", param)[1]
              => Slice(omx_alloc_buffers(c, param), k, 1)
<1>1. PICK x \in Calls : x = Later[l]
  <2>1. l \in 1..Len(Later)
    BY LaterIsCalls
  <2>2. PICK T \in Seq(Calls) : T = Later
    BY LaterIsCalls
  <2>3. T[l] \in Calls
    BY <2>1, <2>2
  <2> QED
    BY <2>2, <2>3
<1>2. Slice(<<x>>, k, 1)
  <2>1. \A j \in 1..1 : <<x>>[j] = Later[k + j]
    BY <1>1
  <2>2. <<x>> \in Seq(Calls) /\ Len(<<x>>) = 1
    OBVIOUS
  <2> QED
    BY <2>1, <2>2 DEF Slice
<1>3. \A op, d : Call(op, c, d, param) = <<Call(op, c, d, param)[1]>>
  BY DEF Call
<1>4. ASSUME NEW op, NEW d, Later[l] = Call(op, c, d, param)[1]
      PROVE  Slice(Call(op, c, d, param), k, 1)
  BY <1>1, <1>2, <1>3, <1>4, Zenon
<1> QED
  BY <1>4, Zenon DEF omx_send_command_and_wait0, omx_send_command_and_wait1, omx_alloc_buffers

\* A command and the wait for it.
LEMMA PairSlice ==
  ASSUME NEW k \in Nat, NEW l \in Nat, l = k + 1, l + 1 \in 1..26, NEW c, NEW cmd, NEW param,
         Later[l] = Call("wait0", c, cmd, param)[1], Later[l + 1] = Call("wait1", c, cmd, param)[1]
  PROVE  Slice(omx_send_command_and_wait(c, cmd, param), k, 2)
<1>1. Slice(omx_send_command_and_wait0(c, cmd, param), k, 1)
  BY WaitSlices
<1>2. PICK m \in Nat : m = l + 1
  OBVIOUS
<1>3. Slice(omx_send_command_and_wait1(c, cmd, param), l, 1)
  BY <1>2, WaitSlices
<1> HIDE DEF Slice
<1>4. Slice(omx_send_command_and_wait0(c, cmd, param)
              \o omx_send_command_and_wait1(c, cmd, param), k, 2)
  <2>1. 2 = 1 + 1
    OBVIOUS
  <2> QED
    BY <1>1, <1>3, <2>1, SlicesJoined
<1> QED
  BY <1>4, Zenon DEF omx_send_command_and_wait

LEMMA DeinterlacerIs == Slice(configure_deinterlacer, 9, 6)
<1>1. Slice(omx_send_command_and_wait("video_decode", "PortEnable", 131), 9, 2)
  <2>1. /\ Later[10] = Call("wait0", "video_decode", "PortEnable", 131)[1]
        /\ Later[10 + 1] = Call("wait1", "video_decode", "PortEnable", 131)[1]
    BY DEF Later, Call
  <2> QED
    BY <2>1, PairSlice
<1>2. Slice(omx_send_command_and_wait("image_fx", "PortEnable", 190), 11, 2)
  <2>1. /\ Later[12] = Call("wait0", "image_fx", "PortEnable", 190)[1]
        /\ Later[12 + 1] = Call("wait1", "image_fx", "PortEnable", 190)[1]
    BY DEF Later, Call
  <2> QED
    BY <2>1, PairSlice
<1>3. Slice(omx_send_command_and_wait("image_fx", "StateSet", "Executing"), 13, 2)
  <2>1. /\ Later[14] = Call("wait0", "image_fx", "StateSet", "Executing")[1]
        /\ Later[14 + 1] = Call("wait1", "image_fx", "StateSet", "Executing")[1]
    BY DEF Later, Call
  <2> QED
    BY <2>1, PairSlice
<1>4. Slice(omx_send_command_and_wait("video_decode", "PortEnable", 131)
              \o omx_send_command_and_wait("image_fx", "PortEnable", 190), 9, 4)
  BY <1>1, <1>2, SlicesJoined
<1>5. Slice(omx_send_command_and_wait("video_decode", "PortEnable", 131)
              \o omx_send_command_and_wait("image_fx", "PortEnable", 190)
              \o omx_send_command_and_wait("image_fx", "StateSet", "Executing"), 9, 6)
  BY <1>3, <1>4, SlicesJoined
<1> QED
  BY <1>5, Zenon DEF configure_deinterlacer

LEMMA EncoderIs == Slice(configure_encoder, 15, 11)
<1>1. Slice(omx_send_command_and_wait0("video_encode", "StateSet", "Idle"), 15, 1)
  <2>1. Later[16] = Call("wait0", "video_encode", "StateSet", "Idle")[1]
    BY DEF Later, Call
  <2> QED
    BY <2>1, WaitSlices
<1>2. Slice(omx_send_command_and_wait0("video_encode", "PortEnable", 201), 16, 1)
  <2>1. Later[17] = Call("wait0", "video_encode", "PortEnable", 201)[1]
    BY DEF Later, Call
  <2> QED
    BY <2>1, WaitSlices
<1>3. Slice(omx_alloc_buffers("video_encode", 201), 17, 1)
  <2>1. Later[18] = Call("alloc", "video_encode", "UseBuffer", 201)[1]
    BY DEF Later, Call
  <2> QED
    BY <2>1, WaitSlices
<1>4. Slice(omx_send_command_and_wait1("video_encode", "PortEnable", 201), 18, 1)
  <2>1. Later[19] = Call("wait1", "video_encode", "PortEnable", 201)[1]
    BY DEF Later, Call
  <2> QED
    BY <2>1, WaitSlices
<1>5. Slice(omx_send_command_and_wait1("video_encode", "StateSet", "Idle"), 19, 1)
  <2>1. Later[20] = Call("wait1", "video_encode", "StateSet", "Idle")[1]
    BY DEF Later, Call
  <2> QED
    BY <2>1, WaitSlices
<1>6. Slice(omx_send_command_and_wait0("image_fx", "PortEnable", 191), 20, 1)
  <2>1. Later[21] = Call("wait0", "image_fx", "PortEnable", 191)[1]
    BY DEF Later, Call
  <2> QED
    BY <2>1, WaitSlices
<1>7. Slice(omx_send_command_and_wait0("video_encode", "PortEnable", 200), 21, 1)
  <2>1. Later[22] = Call("wait0", "video_encode", "PortEnable", 200)[1]
    BY DEF Later, Call
  <2> QED
    BY <2>1, WaitSlices
<1>8. Slice(omx_send_command_and_wait1("video_encode", "PortEnable", 200), 22, 1)
  <2>1. Later[23] = Call("wait1", "video_encode", "PortEnable", 200)[1]
    BY DEF Later, Call
  <2> QED
    BY <2>1, WaitSlices
<1>9. Slice(omx_send_command_and_wait1("image_fx", "PortEnable", 191), 23, 1)
  <2>1. Later[24] = Call("wait1", "image_fx", "PortEnable", 191)[1]
    BY DEF Later, Call
  <2> QED
    BY <2>1, WaitSlices
<1>10. Slice(omx_send_command_and_wait("video_encode", "StateSet", "Executing"), 24, 2)
  <2>1. /\ Later[25] = Call("wait0", "video_encode", "StateSet", "Executing")[1]
        /\ Later[25 + 1] = Call("wait1", "video_encode", "StateSet", "Executing")[1]
    BY DEF Later, Call
  <2> QED
    BY <2>1, PairSlice
<1> DEFINE s2 == omx_send_command_and_wait0("video_encode", "StateSet", "Idle")
                   \o omx_send_command_and_wait0("video_encode", "PortEnable", 201)
<1>11. Slice(s2, 15, 2)
  BY <1>2, <1>1, SlicesJoined
<1> HIDE DEF s2
<1> DEFINE s3 == s2 \o omx_alloc_buffers("video_encode", 201)
<1>12. Slice(s3, 15, 3)
  BY <1>3, <1>11, SlicesJoined
<1> HIDE DEF s3
<1> DEFINE s4 == s3 \o omx_send_command_and_wait1("video_encode", "PortEnable", 201)
<1>13. Slice(s4, 15, 4)
  BY <1>4, <1>12, SlicesJoined
<1> HIDE DEF s4
<1> DEFINE s5 == s4 \o omx_send_command_and_wait1("video_encode", "StateSet", "Idle")
<1>14. Slice(s5, 15, 5)
  BY <1>5, <1>13, SlicesJoined
<1> HIDE DEF s5
<1> DEFINE s6 == s5 \o omx_send_command_and_wait0("image_fx", "PortEnable", 191)
<1>15. Slice(s6, 15, 6)
  BY <1>6, <1>14, SlicesJoined
<1> HIDE DEF s6
<1> DEFINE s7 == s6 \o omx_send_command_and_wait0("video_encode", "PortEnable", 200)
<1>16. Slice(s7, 15, 7)
  BY <1>7, <1>15, SlicesJoined
<1> HIDE DEF s7
<1> DEFINE s8 == s7 \o omx_send_command_and_wait1("video_encode", "PortEnable", 200)
<1>17. Slice(s8, 15, 8)
  BY <1>8, <1>16, SlicesJoined
<1> HIDE DEF s8
<1> DEFINE s9 == s8 \o omx_send_command_and_wait1("image_fx", "PortEnable", 191)
<1>18. Slice(s9, 15, 9)
  BY <1>9, <1>17, SlicesJoined
<1> HIDE DEF s9
<1> DEFINE s10 == s9 \o omx_send_command_and_wait("video_encode", "StateSet", "Executing")
<1>19. Slice(s10, 15, 11)
  BY <1>10, <1>18, SlicesJoined
<1> QED
  BY <1>19, Zenon DEF configure_encoder, s2, s3, s4, s5, s6, s7, s8, s9

\* r is s followed by calls 1 to k of the tail.
Extends(r, s, k) ==
  /\ r \in Seq(Calls) /\ Len(r) = Len(s) + k
  /\ \A i \in 1..Len(s) : r[i] = s[i]
  /\ \A j \in 1..k : r[Len(s) + j] = Later[j]

LEMMA Extended ==
  ASSUME NEW s \in Seq(Calls), NEW k \in Nat, NEW l \in Nat, NEW n \in Nat, n = k + l,
         NEW r, NEW t, Extends(r, s, k), Slice(t, k, l)
  PROVE  Extends(r \o t, s, n)
<1>1. PICK q \in Seq(Calls) : q = r \o t /\ Joins(q, r, t)
  <2>1. r \in Seq(Calls) /\ t \in Seq(Calls)
    BY DEF Extends, Slice
  <2> QED
    BY <2>1, Joined
<1>2. PICK m \in Nat : m = Len(s)
  OBVIOUS
<1>3. /\ Len(q) = m + n /\ (\A i \in 1..(m + k) : q[i] = r[i])
      /\ \A j \in 1..l : q[m + k + j] = Later[k + j]
  <2>1. Len(r) = m + k
    BY <1>2 DEF Extends
  <2>2. Len(t) = l /\ \A j \in 1..l : t[j] = Later[k + j]
    BY DEF Slice
  <2>3. /\ Len(q) = (m + k) + l /\ (\A i \in 1..(m + k) : q[i] = r[i])
        /\ \A j \in 1..l : q[m + k + j] = t[j]
    BY <1>1, <2>1, <2>2 DEF Joins
  <2>4. m + n = (m + k) + l
    OBVIOUS
  <2>5. \A j \in 1..l : q[m + k + j] = Later[k + j]
    BY <2>2, <2>3, Zenon
  <2> QED
    BY <2>3, <2>4, <2>5, Zenon
<1>4. \A i \in 1..m : q[i] = s[i]
  BY <1>2, <1>3 DEF Extends
<1>5. ASSUME NEW j \in 1..n PROVE q[m + j] = Later[j]
  <2>1. CASE j <= k
    <3>1. j \in 1..k /\ m + j \in 1..(m + k)
      BY <2>1
    <3> QED
      BY <1>2, <1>3, <3>1 DEF Extends
  <2>2. CASE ~(j <= k)
    <3>1. PICK h \in 1..l : j = k + h
      <4>1. j - k \in 1..l /\ j = k + (j - k)
        BY <2>2
      <4> QED
        BY <4>1
    <3>2. m + j = m + k + h
      BY <3>1
    <3> QED
      BY <1>3, <3>1, <3>2
  <2> QED
    BY <2>1, <2>2
<1>6. Extends(q, s, n)
  BY <1>1, <1>2, <1>3, <1>4, <1>5 DEF Extends
<1> QED
  BY <1>1, <1>6

LEMMA SetupIs ==
  \E s : Disables(s, Components) /\ Extends(omx_setup_encoding_pipeline, s, 9)
<1> DEFINE s1 == omx_init_component("video_decode") \o omx_init_component("image_fx")
           s2 == s1 \o omx_init_component("video_encode")
<1>1. Disables(s2, Components)
  <2>1. "video_decode" \in Components /\ "image_fx" \in Components /\ "video_encode" \in Components
    BY DEF Components
  <2>2. Disables(s1, {"video_decode"} \cup {"image_fx"})
    BY <2>1, InitComponentDisables, DisablesJoined
  <2> HIDE DEF s1
  <2>3. Disables(s2, ({"video_decode"} \cup {"image_fx"}) \cup {"video_encode"})
    BY <2>1, <2>2, InitComponentDisables, DisablesJoined
  <2>4. Components = ({"video_decode"} \cup {"image_fx"}) \cup {"video_encode"}
    BY DEF Components
  <2> QED
    BY <2>3, <2>4, Zenon
<1> HIDE DEF s2
<1>2. s2 \in Seq(Calls)
  BY <1>1 DEF Disables
<1>3. Extends(s2, s2, 0)
  BY <1>2 DEF Extends
<1>4. Slice(omx_send_command_and_wait("video_decode", "StateSet", "Idle"), 0, 2)
  <2>1. /\ Later[1] = Call("wait0", "video_decode", "StateSet", "Idle")[1]
        /\ Later[1 + 1] = Call("wait1", "video_decode", "StateSet", "Idle")[1]
    BY DEF Later, Call
  <2> QED
    BY <2>1, PairSlice
<1> DEFINE s3 == s2 \o omx_send_command_and_wait("video_decode", "StateSet", "Idle")
<1>5. Extends(s3, s2, 2)
  BY <1>2, <1>3, <1>4, Extended
<1> HIDE DEF s3
<1>6. Slice(omx_send_command_and_wait("image_fx", "StateSet", "Idle"), 2, 2)
  <2>1. /\ Later[3] = Call("wait0", "image_fx", "StateSet", "Idle")[1]
        /\ Later[3 + 1] = Call("wait1", "image_fx", "StateSet", "Idle")[1]
    BY DEF Later, Call
  <2> QED
    BY <2>1, PairSlice
<1> DEFINE s4 == s3 \o omx_send_command_and_wait("image_fx", "StateSet", "Idle")
<1>7. Extends(s4, s2, 4)
  BY <1>2, <1>5, <1>6, Extended
<1> HIDE DEF s4
<1>8. Slice(omx_send_command_and_wait0("video_decode", "PortEnable", 130), 4, 1)
  <2>1. Later[5] = Call("wait0", "video_decode", "PortEnable", 130)[1]
    BY DEF Later, Call
  <2> QED
    BY <2>1, WaitSlices
<1> DEFINE s5 == s4 \o omx_send_command_and_wait0("video_decode", "PortEnable", 130)
<1>9. Extends(s5, s2, 5)
  BY <1>2, <1>7, <1>8, Extended
<1> HIDE DEF s5
<1>10. Slice(omx_alloc_buffers("video_decode", 130), 5, 1)
  <2>1. Later[6] = Call("alloc", "video_decode", "UseBuffer", 130)[1]
    BY DEF Later, Call
  <2> QED
    BY <2>1, WaitSlices
<1> DEFINE s6 == s5 \o omx_alloc_buffers("video_decode", 130)
<1>11. Extends(s6, s2, 6)
  BY <1>2, <1>9, <1>10, Extended
<1> HIDE DEF s6
<1>12. Slice(omx_send_command_and_wait1("video_decode", "PortEnable", 130), 6, 1)
  <2>1. Later[7] = Call("wait1", "video_decode", "PortEnable", 130)[1]
    BY DEF Later, Call
  <2> QED
    BY <2>1, WaitSlices
<1> DEFINE s7 == s6 \o omx_send_command_and_wait1("video_decode", "PortEnable", 130)
<1>13. Extends(s7, s2, 7)
  BY <1>2, <1>11, <1>12, Extended
<1> HIDE DEF s7
<1>14. Slice(omx_send_command_and_wait("video_decode", "StateSet", "Executing"), 7, 2)
  <2>1. /\ Later[8] = Call("wait0", "video_decode", "StateSet", "Executing")[1]
        /\ Later[8 + 1] = Call("wait1", "video_decode", "StateSet", "Executing")[1]
    BY DEF Later, Call
  <2> QED
    BY <2>1, PairSlice
<1> DEFINE s8 == s7 \o omx_send_command_and_wait("video_decode", "StateSet", "Executing")
<1>15. Extends(s8, s2, 9)
  BY <1>2, <1>13, <1>14, Extended
<1> HIDE DEF s8
<1>16. omx_setup_encoding_pipeline = s8
  BY Zenon DEF omx_setup_encoding_pipeline, s1, s2, s3, s4, s5, s6, s7, s8
<1> QED
  BY <1>1, <1>15, <1>16, Zenon

LEMMA ScriptIs == \E s : Disables(s, Components) /\ Extends(Script, s, 26)
<1>1. PICK s : Disables(s, Components) /\ Extends(omx_setup_encoding_pipeline, s, 9)
  BY SetupIs
<1>2. s \in Seq(Calls)
  BY <1>1 DEF Disables
<1>3. Extends(omx_setup_encoding_pipeline \o configure_deinterlacer, s, 15)
  BY <1>1, <1>2, DeinterlacerIs, Extended
<1>4. Extends(omx_setup_encoding_pipeline \o configure_deinterlacer \o configure_encoder, s, 26)
  BY <1>2, <1>3, EncoderIs, Extended
<1> QED
  BY <1>1, <1>4, Zenon DEF Script

LEMMA ScriptIsCalls == Script \in Seq(Calls)
BY ScriptIs DEF Extends

LEMMA ScriptIsSound == ScriptFacts
<1>1. PICK s : Disables(s, Components) /\ Extends(Script, s, 26)
  BY ScriptIs
<1>2. s \in Seq(Calls)
  BY <1>1 DEF Disables
<1>3. PICK m \in Nat : m = Len(s)
  BY <1>2
<1>4. /\ Len(Script) = m + 26 /\ (\A i \in 1..m : Script[i] = s[i])
      /\ \A k \in 1..26 : Script[m + k] = Later[k]
  BY <1>1, <1>3 DEF Extends
<1>5. /\ \A i \in 1..m : s[i].op \in {"wait0", "wait1"} => s[i].cmd = "PortDisable"
      /\ SendsOnce(s) /\ WaitsForSent(s) /\ InitFirst(s)
  BY <1>1, <1>3 DEF Disables
<1>6. ASSUME NEW i \in 1..(m + 26)
      PROVE  \/ i \in 1..m /\ Script[i] = s[i]
             \/ \E k \in 1..26 : i = m + k /\ Script[i] = Later[k]
  <2>1. CASE i <= m
    <3>1. i \in 1..m
      BY <2>1
    <3> QED
      BY <1>4, <3>1, Zenon
  <2>2. CASE ~(i <= m)
    <3>1. PICK k \in 1..26 : i = m + k
      <4>1. i - m \in 1..26 /\ i = m + (i - m)
        BY <2>2
      <4> QED
        BY <4>1
    <3> QED
      BY <1>4, <3>1
  <2> QED
    BY <2>1, <2>2
<1>7. \A k \in 1..26 : Later[k].op = "wait0" => Later[k].cmd # "PortDisable"
  BY LaterSends DEF Sends
<1>8. SendsOnce(Script)
  <2> SUFFICES ASSUME NEW i \in 1..(m + 26), NEW j \in 1..(m + 26), i < j,
                      Script[i].op = "wait0", Script[j].op = "wait0",
                      Script[i].comp = Script[j].comp
               PROVE  CommandOf(Script[i]) # CommandOf(Script[j])
    BY <1>4 DEF SendsOnce
  <2>1. CASE i \in 1..m /\ Script[i] = s[i]
    <3>1. CASE j \in 1..m /\ Script[j] = s[j]
      BY <1>3, <1>5, <2>1, <3>1 DEF SendsOnce
    <3>2. CASE \E l \in 1..26 : j = m + l /\ Script[j] = Later[l]
      <4>1. Script[i].cmd = "PortDisable" /\ Script[j].cmd # "PortDisable"
        BY <1>5, <1>7, <2>1, <3>2
      <4> QED
        BY <4>1 DEF CommandOf
    <3> QED
      BY <1>6, <3>1, <3>2
  <2>2. CASE \E k \in 1..26 : i = m + k /\ Script[i] = Later[k]
    <3>1. PICK k \in 1..26 : i = m + k /\ Script[i] = Later[k]
      BY <2>2
    <3>2. ~(j \in 1..m)
      BY <3>1
    <3>3. PICK l \in 1..26 : j = m + l /\ Script[j] = Later[l]
      BY <1>6, <3>2
    <3>4. k < l
      BY <3>1, <3>3
    <3> QED
      BY <3>1, <3>3, <3>4, LaterSendsOnce, LaterIsCalls DEF SendsOnce
  <2> QED
    BY <1>6, <2>1, <2>2
<1>9. WaitsForSent(Script)
  <2> SUFFICES ASSUME NEW i \in 1..(m + 26), Script[i].op = "wait1"
               PROVE  \E j \in 1..(i - 1) :
                        Script[j].op = "wait0" /\ Script[j].comp = Script[i].comp
                        /\ CommandOf(Script[j]) = CommandOf(Script[i])
    BY <1>4 DEF WaitsForSent
  <2>1. CASE i \in 1..m /\ Script[i] = s[i]
    <3>1. PICK j \in 1..(i - 1) : s[j].op = "wait0" /\ s[j].comp = s[i].comp
                                  /\ CommandOf(s[j]) = CommandOf(s[i])
      BY <1>3, <1>5, <2>1 DEF WaitsForSent
    <3>2. j \in 1..m
      BY <2>1
    <3> QED
      BY <1>4, <2>1, <3>1, <3>2
  <2>2. CASE \E k \in 1..26 : i = m + k /\ Script[i] = Later[k]
    <3>1. PICK k \in 1..26 : i = m + k /\ Script[i] = Later[k]
      BY <2>2
    <3>2. PICK l \in 1..(k - 1) : Later[l].op = "wait0" /\ Later[l].comp = Later[k].comp
                                  /\ CommandOf(Later[l]) = CommandOf(Later[k])
      BY <3>1, LaterWaitsForSent, LaterIsCalls DEF WaitsForSent
    <3>3. PICK j \in 1..(i - 1) : j = m + l /\ l \in 1..26
      BY <3>1
    <3>4. Script[j] = Later[l]
      BY <1>4, <3>3
    <3> QED
      BY <3>1, <3>2, <3>3, <3>4
  <2> QED
    BY <1>6, <2>1, <2>2
<1>10. InitFirst(Script)
  <2> SUFFICES ASSUME NEW i \in 1..(m + 26), NEW j \in 1..(m + 26), Script[i].op = "wait0",
                      Script[j].op = "init", Script[i].comp = Script[j].comp
               PROVE  j < i
    BY <1>4 DEF InitFirst
  <2>1. j \in 1..m /\ Script[j] = s[j]
    BY <1>6, LaterOps
  <2>2. CASE i \in 1..m /\ Script[i] = s[i]
    BY <1>3, <1>5, <2>1, <2>2 DEF InitFirst
  <2>3. CASE \E k \in 1..26 : i = m + k /\ Script[i] = Later[k]
    BY <2>1, <2>3
  <2> QED
    BY <1>6, <2>2, <2>3
\* Only the tail tells a component to execute.
<1>11. ASSUME NEW i \in 1..(m + 26), Script[i].op = "wait0", CommandOf(Script[i]) = Executing
       PROVE  \E k \in 1..26 : /\ i = m + k /\ Script[i] = Later[k]
                               /\ Later[k].op = "wait0" /\ CommandOf(Later[k]) = Executing
  <2>1. Script[i].cmd = "StateSet"
    BY <1>11 DEF CommandOf, Executing
  <2>2. ~(i \in 1..m /\ Script[i] = s[i])
    BY <1>5, <1>11, <2>1
  <2> QED
    BY <1>6, <1>11, <2>2
<1>12. ExecutesWaited
  <2> SUFFICES ASSUME NEW i \in 1..(m + 26), Script[i].op = "wait0",
                      CommandOf(Script[i]) = Executing
               PROVE  Waited(i - 1, Script[i].comp)
    BY <1>4 DEF ExecutesWaited
  <2>1. PICK k \in 1..26 : /\ i = m + k /\ Script[i] = Later[k]
                           /\ Later[k].op = "wait0" /\ CommandOf(Later[k]) = Executing
    BY <1>11
  <2>2. PICK l \in 1..(k - 1) :
          /\ Later[l].op = "wait1" /\ Later[l].comp = Later[k].comp
          /\ \A j \in l..(k - 1) : ~(Later[j].op = "wait0" /\ Later[j].comp = Later[k].comp)
    BY <2>1, LaterExecutes
  <2>3. PICK h \in 1..(i - 1) : h = m + l /\ l \in 1..26
    BY <2>1
  <2>4. Script[h] = Later[l]
    BY <1>4, <2>3
  <2>5. ASSUME NEW j \in h..(i - 1)
        PROVE  ~(Script[j].op = "wait0" /\ Script[j].comp = Script[i].comp)
    <3>1. PICK g \in l..(k - 1) : j = m + g /\ g \in 1..26
      <4>1. j - m \in l..(k - 1) /\ j = m + (j - m) /\ j - m \in 1..26
        BY <2>1, <2>3
      <4> QED
        BY <4>1
    <3>2. Script[j] = Later[g]
      BY <1>4, <3>1
    <3> QED
      BY <2>1, <2>2, <3>1, <3>2
  <2> QED
    BY <2>1, <2>2, <2>3, <2>4, <2>5 DEF Waited
<1>13. ExecutesOnly
  <2> SUFFICES ASSUME NEW i \in 1..(m + 26), NEW j \in 1..(m + 26), i < j,
                      Script[i].op = "wait0", Script[j].op = "wait0",
                      Script[i].comp = Script[j].comp, CommandOf(Script[i]) = Executing
               PROVE  \E l \in 1..(j - 1) : Script[l].op = "wait1" /\ Script[l].comp = Script[j].comp
                                            /\ CommandOf(Script[l]) = Executing
    BY <1>4 DEF ExecutesOnly
  <2>1. PICK k \in 1..26 : /\ i = m + k /\ Script[i] = Later[k]
                           /\ Later[k].op = "wait0" /\ CommandOf(Later[k]) = Executing
    BY <1>11
  <2>2. PICK l \in 1..26 : /\ l = k + 1 /\ Later[l].op = "wait1" /\ Later[l].comp = Later[k].comp
                           /\ CommandOf(Later[l]) = Executing
    BY <2>1, LaterExecutes
  <2>3. PICK h \in 1..(m + 26) : h = m + l /\ Script[h] = Later[l]
    <3>1. m + l \in 1..(m + 26)
      OBVIOUS
    <3> QED
      BY <1>4, <3>1
  <2>4. h = i + 1 /\ Script[h].op = "wait1" /\ Script[h].comp = Script[j].comp
    BY <2>1, <2>2, <2>3
  <2>5. h # j
    BY <2>4
  <2>6. h \in 1..(j - 1)
    BY <2>4, <2>5
  <2> QED
    BY <2>2, <2>3, <2>4, <2>6
<1> QED
  BY <1>8, <1>9, <1>10, <1>12, <1>13 DEF ScriptFacts

\* What is left of a queue of which one element has been taken.
IsRest(r, s, k) == r = SubSeq(s, 1, k - 1) \o SubSeq(s, k + 1, Len(s))

LEMMA TakenOut ==
  ASSUME NEW S, NEW s \in Seq(S), NEW k \in 1..Len(s), NEW r, IsRest(r, s, k)
  PROVE  /\ r \in Seq(S) /\ Len(r) = Len(s) - 1
         /\ \A j \in 1..Len(r) : r[j] = IF j < k THEN s[j] ELSE s[j + 1]
<1>1. /\ SubSeq(s, 1, k - 1) \in Seq(S) /\ Len(SubSeq(s, 1, k - 1)) = k - 1
      /\ \A j \in 1..(k - 1) : SubSeq(s, 1, k - 1)[j] = s[j]
  OBVIOUS
<1>2. /\ SubSeq(s, k + 1, Len(s)) \in Seq(S) /\ Len(SubSeq(s, k + 1, Len(s))) = Len(s) - k
      /\ \A j \in 1..(Len(s) - k) : SubSeq(s, k + 1, Len(s))[j] = s[k + j]
  OBVIOUS
<1>3. PICK a \in Seq(S), b \in Seq(S) : a = SubSeq(s, 1, k - 1) /\ b = SubSeq(s, k + 1, Len(s))
  BY <1>1, <1>2
<1>4. r \in Seq(S) /\ Len(r) = (k - 1) + (Len(s) - k)
  <2>1. r = a \o b
    BY <1>3 DEF IsRest
  <2>2. Len(a) = k - 1 /\ Len(b) = Len(s) - k
    BY <1>1, <1>2, <1>3
  <2>3. a \o b \in Seq(S) /\ Len(a \o b) = Len(a) + Len(b)
    BY <1>3
  <2> QED
    BY <2>1, <2>2, <2>3
<1>5. PICK m \in Nat : m = Len(s)
  OBVIOUS
<1>6. k \in 1..m /\ Len(r) = m - 1
  BY <1>4, <1>5
<1>7. ASSUME NEW j \in 1..(m - 1) PROVE r[j] = IF j < k THEN s[j] ELSE s[j + 1]
  <2>1. CASE j < k
    <3>1. Len(a) = k - 1 /\ j \in 1..(k - 1) /\ a[j] = s[j] /\ r = a \o b
      BY <1>1, <1>3, <1>6, <2>1 DEF IsRest
    <3>2. (a \o b)[j] = a[j]
      BY <3>1
    <3> QED
      BY <2>1, <3>1, <3>2
  <2>2. CASE ~(j < k)
    <3>1. Len(a) = k - 1 /\ Len(b) = m - k /\ r = a \o b
      BY <1>1, <1>2, <1>3, <1>5 DEF IsRest
    <3>2. PICK l \in Nat : l = j - (k - 1) /\ l \in 1..(m - k) /\ k + l = j + 1 /\ j = (k - 1) + l
      BY <1>6, <2>2
    <3>3. (a \o b)[(k - 1) + l] = b[l]
      BY <3>1, <3>2, <1>6
    <3>4. b[l] = s[k + l]
      BY <1>2, <1>3, <1>5, <3>2
    <3> QED
      BY <2>2, <3>1, <3>2, <3>3, <3>4
  <2> QED
    BY <2>1, <2>2
<1> QED
  BY <1>4, <1>5, <1>6, <1>7

\* An element of the rest is one of the whole, at another place than the one taken.
RestSays(r, s, k) ==
  /\ \A j \in 1..Len(r) : \E l \in 1..Len(s) : l # k /\ r[j] = s[l]
  /\ \A l \in 1..Len(s) : l # k => \E j \in 1..Len(r) : r[j] = s[l]
  /\ (\A l, m \in 1..Len(s) : s[l] = s[m] => l = m) =>
       \A l, m \in 1..Len(r) : r[l] = r[m] => l = m

LEMMA RestOf ==
  ASSUME NEW S, NEW s \in Seq(S), NEW k \in 1..Len(s), NEW r, IsRest(r, s, k)
  PROVE  RestSays(r, s, k)
<1>1. PICK m \in Nat : m = Len(s) /\ k \in 1..m
  OBVIOUS
<1>2. Len(r) = m - 1 /\ \A j \in 1..(m - 1) : r[j] = IF j < k THEN s[j] ELSE s[j + 1]
  <2>1. Len(r) = Len(s) - 1 /\ \A j \in 1..Len(r) : r[j] = IF j < k THEN s[j] ELSE s[j + 1]
    BY TakenOut
  <2> QED
    BY <1>1, <2>1
<1>3. ASSUME NEW j \in 1..(m - 1)
      PROVE  \E l \in 1..m : l = (IF j < k THEN j ELSE j + 1) /\ l # k /\ r[j] = s[l]
  <2>1. CASE j < k
    BY <1>1, <1>2, <2>1
  <2>2. CASE ~(j < k)
    <3>1. PICK l \in 1..m : l = j + 1
      BY <1>1
    <3> QED
      BY <1>1, <1>2, <2>2, <3>1
  <2> QED
    BY <2>1, <2>2
<1>4. ASSUME NEW l \in 1..m, l # k PROVE \E j \in 1..(m - 1) : r[j] = s[l]
  <2>1. CASE l < k
    BY <1>1, <1>2, <2>1
  <2>2. CASE l > k
    <3>1. PICK j \in 1..(m - 1) : j = l - 1 /\ l = j + 1
      BY <1>1, <2>2
    <3>2. ~(j < k)
      BY <1>1, <2>2, <3>1
    <3> QED
      BY <1>2, <3>1, <3>2
  <2> QED
    BY <1>1, <1>4, <2>1, <2>2
<1>5. ASSUME \A l, n \in 1..m : s[l] = s[n] => l = n,
             NEW l \in 1..(m - 1), NEW n \in 1..(m - 1), r[l] = r[n]
      PROVE  l = n
  <2>1. PICK x \in 1..m : x = (IF l < k THEN l ELSE l + 1) /\ r[l] = s[x]
    BY <1>3
  <2>2. PICK y \in 1..m : y = (IF n < k THEN n ELSE n + 1) /\ r[n] = s[y]
    BY <1>3
  <2>3. x = y
    BY <1>5, <2>1, <2>2
  <2> QED
    BY <1>1, <2>1, <2>2, <2>3
<1> QED
  BY <1>1, <1>2, <1>3, <1>4, <1>5 DEF RestSays

\* A wait for c in calls 1 to n is one before n, unless n is it or sends something to c.
LEMMA WaitedBefore ==
  ASSUME NEW n \in Nat, NEW c, Waited(n, c), n >= 1
  PROVE  /\ ~(Script[n].op = "wait0" /\ Script[n].comp = c)
         /\ ~(Script[n].op = "wait1" /\ Script[n].comp = c) => Waited(n - 1, c)
<1>1. PICK i \in 1..n :
        /\ Script[i].op = "wait1" /\ Script[i].comp = c
        /\ \A j \in i..n : ~(Script[j].op = "wait0" /\ Script[j].comp = c)
  BY DEF Waited
<1>2. n \in i..n
  OBVIOUS
<1>3. ASSUME ~(Script[n].op = "wait1" /\ Script[n].comp = c) PROVE Waited(n - 1, c)
  <2>1. i # n
    BY <1>1, <1>3
  <2>2. i \in 1..(n - 1)
    BY <2>1
  <2>3. \A j \in i..(n - 1) : j \in i..n
    OBVIOUS
  <2> QED
    BY <1>1, <2>2, <2>3 DEF Waited
<1> QED
  BY <1>1, <1>2, <1>3

-----------------------------------------------------------------------------
(* One lemma per action. *)

LEMMA InitIInv == Init => IInv
<1> SUFFICES ASSUME Init PROVE IInv
  OBVIOUS
<1>1. TypeOK
  <2>1. Len(Script) \in Nat
    BY ScriptIsCalls
  <2>2. next \in 1..(Len(Script) + 1)
    BY <2>1 DEF Init
  <2>3. slot \in [Components -> Commands \cup {NONE}] /\ outstanding \in [Components -> Seq(Commands)]
    BY DEF Init
  <2>4. sending \in BOOLEAN /\ asleep \in BOOLEAN /\ allocated \subseteq {130, 201} /\ in_order \in BOOLEAN
    BY DEF Init
  <2> QED
    BY <2>2, <2>3, <2>4 DEF TypeOK
<1>2. /\ next = 1 /\ sending = FALSE
      /\ \A c \in Components : slot[c] = NONE /\ outstanding[c] = <<>>
  BY DEF Init
<1>3. SlotIsOutstanding /\ SendingInv /\ LastInv /\ QuietInv
  BY <1>2 DEF SlotIsOutstanding, SendingInv, LastInv, QuietInv, Sending
<1>4. \A c \in Components : Len(outstanding[c]) = 0
  BY <1>2
<1>5. SentInv /\ DistinctInv
  BY <1>4 DEF SentInv, DistinctInv
<1>6. WaitedIsDone
  BY <1>2, <1>4 DEF WaitedIsDone, Outstanding
<1> QED
  BY <1>1, <1>3, <1>5, <1>6 DEF IInv

\* What TypeOK says of a call that is in progress.
LEMMA CallIs ==
  ASSUME TypeOK, NEW op, In(op)
  PROVE  /\ next \in 1..Len(Script) /\ Len(Script) \in Nat /\ call.op = op /\ call.comp \in Components
         /\ call \in Calls /\ command \in [cmd : Cmds, param : Params]
         /\ command # NONE /\ command = CommandOf(Script[next])
         /\ op = "wait0" => command \in Commands
<1>1. next \in 1..Len(Script) /\ Len(Script) \in Nat /\ call = Script[next] /\ call.op = op
  BY ScriptIsCalls DEF TypeOK, In, call
<1>2. call \in Calls
  BY <1>1, ScriptIsCalls
<1>3. command \in [cmd : Cmds, param : Params]
  BY <1>2 DEF command, Calls
<1>4. op = "wait0" => command \in Commands
  BY <1>1 DEF Commands, command
<1>5. command # NONE
  BY <1>3, NoneAssumption
<1>6. call.comp \in Components
  BY <1>2 DEF Calls
<1>7. command = CommandOf(Script[next])
  BY <1>1 DEF command, CommandOf
<1> QED
  BY <1>1, <1>2, <1>3, <1>4, <1>5, <1>6, <1>7

LEMMA Keep_init_component ==
  ASSUME IInv, init_component
  PROVE  IInv'
<1>1. /\ In("init") /\ slot' = [slot EXCEPT ![call.comp] = NONE] /\ next' = next + 1
      /\ UNCHANGED <<sending, asleep, outstanding, allocated, in_order>>
  BY DEF init_component
<1>2. /\ next \in 1..Len(Script) /\ call.op = "init" /\ call.comp \in Components
      /\ Len(Script) \in Nat /\ call = Script[next]
  BY <1>1, CallIs DEF IInv, call
<1>3. ~sending
  BY <1>1 DEF IInv, SendingInv, In
<1>4. TypeOK'
  BY <1>1, <1>2 DEF IInv, TypeOK
<1>5. \A c \in Components : slot'[c] = (IF c = call.comp THEN NONE ELSE slot[c])
                            /\ outstanding'[c] = outstanding[c]
  BY <1>1 DEF IInv, TypeOK
<1>6. SlotIsOutstanding' /\ SendingInv'
  BY <1>1, <1>3, <1>5 DEF IInv, SlotIsOutstanding, SendingInv, Outstanding
<1>7. 1..(next - 1) \subseteq 1..(next' - 1) /\ next' - 1 = next
  BY <1>1, <1>2
<1>8. SentInv' /\ DistinctInv'
  <2>1. outstanding' = outstanding
    BY <1>1
  <2>2. DistinctInv'
    BY <2>1 DEF IInv, DistinctInv
  <2>3. SentInv'
    BY <1>7, <2>1 DEF IInv, SentInv
  <2> QED
    BY <2>2, <2>3
<1>9. outstanding[call.comp] = <<>>
  <2>1. SUFFICES ASSUME outstanding[call.comp] # <<>> PROVE FALSE
    OBVIOUS
  <2>2. 1 \in 1..Len(outstanding[call.comp])
    BY <1>2, <2>1 DEF IInv, TypeOK
  <2>3. PICK j \in 1..(next - 1) : Script[j].op = "wait0" /\ Script[j].comp = call.comp
    BY <1>2, <2>2 DEF IInv, SentInv
  <2>4. j \in 1..Len(Script) /\ j < next
    BY <1>2
  <2> QED
    BY <1>2, <2>3, <2>4, ScriptIsSound DEF ScriptFacts, InitFirst
<1>10. LastInv'
  BY <1>1, <1>3, <1>5, <1>9 DEF IInv, LastInv, Sending
<1>11. \A c : Waited(next, c) => Waited(next - 1, c)
  BY <1>2, WaitedBefore
<1>12. QuietInv'
  <2>1. \A c : Waited(next - 1, c)' => Waited(next - 1, c)
    BY <1>7, <1>11 DEF Waited
  <2> QED
    BY <1>1, <1>3, <1>5, <2>1 DEF IInv, QuietInv, Sending
<1>13. WaitedIsDone'
  <2>1. \A j \in 1..(next' - 1) : Script[j].op = "wait1" => j \in 1..(next - 1)
    BY <1>2, <1>7
  <2> QED
    BY <1>1, <1>5, <2>1 DEF IInv, WaitedIsDone, Outstanding
<1> QED
  BY <1>4, <1>6, <1>8, <1>10, <1>12, <1>13 DEF IInv

LEMMA Keep_wait0_record ==
  ASSUME IInv, wait0_record
  PROVE  IInv'
<1>1. /\ In("wait0") /\ ~sending /\ slot' = [slot EXCEPT ![call.comp] = command] /\ sending'
      /\ sending' \in BOOLEAN
      /\ UNCHANGED <<next, asleep, outstanding, allocated, in_order>>
  BY DEF wait0_record
<1>2. /\ call.comp \in Components /\ command # NONE /\ command \in Commands
      /\ call' = call /\ command' = command /\ In("wait0")'
  BY <1>1, CallIs DEF IInv, call, command, In
<1>3. TypeOK'
  BY <1>1, <1>2 DEF IInv, TypeOK
<1>4. \A c \in Components : slot'[c] = IF c = call.comp THEN command ELSE slot[c]
  BY <1>1 DEF IInv, TypeOK
<1>5. SlotIsOutstanding' /\ SendingInv'
  BY <1>1, <1>2, <1>4 DEF IInv, SlotIsOutstanding, SendingInv, Outstanding
<1>6. SentInv' /\ DistinctInv' /\ WaitedIsDone'
  BY <1>1 DEF IInv, SentInv, DistinctInv, WaitedIsDone, Outstanding
<1>7. \A c \in Components : (Sending(c)' <=> c = call.comp) /\ ~Sending(c)
  BY <1>1, <1>2 DEF Sending
<1>8. LastInv'
  BY <1>1, <1>2, <1>4, <1>7 DEF IInv, LastInv
<1>9. QuietInv'
  BY <1>1, <1>4, <1>7 DEF IInv, QuietInv, Waited
<1> QED
  BY <1>3, <1>5, <1>6, <1>8, <1>9 DEF IInv

\* The command sent is a new one, and one that makes a component execute finds nothing
\* outstanding.
LEMMA Keep_wait0_send ==
  ASSUME IInv, wait0_send
  PROVE  IInv'
<1>1. /\ In("wait0") /\ sending /\ ~sending' /\ sending' \in BOOLEAN /\ next' = next + 1
      /\ outstanding' = [outstanding EXCEPT ![call.comp] = Append(@, command)]
      /\ UNCHANGED <<asleep, slot, allocated, in_order>>
  BY DEF wait0_send
<1>2. /\ next \in 1..Len(Script) /\ Len(Script) \in Nat /\ call.op = "wait0"
      /\ call.comp \in Components /\ command # NONE /\ command \in Commands
      /\ call = Script[next] /\ command = CommandOf(Script[next]) /\ slot[call.comp] = command
  BY <1>1, CallIs DEF IInv, SendingInv, call
<1>3. PICK d \in Components, x \in Commands, s \in Seq(Commands), m \in Nat :
        d = call.comp /\ x = command /\ s = outstanding[d] /\ m = Len(s)
  BY <1>2 DEF IInv, TypeOK
<1>4. /\ Append(s, x) \in Seq(Commands) /\ Len(Append(s, x)) = m + 1
      /\ Append(s, x)[m + 1] = x /\ \A k \in 1..m : Append(s, x)[k] = s[k]
  BY <1>3
<1>5. \A c \in Components : outstanding'[c] = IF c = d THEN Append(s, x) ELSE outstanding[c]
  BY <1>1, <1>3 DEF IInv, TypeOK
<1>6. PICK t : t = Append(s, x)
  OBVIOUS
<1>7. /\ t \in Seq(Commands) /\ Len(t) = m + 1 /\ t[m + 1] = x /\ \A k \in 1..m : t[k] = s[k]
      /\ \A c \in Components : outstanding'[c] = IF c = d THEN t ELSE outstanding[c]
      /\ m + 1 \in 1..(m + 1) /\ \A k \in 1..m : k \in 1..(m + 1)
      /\ \A k \in 1..(m + 1) : k \in 1..m \/ k = m + 1
  BY <1>3, <1>4, <1>5, <1>6
<1>8. TypeOK'
  <2>1. outstanding' \in [Components -> Seq(Commands)]
    BY <1>1, <1>3, <1>4 DEF IInv, TypeOK
  <2>2. next' \in 1..(Len(Script) + 1)
    BY <1>1, <1>2
  <2> QED
    BY <1>1, <2>1, <2>2 DEF IInv, TypeOK
<1>9. next' - 1 = next /\ next \in 1..next /\ 1..(next - 1) \subseteq 1..next
      /\ \A j \in 1..next : j \in 1..(next - 1) \/ j = next
  BY <1>1, <1>2
<1>10. \A k \in 1..m : \E j \in 1..(next - 1) :
          Script[j].op = "wait0" /\ Script[j].comp = d /\ s[k] = CommandOf(Script[j])
  BY <1>3 DEF IInv, SentInv
<1>11. \A j \in 1..(next - 1) : j \in 1..Len(Script) /\ j < next
  BY <1>2
<1>12. \A k \in 1..m : s[k] # x
  BY <1>2, <1>3, <1>10, <1>11, ScriptIsSound DEF ScriptFacts, SendsOnce
<1>13. SentInv'
  <2>1. ASSUME NEW c \in Components, NEW k \in 1..Len(outstanding'[c])
        PROVE  \E j \in 1..next : /\ Script[j].op = "wait0" /\ Script[j].comp = c
                                  /\ outstanding'[c][k] = CommandOf(Script[j])
    <3>1. CASE c # d
      <4>1. outstanding'[c] = outstanding[c]
        BY <1>7, <3>1
      <4>2. PICK j \in 1..(next - 1) : Script[j].op = "wait0" /\ Script[j].comp = c
                                      /\ outstanding[c][k] = CommandOf(Script[j])
        BY <2>1, <4>1 DEF IInv, SentInv
      <4> QED
        BY <1>9, <4>1, <4>2
    <3>2. CASE c = d /\ k \in 1..m
      <4>1. PICK j \in 1..(next - 1) : Script[j].op = "wait0" /\ Script[j].comp = d
                                      /\ s[k] = CommandOf(Script[j])
        BY <1>10, <3>2
      <4>2. outstanding'[c][k] = s[k]
        BY <1>7, <3>2
      <4> QED
        BY <1>9, <3>2, <4>1, <4>2
    <3>3. CASE c = d /\ k = m + 1
      BY <1>2, <1>3, <1>7, <1>9, <3>3
    <3> QED
      BY <1>7, <2>1, <3>1, <3>2, <3>3
  <2> QED
    BY <1>9, <2>1 DEF SentInv
<1>14. DistinctInv'
  <2>1. ASSUME NEW c \in Components, NEW k \in 1..Len(outstanding'[c]),
               NEW l \in 1..Len(outstanding'[c]), outstanding'[c][k] = outstanding'[c][l]
        PROVE  k = l
    <3>1. CASE c # d
      BY <1>7, <2>1, <3>1 DEF IInv, DistinctInv
    <3>2. CASE c = d
      <4>1. /\ k \in 1..(m + 1) /\ l \in 1..(m + 1) /\ t[k] = t[l]
            /\ \A i \in 1..m : t[i] = s[i] /\ t[i] # t[m + 1]
        BY <1>7, <1>12, <2>1, <3>2
      <4>2. CASE k \in 1..m /\ l \in 1..m
        <5>1. \A i, j \in 1..m : s[i] = s[j] => i = j
          BY <1>3 DEF IInv, DistinctInv
        <5> QED
          BY <4>1, <4>2, <5>1
      <4>3. CASE k = m + 1 \/ l = m + 1
        BY <1>7, <4>1, <4>3
      <4> QED
        BY <1>7, <4>1, <4>2, <4>3
    <3> QED
      BY <3>1, <3>2
  <2> QED
    BY <2>1 DEF DistinctInv
<1>15. \A c \in Components : ~Sending(c)' /\ (c # d => ~Sending(c))
  BY <1>1, <1>3 DEF Sending
<1>16. LastInv' /\ SendingInv'
  <2>1. t # <<>> /\ slot[d] = x /\ x # NONE /\ t[Len(t)] = x
    BY <1>2, <1>3, <1>7
  <2>2. SendingInv'
    BY <1>1 DEF SendingInv
  <2>3. ASSUME in_order', NEW c \in Components, slot'[c] = NONE PROVE outstanding'[c] = <<>>
    <3>1. c # d /\ outstanding'[c] = outstanding[c]
      BY <1>1, <1>7, <2>1, <2>3
    <3> QED
      BY <1>1, <2>3, <3>1 DEF IInv, LastInv
  <2>4. ASSUME in_order', NEW c \in Components, slot'[c] # NONE
        PROVE  outstanding'[c] # <<>> /\ slot'[c] = outstanding'[c][Len(outstanding'[c])]
    <3>1. CASE c = d
      BY <1>1, <1>7, <2>1, <3>1
    <3>2. CASE c # d
      <4>1. outstanding'[c] = outstanding[c] /\ slot'[c] = slot[c] /\ ~Sending(c)
        BY <1>1, <1>7, <1>15, <3>2
      <4> QED
        BY <1>1, <2>4, <4>1 DEF IInv, LastInv
    <3> QED
      BY <3>1, <3>2
  <2> QED
    BY <2>2, <2>3, <2>4 DEF LastInv
<1>17. QuietInv'
  <2>1. \A c : Waited(next, c) => c # d /\ Waited(next - 1, c)
    BY <1>2, <1>3, WaitedBefore
  <2>2. \A c : Waited(next - 1, c)' => Waited(next, c)
    BY <1>9 DEF Waited
  <2> QED
    BY <1>1, <1>7, <1>15, <2>1, <2>2 DEF IInv, QuietInv
<1>18. SlotIsOutstanding'
  <2>1. \A c \in Components : slot[c] # NONE => \E k \in 1..Len(outstanding'[c]) : outstanding'[c][k] = slot[c]
    <3> TAKE c \in Components
    <3> HAVE slot[c] # NONE
    <3>1. CASE c = d
      BY <1>2, <1>3, <1>7, <3>1
    <3>2. CASE c # d
      BY <1>3, <1>7, <3>2 DEF IInv, SlotIsOutstanding, Outstanding
    <3> QED
      BY <3>1, <3>2
  <2> QED
    BY <1>1, <2>1 DEF SlotIsOutstanding, Outstanding
<1>19. \A k : Outstanding(d, k)' => Outstanding(d, k) \/ k = x
  BY <1>3, <1>7 DEF Outstanding
<1>20. \A c \in Components : c # d => \A k : Outstanding(c, k)' => Outstanding(c, k)
  BY <1>7 DEF Outstanding
<1>21. ASSUME in_order, NEW j \in 1..next, Script[j].op = "wait1"
       PROVE  ~Outstanding(Script[j].comp, CommandOf(Script[j]))'
  <2>1. j \in 1..(next - 1) /\ j \in 1..Len(Script)
    BY <1>2, <1>9, <1>21
  <2>2. ~Outstanding(Script[j].comp, CommandOf(Script[j]))
    BY <1>21, <2>1 DEF IInv, WaitedIsDone, CommandOf
  <2>3. Script[j].comp \in Components
    BY <2>1, ScriptIsCalls DEF Calls
  <2>4. Script[j].comp = d => CommandOf(Script[j]) # x
    <3>1. PICK l \in 1..(j - 1) : Script[l].op = "wait0" /\ Script[l].comp = Script[j].comp
                                 /\ CommandOf(Script[l]) = CommandOf(Script[j])
      BY <1>21, <2>1, ScriptIsSound DEF ScriptFacts, WaitsForSent
    <3>2. l \in 1..Len(Script) /\ l < next
      BY <1>2, <2>1
    <3> QED
      BY <1>2, <1>3, <3>1, <3>2, ScriptIsSound DEF ScriptFacts, SendsOnce
  <2> QED
    BY <1>19, <1>20, <2>2, <2>3, <2>4
<1>22. ASSUME in_order, NEW c \in Components, Outstanding(c, Executing)'
       PROVE  Len(outstanding'[c]) = 1
  <2>1. CASE c # d
    BY <1>7, <1>20, <1>22, <2>1 DEF IInv, WaitedIsDone, Executing
  <2>2. CASE c = d /\ x = Executing
    <3>1. Waited(next - 1, d)
      BY <1>2, <1>3, <2>2, ScriptIsSound DEF ScriptFacts, ExecutesWaited
    <3>2. s = <<>>
      BY <1>3, <1>22, <3>1 DEF IInv, QuietInv
    <3>3. m = 0
      BY <1>3, <3>2
    <3> QED
      BY <1>7, <2>2, <3>3
  <2>3. CASE c = d /\ x # Executing
    <3>1. PICK k \in 1..m : s[k] = Executing
      BY <1>3, <1>19, <1>22, <2>3 DEF Outstanding
    <3>2. PICK j \in 1..(next - 1) :
            Script[j].op = "wait0" /\ Script[j].comp = d /\ CommandOf(Script[j]) = Executing
      BY <1>10, <3>1
    <3>3. j \in 1..Len(Script) /\ j < next /\ Script[next].op = "wait0" /\ Script[next].comp = d
      BY <1>2, <1>3, <1>11
    <3>4. PICK l \in 1..(next - 1) : Script[l].op = "wait1" /\ Script[l].comp = d
                                    /\ CommandOf(Script[l]) = Executing
      BY <1>2, <3>2, <3>3, ScriptIsSound DEF ScriptFacts, ExecutesOnly
    <3>5. ~Outstanding(d, Executing)
      BY <1>22, <3>4 DEF IInv, WaitedIsDone, CommandOf
    <3> QED
      BY <1>3, <3>1, <3>5 DEF Outstanding
  <2> QED
    BY <2>1, <2>2, <2>3
<1>23. WaitedIsDone'
  BY <1>1, <1>9, <1>21, <1>22 DEF WaitedIsDone, CommandOf, Executing
<1> QED
  BY <1>8, <1>13, <1>14, <1>16, <1>17, <1>18, <1>23 DEF IInv

\* In order, an empty slot means that nothing is outstanding.
LEMMA Keep_wait1_return ==
  ASSUME IInv, wait1_return
  PROVE  IInv'
<1>1. /\ In("wait1") /\ slot[call.comp] = NONE /\ next' = next + 1
      /\ UNCHANGED <<sending, asleep, slot, outstanding, allocated, in_order>>
  BY DEF wait1_return
<1>2. /\ next \in 1..Len(Script) /\ Len(Script) \in Nat /\ call.op = "wait1"
      /\ call.comp \in Components /\ call = Script[next]
  BY <1>1, CallIs DEF IInv, call
<1>3. ~sending
  BY <1>1 DEF IInv, SendingInv, In
<1>4. TypeOK'
  BY <1>1, <1>2 DEF IInv, TypeOK
<1>5. SlotIsOutstanding' /\ SendingInv' /\ DistinctInv' /\ LastInv'
  BY <1>1, <1>3 DEF IInv, SlotIsOutstanding, SendingInv, Outstanding, DistinctInv, LastInv, Sending
<1>6. next' - 1 = next /\ 1..(next - 1) \subseteq 1..next
      /\ \A j \in 1..next : j \in 1..(next - 1) \/ j = next
  BY <1>1, <1>2
<1>7. SentInv'
  BY <1>1, <1>6 DEF IInv, SentInv
<1>8. in_order => outstanding[call.comp] = <<>>
  BY <1>1, <1>2 DEF IInv, LastInv
<1>9. QuietInv'
  <2>1. \A c : Waited(next, c) => c = call.comp \/ Waited(next - 1, c)
    BY <1>2, WaitedBefore
  <2>2. \A c : Waited(next - 1, c)' => Waited(next, c)
    BY <1>6 DEF Waited
  <2> QED
    BY <1>1, <1>3, <1>8, <2>1, <2>2 DEF IInv, QuietInv, Sending
<1>10. WaitedIsDone'
  <2>1. in_order => \A k : ~Outstanding(call.comp, k)
    <3>1. in_order => Len(outstanding[call.comp]) = 0
      BY <1>8
    <3> QED
      BY <3>1 DEF Outstanding
  <2> QED
    BY <1>1, <1>2, <1>6, <2>1 DEF IInv, WaitedIsDone, Outstanding
<1> QED
  BY <1>4, <1>5, <1>7, <1>9, <1>10 DEF IInv

LEMMA Keep_sleep ==
  ASSUME IInv, wait1_sleep \/ SpuriousWakeup \/ UNCHANGED vars
  PROVE  IInv'
<1>1. /\ asleep' \in BOOLEAN
      /\ UNCHANGED <<next, sending, slot, outstanding, allocated, in_order>>
  BY DEF wait1_sleep, SpuriousWakeup, vars, IInv, TypeOK
<1>2. TypeOK'
  BY <1>1 DEF IInv, TypeOK
<1>3. SlotIsOutstanding' /\ SendingInv' /\ DistinctInv' /\ LastInv' /\ SentInv'
  BY <1>1 DEF IInv, SlotIsOutstanding, SendingInv, Outstanding, DistinctInv, LastInv, Sending,
     SentInv, In, call, command
<1>4. QuietInv' /\ WaitedIsDone'
  BY <1>1 DEF IInv, QuietInv, Waited, Sending, WaitedIsDone, Outstanding, call
<1> QED
  BY <1>2, <1>3, <1>4 DEF IInv

LEMMA Keep_alloc_buffers ==
  ASSUME IInv, alloc_buffers
  PROVE  IInv'
<1>1. /\ In("alloc") /\ allocated' = allocated \cup {call.param} /\ next' = next + 1
      /\ UNCHANGED <<sending, asleep, slot, outstanding, in_order>>
  BY DEF alloc_buffers
<1>2. /\ next \in 1..Len(Script) /\ Len(Script) \in Nat /\ call.op = "alloc" /\ call = Script[next]
      /\ call.param \in {130, 201}
  BY <1>1, CallIs DEF IInv, call, Calls
<1>3. ~sending
  BY <1>1 DEF IInv, SendingInv, In
<1>4. TypeOK'
  <2>1. allocated' \subseteq {130, 201}
    <3>1. allocated \subseteq {130, 201}
      BY DEF IInv, TypeOK
    <3>2. allocated' = allocated \cup {call.param} /\ call.param \in {130, 201}
      BY <1>1, <1>2
    <3>3. ASSUME NEW x \in allocated' PROVE x \in {130, 201}
      <4>1. x \in allocated \/ x = call.param
        BY <3>2, <3>3
      <4> QED
        BY <3>1, <3>2, <4>1
    <3> QED
      BY <3>3
  <2>2. next' \in 1..(Len(Script) + 1)
    BY <1>1, <1>2
  <2> QED
    BY <1>1, <2>1, <2>2 DEF IInv, TypeOK
<1>5. SlotIsOutstanding' /\ SendingInv' /\ DistinctInv' /\ LastInv'
  <2>1. SlotIsOutstanding'
    BY <1>1, <1>3 DEF IInv, SlotIsOutstanding, Outstanding
  <2>2. SendingInv' /\ DistinctInv'
    BY <1>1, <1>3 DEF IInv, SendingInv, DistinctInv
  <2>3. LastInv'
    BY <1>1, <1>3 DEF IInv, LastInv, Sending
  <2> QED
    BY <2>1, <2>2, <2>3
<1>6. next' - 1 = next /\ 1..(next - 1) \subseteq 1..next
      /\ \A j \in 1..next : j \in 1..(next - 1) \/ j = next
  BY <1>1, <1>2
<1>7. SentInv'
  BY <1>1, <1>6 DEF IInv, SentInv
<1>8. QuietInv'
  <2>1. \A c : Waited(next, c) => Waited(next - 1, c)
    BY <1>2, WaitedBefore
  <2>2. \A c : Waited(next - 1, c)' => Waited(next, c)
    BY <1>6 DEF Waited
  <2> QED
    BY <1>1, <1>3, <2>1, <2>2 DEF IInv, QuietInv, Sending
<1>9. WaitedIsDone'
  BY <1>1, <1>2, <1>6 DEF IInv, WaitedIsDone, Outstanding
<1> QED
  BY <1>4, <1>5, <1>7, <1>8, <1>9 DEF IInv

\* A completed command is taken out of the queue; in order it is the first, and the slot is
\* emptied only by the last.
LEMMA Keep_omx_event_handler ==
  ASSUME IInv, NEW d \in Components, omx_event_handler(d)
  PROVE  IInv'
<1>1. PICK k \in 1..Len(outstanding[d]) :
        /\ Completable(d, k)
        /\ outstanding' = [outstanding EXCEPT ![d] =
             SubSeq(@, 1, k - 1) \o SubSeq(@, k + 1, Len(@))]
        /\ IF slot[d] = outstanding[d][k]
           THEN /\ slot' = [slot EXCEPT ![d] = NONE]
                /\ asleep' = (asleep /\ call.comp # d)
           ELSE UNCHANGED <<slot, asleep>>
        /\ UNCHANGED <<next, sending, allocated, in_order>>
  BY DEF omx_event_handler
<1>2. PICK s \in Seq(Commands) : s = outstanding[d]
  BY DEF IInv, TypeOK
<1>3. PICK r : r = outstanding'[d]
  OBVIOUS
<1>4. IsRest(r, s, k) /\ k \in 1..Len(s) /\ outstanding' = [outstanding EXCEPT ![d] = r]
  <2>1. PICK q : q = SubSeq(outstanding[d], 1, k - 1)
                       \o SubSeq(outstanding[d], k + 1, Len(outstanding[d]))
    OBVIOUS
  <2>2. outstanding' = [outstanding EXCEPT ![d] = q]
    BY <1>1, <2>1, Zenon
  <2>3. outstanding'[d] = q
    BY <2>2 DEF IInv, TypeOK
  <2>4. IsRest(q, s, k)
    BY <1>2, <2>1, Zenon DEF IsRest
  <2> QED
    BY <1>1, <1>2, <1>3, <2>2, <2>3, <2>4, Zenon
<1>5. in_order => k = 1
  BY <1>1 DEF Completable
<1>6. /\ r \in Seq(Commands) /\ Len(r) = Len(s) - 1 /\ Len(s) \in Nat
      /\ \A j \in 1..Len(r) : r[j] = IF j < k THEN s[j] ELSE s[j + 1]
  BY <1>1, <1>2, <1>4, TakenOut
<1>23. RestSays(r, s, k)
  BY <1>4, RestOf
<1>7. /\ \A j \in 1..Len(r) : \E l \in 1..Len(s) : l # k /\ r[j] = s[l]
      /\ \A l \in 1..Len(s) : l # k => \E j \in 1..Len(r) : r[j] = s[l]
  BY <1>23, Zenon DEF RestSays
<1>8. \A l, m \in 1..Len(r) : r[l] = r[m] => l = m
  <2>1. \A l, m \in 1..Len(s) : s[l] = s[m] => l = m
    BY <1>2 DEF IInv, DistinctInv
  <2> QED
    BY <1>23, <2>1, Zenon DEF RestSays
<1>9. \A c \in Components :
        /\ outstanding'[c] = IF c = d THEN r ELSE outstanding[c]
        /\ slot'[c] = IF c = d /\ slot[d] = s[k] THEN NONE ELSE slot[c]
  BY <1>1, <1>2, <1>3 DEF IInv, TypeOK
<1>10. UNCHANGED <<next, sending, allocated, in_order, call, command>>
  BY <1>1 DEF call, command
<1>11. asleep' \in BOOLEAN
  BY <1>1 DEF IInv, TypeOK
<1>12. TypeOK'
  <2>1. outstanding' \in [Components -> Seq(Commands)]
    BY <1>4, <1>6 DEF IInv, TypeOK
  <2>2. slot' \in [Components -> Commands \cup {NONE}]
    <3>1. slot' = [slot EXCEPT ![d] = NONE] \/ slot' = slot
      BY <1>1
    <3> QED
      BY <3>1 DEF IInv, TypeOK
  <2> QED
    BY <1>10, <1>11, <2>1, <2>2 DEF IInv, TypeOK
<1> HIDE DEF Completable
<1>13. SlotIsOutstanding'
  <2>1. ASSUME NEW c \in Components, slot'[c] # NONE
        PROVE  Outstanding(c, slot[c])' \/ (In("wait0") /\ sending /\ call.comp = c /\ slot'[c] = command)
    <3>1. slot'[c] = slot[c] /\ slot[c] # NONE
      BY <1>9, <2>1
    <3>2. Outstanding(c, slot[c]) \/ (In("wait0") /\ sending /\ call.comp = c /\ slot[c] = command)
      BY <3>1 DEF IInv, SlotIsOutstanding
    <3>3. CASE c # d /\ Outstanding(c, slot[c])
      BY <1>9, <3>1, <3>3 DEF Outstanding
    <3>4. CASE c = d /\ Outstanding(c, slot[c])
      <4>1. PICK l \in 1..Len(s) : s[l] = slot[d]
        BY <1>2, <3>4 DEF Outstanding
      <4>2. l # k
        BY <1>9, <2>1, <3>4, <4>1
      <4>3. PICK j \in 1..Len(r) : r[j] = slot[d]
        BY <1>7, <4>1, <4>2
      <4> QED
        BY <1>3, <3>1, <3>4, <4>3 DEF Outstanding
    <3> QED
      BY <3>1, <3>2, <3>3, <3>4
  <2>2. In("wait0")' <=> In("wait0")
    BY <1>10 DEF In
  <2>3. ASSUME NEW c \in Components, slot'[c] # NONE
        PROVE  Outstanding(c, slot[c])' \/ (In("wait0")' /\ sending' /\ (call.comp)' = c /\ slot'[c] = command')
    BY <1>10, <2>1, <2>2, <2>3
  <2> QED
    BY <2>3 DEF SlotIsOutstanding
<1>14. \A c \in Components : \A x : Outstanding(c, x)' => Outstanding(c, x)
  <2> TAKE c \in Components
  <2> TAKE x
  <2>1. CASE c # d
    <3>1. outstanding'[c] = outstanding[c]
      BY <1>9, <2>1
    <3> QED
      BY <3>1 DEF Outstanding
  <2>2. CASE c = d
    <3>1. (\E j \in 1..Len(r) : r[j] = x) => \E l \in 1..Len(s) : s[l] = x
      BY <1>7
    <3> QED
      BY <1>2, <1>3, <2>2, <3>1 DEF Outstanding
  <2> QED
    BY <2>1, <2>2
<1>15. SentInv'
  <2>1. ASSUME NEW c \in Components, NEW j \in 1..Len(outstanding'[c])
        PROVE  \E l \in 1..(next - 1) : /\ Script[l].op = "wait0" /\ Script[l].comp = c
                                        /\ outstanding'[c][j] = CommandOf(Script[l])
    <3>1. CASE c # d
      <4>1. outstanding'[c] = outstanding[c]
        BY <1>9, <3>1
      <4> QED
        BY <2>1, <4>1 DEF IInv, SentInv
    <3>2. CASE c = d
      <4>1. PICK l \in 1..Len(outstanding[d]) : outstanding'[d][j] = outstanding[d][l]
        BY <1>2, <1>3, <1>7, <2>1, <3>2
      <4> QED
        BY <3>2, <4>1 DEF IInv, SentInv
    <3> QED
      BY <3>1, <3>2
  <2> QED
    BY <1>10, <2>1 DEF SentInv
<1>16. DistinctInv'
  <2>1. ASSUME NEW c \in Components, NEW j \in 1..Len(outstanding'[c]),
               NEW l \in 1..Len(outstanding'[c]), outstanding'[c][j] = outstanding'[c][l]
        PROVE  j = l
    <3>1. CASE c # d
      BY <1>9, <2>1, <3>1 DEF IInv, DistinctInv
    <3>2. CASE c = d
      BY <1>3, <1>8, <2>1, <3>2
    <3> QED
      BY <3>1, <3>2
  <2> QED
    BY <2>1 DEF DistinctInv
<1>17. \A c \in Components : Sending(c)' <=> Sending(c)
  BY <1>10 DEF Sending
\* A command being sent is not one of those outstanding.
<1>18. Sending(d) => slot[d] = command /\ slot[d] # NONE /\ slot[d] # s[k]
  <2> SUFFICES ASSUME Sending(d) PROVE slot[d] = command /\ slot[d] # NONE /\ slot[d] # s[k]
    OBVIOUS
  <2>1. In("wait0") /\ slot[d] = command
    BY DEF Sending, IInv, SendingInv
  <2>2. /\ next \in 1..Len(Script) /\ command # NONE /\ command = CommandOf(Script[next])
        /\ Len(Script) \in Nat /\ Script[next].op = "wait0" /\ Script[next].comp = d
    BY <2>1, CallIs DEF IInv, Sending, call
  <2>3. PICK j \in 1..(next - 1) : Script[j].op = "wait0" /\ Script[j].comp = d
                                  /\ s[k] = CommandOf(Script[j])
    BY <1>1, <1>2 DEF IInv, SentInv
  <2>4. j \in 1..Len(Script) /\ j < next
    BY <2>2
  <2> QED
    BY <2>1, <2>2, <2>3, <2>4, ScriptIsSound DEF ScriptFacts, SendsOnce
<1>19. LastInv'
  <2>1. ASSUME in_order, NEW c \in Components
        PROVE  /\ slot'[c] = NONE => outstanding'[c] = <<>>
               /\ slot'[c] # NONE /\ ~Sending(c) =>
                    outstanding'[c] # <<>> /\ slot'[c] = outstanding'[c][Len(outstanding'[c])]
    <3>1. CASE c # d
      <4>1. outstanding'[c] = outstanding[c] /\ slot'[c] = slot[c]
        BY <1>9, <3>1
      <4> QED
        BY <2>1, <4>1 DEF IInv, LastInv
    <3>2. CASE c = d
      <4>1. PICK m \in Nat : m = Len(s) /\ m >= 1 /\ k = 1 /\ Len(r) = m - 1
              /\ \A j \in 1..(m - 1) : r[j] = s[j + 1]
        <5>1. k = 1
          BY <1>5, <2>1
        <5>2. 1 <= Len(s)
          BY <1>1, <1>2, <1>6, <5>1
        <5>3. \A j \in 1..(Len(s) - 1) : r[j] = s[j + 1]
          BY <1>6, <5>1
        <5> QED
          BY <1>6, <5>1, <5>2, <5>3
      <4>2. slot[d] # NONE
        <5>1. slot[d] = NONE => s = <<>>
          BY <1>2, <2>1 DEF IInv, LastInv
        <5> QED
          BY <4>1, <5>1
      <4>3. CASE Sending(d)
        BY <1>9, <1>18, <3>2, <4>2, <4>3
      <4>4. CASE ~Sending(d)
        <5>1. slot[d] = s[m]
          BY <1>2, <2>1, <4>1, <4>2, <4>4 DEF IInv, LastInv
        <5>2. slot[d] = s[1] <=> m = 1
          <6>1. 1 \in 1..m /\ m \in 1..m
            BY <4>1
          <6> QED
            BY <1>2, <4>1, <5>1, <6>1 DEF IInv, DistinctInv
        <5>3. CASE m = 1
          <6>1. r = <<>>
            BY <1>6, <4>1, <5>3
          <6>2. slot'[d] = NONE
            BY <1>9, <4>1, <5>2, <5>3
          <6> QED
            BY <1>3, <3>2, <6>1, <6>2
        <5>4. CASE m # 1
          <6>1. m - 1 \in 1..(m - 1) /\ (m - 1) + 1 = m
            BY <4>1, <5>4
          <6>2. r[Len(r)] = s[m] /\ r # <<>>
            BY <4>1, <6>1
          <6>3. slot'[d] = slot[d]
            BY <1>9, <4>1, <5>2, <5>4
          <6> QED
            BY <1>3, <3>2, <4>2, <5>1, <6>2, <6>3
        <5> QED
          BY <5>3, <5>4
      <4> QED
        BY <4>3, <4>4
    <3> QED
      BY <3>1, <3>2
  <2> QED
    BY <1>10, <1>17, <2>1 DEF LastInv
<1>20. SendingInv'
  <2>1. sending => In("wait0") /\ slot[call.comp] = command /\ call.comp \in Components
    BY CallIs DEF IInv, SendingInv
  <2>2. sending => slot'[call.comp] = command
    BY <1>9, <1>18, <2>1 DEF Sending
  <2>3. In("wait0")' <=> In("wait0")
    BY <1>10 DEF In
  <2> QED
    BY <1>10, <2>1, <2>2, <2>3 DEF SendingInv
<1>21. QuietInv'
  <2>1. ASSUME in_order, NEW c \in Components, Waited(next - 1, c)
        PROVE  outstanding'[c] = <<>> /\ (~Sending(c) => slot'[c] = NONE)
    <3>1. outstanding[c] = <<>> /\ (~Sending(c) => slot[c] = NONE)
      BY <2>1 DEF IInv, QuietInv
    <3>2. c # d
      BY <1>1, <3>1
    <3> QED
      BY <1>9, <3>1, <3>2
  <2>2. \A c : Waited(next - 1, c)' <=> Waited(next - 1, c)
    BY <1>10 DEF Waited
  <2> QED
    BY <1>10, <1>17, <2>1, <2>2 DEF QuietInv
<1>22. WaitedIsDone'
  <2>1. ASSUME in_order, NEW j \in 1..(next - 1), Script[j].op = "wait1"
        PROVE  ~Outstanding(Script[j].comp, CommandOf(Script[j]))'
    <3>1. ~Outstanding(Script[j].comp, CommandOf(Script[j]))
      BY <2>1 DEF IInv, WaitedIsDone, CommandOf
    <3>2. Len(Script) \in Nat /\ next \in 1..(Len(Script) + 1)
      BY ScriptIsCalls DEF IInv, TypeOK
    <3>3. Script[j].comp \in Components
      <4>1. j \in 1..Len(Script)
        BY <3>2
      <4> QED
        BY <4>1, ScriptIsCalls DEF Calls
    <3> QED
      BY <1>14, <3>1, <3>3
  <2>2. ASSUME in_order, NEW c \in Components, Outstanding(c, Executing)'
        PROVE  Len(outstanding'[c]) = 1
    <3>1. Len(outstanding[c]) = 1
      BY <1>14, <2>2 DEF IInv, WaitedIsDone, Executing
    <3>2. CASE c # d
      BY <1>9, <3>1, <3>2
    <3>3. CASE c = d
      <4>1. Len(r) = 0
        BY <1>2, <1>6, <3>1, <3>3
      <4>2. FALSE
        BY <1>3, <2>2, <3>3, <4>1 DEF Outstanding
      <4> QED
        BY <4>2
    <3> QED
      BY <3>2, <3>3
  <2> QED
    BY <1>10, <2>1, <2>2 DEF WaitedIsDone, CommandOf, Executing
<1> QED
  BY <1>12, <1>13, <1>15, <1>16, <1>19, <1>20, <1>21, <1>22 DEF IInv

LEMMA NextIInv == IInv /\ [Next]_vars => IInv'
<1> SUFFICES ASSUME IInv, [Next]_vars PROVE IInv'
  OBVIOUS
<1>1. CASE CallStep
  BY <1>1, Keep_init_component, Keep_wait0_record, Keep_wait0_send, Keep_wait1_return, Keep_sleep,
     Keep_alloc_buffers DEF CallStep
<1>2. CASE SpuriousWakeup
  BY <1>2, Keep_sleep
<1>3. CASE \E c \in Components : omx_event_handler(c)
  BY <1>3, Keep_omx_event_handler
<1>4. CASE UNCHANGED vars
  BY <1>4, Keep_sleep
<1> QED
  BY <1>1, <1>2, <1>3, <1>4 DEF Next

-----------------------------------------------------------------------------
(* The theorems *)

\* The inductive invariant: what is outstanding was sent by an earlier call, each command once; in
\* order, the slot holds the command that completes last.
THEOREM InvariantHolds == Spec => []IInv
BY InitIInv, NextIInv, PTL DEF Spec

\* decode_thread stays within its script; slots and queues only hold commands of it.
THEOREM TypeCorrect == Spec => []TypeOK
<1>1. IInv => TypeOK
  BY DEF IInv
<1> QED
  BY <1>1, InvariantHolds, PTL

\* A slot never holds a command whose completion omx_event_handler has already seen, in whatever
\* order the components complete: no wait1 waits for an event that has been and gone.
THEOREM SlotIsOutstandingHolds == Spec => []SlotIsOutstanding
<1>1. IInv => SlotIsOutstanding
  BY DEF IInv
<1> QED
  BY <1>1, InvariantHolds, PTL

\* With components that complete in order, a wait1 that has returned has waited for its command,
\* although another one has used the slot, and a component executes with nothing else outstanding.
THEOREM WaitedIsDoneHolds == Spec => []WaitedIsDone
<1>1. IInv => WaitedIsDone
  BY DEF IInv
<1> QED
  BY <1>1, InvariantHolds, PTL

-----------------------------------------------------------------------------
(* That a sleeper is woken *)

NeedsBuffers(r) == r.cmd = "PortEnable" /\ r.param \in {130, 201}

\* The buffers of a port are handed over by the call after the one that enables it.
EnablesAllocated ==
  \A i \in 1..Len(Script) :
    Script[i].op = "wait0" /\ NeedsBuffers(Script[i]) =>
      i + 1 \in 1..Len(Script) /\ Script[i + 1].op = "alloc" /\ Script[i + 1].param = Script[i].param

LEMMA ScriptAllocates == EnablesAllocated
<1>1. PICK s : Disables(s, Components) /\ Extends(Script, s, 26)
  BY ScriptIs
<1>2. s \in Seq(Calls)
  BY <1>1 DEF Disables
<1>3. PICK m \in Nat : m = Len(s)
  BY <1>2
<1>4. /\ Len(Script) = m + 26 /\ (\A i \in 1..m : Script[i] = s[i])
      /\ \A k \in 1..26 : Script[m + k] = Later[k]
  BY <1>1, <1>3 DEF Extends
<1>5. \A i \in 1..m : s[i].op \in {"wait0", "wait1"} => s[i].cmd = "PortDisable"
  BY <1>1, <1>3 DEF Disables
<1> SUFFICES ASSUME NEW i \in 1..(m + 26), Script[i].op = "wait0", NeedsBuffers(Script[i])
             PROVE  /\ i + 1 \in 1..(m + 26)
                    /\ Script[i + 1].op = "alloc" /\ Script[i + 1].param = Script[i].param
  BY <1>4 DEF EnablesAllocated
<1>6. ~(i \in 1..m)
  <2> SUFFICES ASSUME i \in 1..m PROVE FALSE
    OBVIOUS
  <2>1. Script[i] = s[i]
    BY <1>4
  <2>2. s[i].op = "wait0" /\ s[i].cmd = "PortEnable"
    BY <2>1 DEF NeedsBuffers
  <2>3. s[i].cmd = "PortDisable"
    BY <1>5, <2>2
  <2> QED
    BY <2>2, <2>3
<1>7. PICK k \in 1..26 : i = m + k
  <2>1. i - m \in 1..26 /\ i = m + (i - m)
    BY <1>6
  <2> QED
    BY <2>1
<1>8. Script[i] = Later[k]
  BY <1>4, <1>7
<1>9. k \in {5, 17}
  BY <1>8, LaterSends DEF Sends, Is, NeedsBuffers
<1>10. /\ Later[6].op = "alloc" /\ Later[6].param = Later[5].param
       /\ Later[18].op = "alloc" /\ Later[18].param = Later[17].param
  BY DEF Later, Call
<1>11. PICK l \in 1..26 : l = k + 1 /\ i + 1 = m + l
  BY <1>7, <1>9
<1>12. Script[i + 1] = Later[l]
  BY <1>4, <1>11
<1> QED
  BY <1>8, <1>9, <1>10, <1>11, <1>12

\* decode_thread sleeps only in wait1, on a slot that is taken, and what it has allocated
\* is what the calls so far say.
SleepInv ==
  /\ asleep => In("wait1") /\ slot[call.comp] # NONE
  /\ \A i \in 1..(next - 1) : Script[i].op = "alloc" => Script[i].param \in allocated

LEMMA InitSleepInv == Init => SleepInv
BY DEF Init, SleepInv

LEMMA NextSleepInv == IInv /\ SleepInv /\ [Next]_vars => SleepInv'
<1> SUFFICES ASSUME IInv, SleepInv, [Next]_vars PROVE SleepInv'
  OBVIOUS
<1>1. CASE UNCHANGED vars
  BY <1>1 DEF vars, SleepInv, In, call
<1>2. CASE init_component \/ wait0_send \/ wait1_return \/ alloc_buffers
  <2>1. PICK op \in {"init", "wait0", "wait1", "alloc"} : In(op)
    BY <1>2 DEF init_component, wait0_send, wait1_return, alloc_buffers
  <2>2. ~asleep /\ ~asleep' /\ next' = next + 1 /\ next \in Nat
    BY <1>2, <2>1, CallIs DEF init_component, wait0_send, wait1_return, alloc_buffers, IInv, SleepInv, In
  <2>3. ASSUME NEW i \in 1..(next' - 1), Script[i].op = "alloc"
        PROVE  Script[i].param \in allocated'
    <3>1. i \in 1..(next - 1) \/ i = next
      BY <2>2
    <3>2. allocated \subseteq allocated'
      BY <1>2 DEF init_component, wait0_send, wait1_return, alloc_buffers
    <3>3. CASE i \in 1..(next - 1)
      BY <2>3, <3>2, <3>3 DEF SleepInv
    <3>4. CASE i = next
      BY <1>2, <2>3, <3>4 DEF init_component, wait0_send, wait1_return, alloc_buffers, In, call
    <3> QED
      BY <3>1, <3>3, <3>4
  <2> QED
    BY <2>2, <2>3 DEF SleepInv
<1>3. CASE wait0_record
  BY <1>3 DEF wait0_record, SleepInv, In
<1>4. CASE wait1_sleep \/ SpuriousWakeup
  BY <1>4 DEF wait1_sleep, SpuriousWakeup, SleepInv, In, call
<1>5. ASSUME NEW d \in Components, omx_event_handler(d)
      PROVE  SleepInv'
  <2>1. UNCHANGED <<next, allocated>>
    BY <1>5 DEF omx_event_handler
  <2>2. \/ slot' = [slot EXCEPT ![d] = NONE] /\ asleep' = (asleep /\ call.comp # d)
        \/ UNCHANGED <<slot, asleep>>
    BY <1>5 DEF omx_event_handler
  <2>3. asleep' => In("wait1")' /\ slot'[call.comp] # NONE
    <3>1. asleep' => In("wait1") /\ slot[call.comp] # NONE
      BY <2>2 DEF SleepInv
    <3>2. In("wait1")' <=> In("wait1")
      BY <2>1 DEF In
    <3>3. In("wait1") => call.comp \in Components
      BY CallIs DEF IInv
    <3>4. CASE UNCHANGED <<slot, asleep>>
      BY <3>1, <3>2, <3>4
    <3>5. CASE slot' = [slot EXCEPT ![d] = NONE] /\ asleep' = (asleep /\ call.comp # d)
      <4>1. asleep' => call.comp # d
        BY <3>5
      <4>2. \A e \in Components \ {d} : slot'[e] = slot[e]
        BY <3>5 DEF IInv, TypeOK
      <4> QED
        BY <3>1, <3>2, <3>3, <4>1, <4>2
    <3> QED
      BY <2>2, <3>4, <3>5
  <2> QED
    BY <2>1, <2>3 DEF SleepInv, call
<1> QED
  BY <1>1, <1>2, <1>3, <1>4, <1>5 DEF Next, CallStep

\* While decode_thread sleeps in wait1, the component has a command that it can complete:
\* each port has its buffers before the first wait after its PortEnable.
THEOREM SleeperIsWokenHolds == Spec => []SleeperIsWoken
<1>1. IInv /\ SleepInv => SleeperIsWoken
  <2> SUFFICES ASSUME IInv, SleepInv, asleep
               PROVE  /\ In("wait1") /\ slot[call.comp] # NONE
                      /\ \E k \in 1..Len(outstanding[call.comp]) : Completable(call.comp, k)
    BY DEF SleeperIsWoken
  <2>1. In("wait1") /\ slot[call.comp] # NONE
    BY DEF SleepInv
  <2>2. /\ next \in 1..Len(Script) /\ Len(Script) \in Nat /\ Script[next].op = "wait1"
        /\ call.comp \in Components
    BY <2>1, CallIs DEF IInv, call
  <2>3. ~sending
    BY <2>1 DEF IInv, SendingInv, In
  <2>4. PICK c \in Components : c = call.comp
    BY <2>2
  <2>5. PICK q \in Seq(Commands) : q = outstanding[c]
    BY DEF IInv, TypeOK
  <2>6. 1 \in 1..Len(q)
    <3>1. PICK l \in 1..Len(q) : TRUE
      BY <2>1, <2>3, <2>4, <2>5 DEF IInv, SlotIsOutstanding, Outstanding
    <3> QED
      BY <3>1
  <2>7. PICK j \in 1..(next - 1) : Script[j].op = "wait0" /\ q[1] = CommandOf(Script[j])
    BY <2>5, <2>6 DEF IInv, SentInv
  <2>8. q[1].cmd = Script[j].cmd /\ q[1].param = Script[j].param
    BY <2>7 DEF CommandOf
  <2>9. NeedsBuffers(q[1]) => q[1].param \in allocated
    <3> SUFFICES ASSUME NeedsBuffers(q[1]) PROVE q[1].param \in allocated
      OBVIOUS
    <3>1. NeedsBuffers(Script[j]) /\ j \in 1..Len(Script)
      BY <2>2, <2>8 DEF NeedsBuffers
    <3>2. Script[j + 1].op = "alloc" /\ Script[j + 1].param = Script[j].param
      BY <2>7, <3>1, ScriptAllocates DEF EnablesAllocated
    <3>3. j + 1 # next
      BY <2>2, <3>2
    <3>4. j + 1 \in 1..(next - 1)
      BY <2>2, <3>3
    <3> QED
      BY <2>8, <3>2, <3>4 DEF SleepInv
  <2>10. Completable(c, 1)
    BY <2>5, <2>9 DEF Completable, NeedsBuffers
  <2> QED
    BY <2>1, <2>4, <2>5, <2>6, <2>10
<1> QED
  BY <1>1, InitSleepInv, NextSleepInv, InvariantHolds, PTL DEF Spec
=============================================================================
