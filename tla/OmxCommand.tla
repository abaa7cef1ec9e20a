----------------------------- MODULE OmxCommand -----------------------------
(***************************************************************************)
(* Commands to OpenMAX components (omx.c).  A command is sent by one       *)
(* thread and completed by the component, whose event handler runs on a    *)
(* thread of its own.  Each component has ONE slot, component->cmd, in     *)
(* which the command being waited for is recorded; wait1 waits for the     *)
(* slot to be empty, whichever command filled it.                          *)
(*                                                                         *)
(* The sending thread is decode_thread, which runs through the commands of *)
(* omx_setup_encoding_pipeline and then through those of its two           *)
(* reconfiguration blocks.  They are written as a script: the sequence of  *)
(* calls the code makes, in its order.                                     *)
(***************************************************************************)
EXTENDS Naturals, Sequences

CONSTANTS
  Ports,   \* component -> the ports OMX_GetParameter reports, in order
  NONE     \* an empty slot

\* The ports of a component are told apart by their numbers.
ASSUME PortsAssumption ==
  /\ DOMAIN Ports = {"video_decode", "image_fx", "video_encode"}
  /\ \A c \in DOMAIN Ports :
       /\ Ports[c] \in Seq(Nat)
       /\ \A m, n \in 1..Len(Ports[c]) : Ports[c][m] = Ports[c][n] => m = n

\* The commands and their parameters: a port or a state.
Cmds   == {"GetHandle", "UseBuffer", "PortDisable", "PortEnable", "StateSet"}
Params == Nat \cup {"Idle", "Executing"}

ASSUME NoneAssumption == NONE \notin [cmd : Cmds, param : Params]

Components == {"video_decode", "image_fx", "video_encode"}

-----------------------------------------------------------------------------
(* The calls *)

Call(op, c, cmd, param) == <<[op |-> op, comp |-> c, cmd |-> cmd, param |-> param]>>

omx_send_command_and_wait0(c, cmd, param) == Call("wait0", c, cmd, param)
omx_send_command_and_wait1(c, cmd, param) == Call("wait1", c, cmd, param)
omx_alloc_buffers(c, port) == Call("alloc", c, "UseBuffer", port)

omx_send_command_and_wait(c, cmd, param) ==
  omx_send_command_and_wait0(c, cmd, param)
    \o omx_send_command_and_wait1(c, cmd, param)

\* One disable after the other, for every port of the component.
omx_disable_all_ports(c) ==
  LET disable[n \in 0..Len(Ports[c])] ==
        IF n = 0 THEN <<>>
        ELSE disable[n - 1]
               \o omx_send_command_and_wait(c, "PortDisable", Ports[c][n])
  IN  disable[Len(Ports[c])]

\* memset of the component, OMX_GetHandle, then all ports are disabled.
omx_init_component(c) == Call("init", c, "GetHandle", 0) \o omx_disable_all_ports(c)

omx_setup_encoding_pipeline ==
  omx_init_component("video_decode")
    \o omx_init_component("image_fx")
    \o omx_init_component("video_encode")
    \o omx_send_command_and_wait("video_decode", "StateSet", "Idle")
    \o omx_send_command_and_wait("image_fx", "StateSet", "Idle")
    \o omx_send_command_and_wait0("video_decode", "PortEnable", 130)
    \o omx_alloc_buffers("video_decode", 130)
    \o omx_send_command_and_wait1("video_decode", "PortEnable", 130)
    \o omx_send_command_and_wait("video_decode", "StateSet", "Executing")

\* decode_thread, once video_decode has announced its output format.
configure_deinterlacer ==
  omx_send_command_and_wait("video_decode", "PortEnable", 131)
    \o omx_send_command_and_wait("image_fx", "PortEnable", 190)
    \o omx_send_command_and_wait("image_fx", "StateSet", "Executing")

\* Mutants: the buffers are allocated only after the wait for the port, and the
\* port is not waited for.
Mut_configure_encoder_alloc_late ==
  omx_send_command_and_wait0("video_encode", "StateSet", "Idle")
    \o omx_send_command_and_wait("video_encode", "PortEnable", 201)
    \o omx_alloc_buffers("video_encode", 201)
    \o omx_send_command_and_wait1("video_encode", "StateSet", "Idle")
    \o omx_send_command_and_wait("video_encode", "StateSet", "Executing")

Mut_configure_encoder_no_wait ==
  omx_send_command_and_wait0("video_encode", "StateSet", "Idle")
    \o omx_send_command_and_wait0("video_encode", "PortEnable", 201)
    \o omx_alloc_buffers("video_encode", 201)
    \o omx_send_command_and_wait("video_encode", "StateSet", "Executing")

\* decode_thread, once image_fx has announced its output format.  The second wait0
\* overwrites the slot the first one filled.
configure_encoder ==
  omx_send_command_and_wait0("video_encode", "StateSet", "Idle")
    \o omx_send_command_and_wait0("video_encode", "PortEnable", 201)
    \o omx_alloc_buffers("video_encode", 201)
    \o omx_send_command_and_wait1("video_encode", "PortEnable", 201)
    \o omx_send_command_and_wait1("video_encode", "StateSet", "Idle")
    \o omx_send_command_and_wait0("image_fx", "PortEnable", 191)
    \o omx_send_command_and_wait0("video_encode", "PortEnable", 200)
    \o omx_send_command_and_wait1("video_encode", "PortEnable", 200)
    \o omx_send_command_and_wait1("image_fx", "PortEnable", 191)
    \o omx_send_command_and_wait("video_encode", "StateSet", "Executing")

Script == omx_setup_encoding_pipeline \o configure_deinterlacer \o configure_encoder

\* The commands the script ever sends.
Commands ==
  {[cmd |-> Script[i].cmd, param |-> Script[i].param] :
     i \in {j \in 1..Len(Script) : Script[j].op = "wait0"}}

-----------------------------------------------------------------------------
VARIABLES
  next,        \* index of the call decode_thread is in
  sending,     \* inside wait0: the slot is written, OMX_SendCommand not yet called
  asleep,      \* inside wait1: on cmd_queue_count_cv
  slot,        \* component -> component->cmd
  outstanding, \* component -> commands sent and not completed, oldest first
  allocated,   \* ports whose buffers have been handed over with OMX_UseBuffer
  in_order     \* the components complete commands in the order they got them

vars == <<next, sending, asleep, slot, outstanding, allocated, in_order>>

Init ==
  /\ next = 1 /\ sending = FALSE /\ asleep = FALSE
  /\ slot = [c \in Components |-> NONE]
  /\ outstanding = [c \in Components |-> <<>>]
  /\ allocated = {}
  /\ in_order \in BOOLEAN

In(op) == next <= Len(Script) /\ Script[next].op = op
call == Script[next]
command == [cmd |-> call.cmd, param |-> call.param]

\* omx_init_component: memset clears the slot.
init_component ==
  /\ In("init")
  /\ slot' = [slot EXCEPT ![call.comp] = NONE]
  /\ next' = next + 1
  /\ UNCHANGED <<sending, asleep, outstanding, allocated, in_order>>

\* omx_send_command_and_wait0 under cmd_queue_mutex ...
wait0_record ==
  /\ In("wait0")
  /\ ~sending
  /\ slot' = [slot EXCEPT ![call.comp] = command]
  /\ sending' = TRUE
  /\ UNCHANGED <<next, asleep, outstanding, allocated, in_order>>

\* ... and then OMX_SendCommand, without it.
wait0_send ==
  /\ In("wait0")
  /\ sending
  /\ outstanding' = [outstanding EXCEPT ![call.comp] = Append(@, command)]
  /\ sending' = FALSE
  /\ next' = next + 1
  /\ UNCHANGED <<asleep, slot, allocated, in_order>>

\* omx_send_command_and_wait1: the slot is empty, return.
wait1_return ==
  /\ In("wait1") /\ ~asleep
  /\ slot[call.comp] = NONE
  /\ next' = next + 1
  /\ UNCHANGED <<sending, asleep, slot, outstanding, allocated, in_order>>

\* The slot is taken: pthread_cond_wait.
wait1_sleep ==
  /\ In("wait1") /\ ~asleep
  /\ slot[call.comp] # NONE
  /\ asleep' = TRUE
  /\ UNCHANGED <<next, sending, slot, outstanding, allocated, in_order>>

SpuriousWakeup ==
  /\ asleep
  /\ asleep' = FALSE
  /\ UNCHANGED <<next, sending, slot, outstanding, allocated, in_order>>

\* omx_alloc_buffers hands over the buffers of a port.
alloc_buffers ==
  /\ In("alloc")
  /\ allocated' = allocated \cup {call.param}
  /\ next' = next + 1
  /\ UNCHANGED <<sending, asleep, slot, outstanding, in_order>>

\* The component may complete command k: enabling one of the two ports that are
\* not tunnelled takes the application's buffers.
Completable(c, k) ==
  LET command_k == outstanding[c][k]
  IN  /\ in_order => k = 1
      /\ command_k.cmd = "PortEnable" /\ command_k.param \in {130, 201}
           => command_k.param \in allocated

\* Mutant: only the sleeper is woken, the slot stays as it is.
Mut_event_handler_keep(c) ==
  \E k \in 1..Len(outstanding[c]) :
    /\ Completable(c, k)
    /\ outstanding' = [outstanding EXCEPT ![c] =
         SubSeq(@, 1, k - 1) \o SubSeq(@, k + 1, Len(@))]
    /\ asleep' = (asleep /\ call.comp # c)
    /\ UNCHANGED <<next, sending, slot, allocated, in_order>>

\* omx_event_handler, OMX_EventCmdComplete: the slot is emptied and the waiter
\* signalled only if it holds the command that has completed.
omx_event_handler(c) ==
  \E k \in 1..Len(outstanding[c]) :
    /\ Completable(c, k)
    /\ outstanding' = [outstanding EXCEPT ![c] =
         SubSeq(@, 1, k - 1) \o SubSeq(@, k + 1, Len(@))]
    /\ IF slot[c] = outstanding[c][k]
       THEN /\ slot' = [slot EXCEPT ![c] = NONE]
            /\ asleep' = (asleep /\ call.comp # c)
       ELSE UNCHANGED <<slot, asleep>>
    /\ UNCHANGED <<next, sending, allocated, in_order>>

CallStep ==
  \/ init_component
  \/ wait0_record
  \/ wait0_send
  \/ wait1_return
  \/ wait1_sleep
  \/ alloc_buffers

Next ==
  \/ CallStep
  \/ SpuriousWakeup
  \/ \E c \in Components : omx_event_handler(c)

Spec == Init /\ [][Next]_vars

\* decode_thread runs and every component completes what it can.
FairSpec ==
  /\ Spec
  /\ WF_vars(CallStep)
  /\ \A c \in Components : WF_vars(omx_event_handler(c))

-----------------------------------------------------------------------------
(* Properties *)

TypeOK ==
  /\ next \in 1..(Len(Script) + 1)
  /\ sending \in BOOLEAN /\ asleep \in BOOLEAN
  /\ slot \in [Components -> Commands \cup {NONE}]
  /\ outstanding \in [Components -> Seq(Commands)]
  /\ allocated \subseteq {130, 201}
  /\ in_order \in BOOLEAN

Outstanding(c, k) == \E i \in 1..Len(outstanding[c]) : outstanding[c][i] = k

\* A slot never holds a command whose completion has been and gone: it is recorded
\* before the command is sent, and emptied by its completion or overwritten.
\* Otherwise wait1 would wait for an event that cannot come.
SlotIsOutstanding ==
  \A c \in Components :
    slot[c] # NONE =>
      \/ Outstanding(c, slot[c])
      \/ In("wait0") /\ sending /\ call.comp = c /\ slot[c] = command

\* When wait1 has returned, the command it was called for has completed, although
\* it only looks at a slot that may have held another command; and a component that
\* has been told to execute has completed everything it was told before, so that its
\* ports are enabled and it is idle.  This needs the components to complete commands in
\* order: the wait for Idle in configure_encoder finds the slot emptied by a later command.
WaitedIsDone ==
  in_order =>
    /\ \A i \in 1..(next - 1) :
         Script[i].op = "wait1" =>
           ~Outstanding(Script[i].comp,
                        [cmd |-> Script[i].cmd, param |-> Script[i].param])
    /\ \A c \in Components :
         Outstanding(c, [cmd |-> "StateSet", param |-> "Executing"])
           => Len(outstanding[c]) = 1

\* No wake-up is lost and no wait waits for a later call: while decode_thread sleeps in
\* wait1 the slot is taken, and the component has a command it is able to complete, with
\* the buffers it needs for it already handed over.
SleeperIsWoken ==
  asleep =>
    /\ In("wait1") /\ slot[call.comp] # NONE
    /\ \E k \in 1..Len(outstanding[call.comp]) : Completable(call.comp, k)

\* Configuring the pipeline comes to an end: no wait1 sleeps for ever, whether or
\* not the components complete commands in order.
SetupFinishes == <>(next = Len(Script) + 1)
=============================================================================
