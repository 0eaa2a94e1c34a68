----------------------------- MODULE MailboxFifo -----------------------------
(***************************************************************************)
(* What an RT-Thread mailbox promises its callers: a bounded FIFO of mails.*)
(* It leaves out how the mails are stored, who is suspended, and when a    *)
(* timeout expires.  Module Mailbox implements it (Mailbox!FifoSpec).      *)
(***************************************************************************)
EXTENDS Naturals, Sequences

CONSTANTS
    Values,   \* the mails
    Size,     \* how many mails the mailbox holds
    None      \* "no value yet"

VARIABLES
    box,      \* the mails in the mailbox, oldest first
    done      \* the call that completed last: its code and its mail

fifoVars == <<box, done>>

Codes == {"EOK", "EFULL", "ETIMEOUT", "ERROR"}

Outcome(code, v) == [code |-> code, mail |-> v]

FifoInit ==
    /\ box = <<>>
    /\ done = Outcome("EOK", None)

\* A send that returns RT_EOK has put its mail behind all the others.
Put(v) ==
    /\ Len(box) < Size
    /\ box' = Append(box, v)
    /\ done' = Outcome("EOK", v)

\* A receive that returns RT_EOK has removed and delivered the oldest mail.
Take ==
    /\ box # <<>>
    /\ done' = Outcome("EOK", Head(box))
    /\ box' = Tail(box)

\* A call that fails touches no mail, and -RT_EFULL is said of a full mailbox.
Refuse(code) ==
    /\ code = "EFULL" => Len(box) = Size
    /\ done' = Outcome(code, None)
    /\ UNCHANGED box

\* rt_mb_control(RT_IPC_CMD_RESET) throws every mail away.
Clear ==
    /\ box' = <<>>
    /\ UNCHANGED done

FifoNext ==
    \/ \E v \in Values : Put(v)
    \/ Take
    \/ \E code \in Codes \ {"EOK"} : Refuse(code)
    \/ Clear

FifoSpec == FifoInit /\ [][FifoNext]_fifoVars
==============================================================================
