------------------------------ MODULE Channel ------------------------------
(***************************************************************************)
(* What fifo<T> of sync.h promises: an unbounded queue whose pop blocks    *)
(* while it is empty.  Sync.tla implements this module (see                *)
(* Sync!BlockingQueue).  Nothing is said of the order in which blocked     *)
(* coroutines are served: one that has not blocked may take the item that  *)
(* another was woken for.                                                  *)
(***************************************************************************)
EXTENDS Integers, Sequences

CONSTANTS Clients, Items

VARIABLES
  items,   \* pushed and not yet popped, oldest first
  asking   \* clients blocked in pop

cvars == <<items, asking>>

Init == items = <<>> /\ asking = {}

Push ==
  /\ \E x \in Items : items' = Append(items, x)
  /\ UNCHANGED asking

Ask ==
  /\ items = <<>>
  /\ \E c \in Clients \ asking : asking' = asking \cup {c}
  /\ UNCHANGED items

\* A pop that finds an item does not block.
TakeNow ==
  /\ items # <<>>
  /\ items' = Tail(items)
  /\ UNCHANGED asking

\* A blocked client gets its item.
Serve ==
  /\ items # <<>>
  /\ \E c \in asking : asking' = asking \ {c}
  /\ items' = Tail(items)

Next == Push \/ Ask \/ TakeNow \/ Serve

\* While there are items and blocked clients, a client is served in the end.
Spec == Init /\ [][Next]_cvars /\ WF_cvars(Serve)
=============================================================================
