SPECIFICATION MCSpec
CONSTANTS
  c0 = c0
  a = a
  b = b
  irq = irq
  m1 = m1
  m2 = m2
  Nobody = Nobody
  Threads <- MCThreads
  Cpus = {c0}
  Bind <- MCBind
  Lists = {"recv", "send", "event", "mbrecv", "mbsend"}
  Handlers = {irq}
  Prio <- MCPrio
  Flag = "PRIO"
  Waits = {"no", "timed", "forever"}
  Resets = TRUE
  Detachers = {b}
  Nodes = {n1, n2}
  NoNode = NoNode
  Msgs = {m1, m2}
  NoMsg = NoMsg
  Payload <- MCPayload
  EntryMax = 2
  Events = {e1, e2}
  MbSize = 2
  MbEntryMax = 3
  Mails = {m1, m2}
  NoMail = NoMail
  MailOf <- MCPayload
CONSTRAINT
  Undisturbed
INVARIANTS
  NodesConserved
  NoWaitInVain
  NoWaiterSatisfied
  MailsServed
PROPERTIES
  DeliversInOrder
  EventsClearedOnce
