SPECIFICATION MbSpec
CONSTANTS
  c0 = c0
  a = a
  b = b
  irq = irq
  m1 = m1
  m2 = m2
  Nobody = Nobody
  Threads <- MCThreads
  Cpus = {c0}
  Bind <- MCBind
  Lists = {"mbrecv", "mbsend"}
  Handlers = {irq}
  Prio <- MCPrio
  Flag = "FIFO"
  Waits = {"no", "forever"}
  Resets = FALSE
  Detachers = {}
  MbSize = 2
  MbEntryMax = 3
  Mails = {m1, m2}
  NoMail = NoMail
  MailOf <- MCPayload
INVARIANT
  MailsKept
