---------------------------- MODULE ServiceProofs ----------------------------
(***************************************************************************)
(* Proofs about the services without suspend lists of IPC objects: the lock *)
(* of the DMA channels (DmaLock), the ring buffer (RingBuffer), the pipe    *)
(* (Pipe), the end of threads (Defunct), the work queue (WorkQueue), the    *)
(* heap (Heap) and the timers (Timer).                                      *)
(***************************************************************************)
EXTENDS DmaLock, RingBuffer, Pipe, Defunct, WorkQueue, Heap, Timer, ListProofs,
        FiniteSetTheorems

-----------------------------------------------------------------------------
(***************************************************************************)
(* Proofs about module DmaLock, for every number of channels and every     *)
(* finite set of users.                                                    *)
(***************************************************************************)

\* User u answers for the mark in channel_used[c].
Claims(u, c) ==
    \/ at[u] = "name" /\ i[u] = c
    \/ at[u] \in {"unlock", "in", "free"} /\ chn[u] = c

\* The users between rt_sem_take and rt_sem_release.
DmaInside == {u \in Users : at[u] # "out"}

\* Each user inside has one of the tokens.
TokensCounted == tokens + Cardinality(DmaInside) = Channels

\* The mutex protects the search.
SearchLocked ==
    \A u \in Users : at[u] \in {"scan", "mark", "name", "unlock"} => dmaOwner = u

\* A channel is marked exactly while one user answers for the mark.
MarksClaimed ==
    /\ \A c \in Chans : channelUsed[c] <=> \E u \in Users : Claims(u, c)
    /\ \A u, v \in Users : \A c \in Chans : Claims(u, c) /\ Claims(v, c) => u = v

\* Where the search of each user has led, and the name it has left.
SearchResult ==
    \A u \in Users :
        /\ at[u] = "scan" => \E c \in i[u]..Channels - 1 : ~channelUsed[c]
        /\ at[u] = "mark" => i[u] \in Chans /\ ~channelUsed[i[u]]
        /\ at[u] = "name" => i[u] \in Chans
        /\ at[u] \in {"unlock", "in", "free"} => chn[u] \in Chans
        /\ at[u] \in {"unlock", "in"} => channelName[chn[u]] = u

\* The inductive invariant.  That a search does not fail rests on the count of
\* the tokens: more channels than users who answer for one.
DmaInv ==
    /\ DmaTypeOK
    /\ TokensCounted
    /\ SearchLocked
    /\ MarksClaimed
    /\ SearchResult

-----------------------------------------------------------------------------

LEMMA ChansCardinality == IsFiniteSet(Chans) /\ Cardinality(Chans) = Channels
<1>1. 0 \in Int /\ Channels - 1 \in Int /\ ~(0 > Channels - 1) /\ (Channels - 1) - 0 + 1 = Channels
  BY DmaAssumption
<1>2. IsFiniteSet(0..Channels - 1)
  BY <1>1, FS_Interval
<1>3. Cardinality(0..Channels - 1) = IF 0 > Channels - 1 THEN 0 ELSE (Channels - 1) - 0 + 1
  BY <1>1, FS_Interval
<1> QED
  BY <1>1, <1>2, <1>3 DEF Chans

\* Initially every token is there and no channel is marked.
LEMMA DmaInitInv == DmaInit => DmaInv
<1> SUFFICES ASSUME DmaInit PROVE DmaInv
  OBVIOUS
<1> USE DmaAssumption
<1>1. DmaTypeOK
  BY DEF DmaInit, DmaTypeOK
<1>2. TokensCounted
  <2>1. DmaInside = {}
    BY DEF DmaInit, DmaInside
  <2> QED
    BY <2>1, FS_EmptySet DEF DmaInit, TokensCounted
<1>3. SearchLocked /\ MarksClaimed /\ SearchResult
  BY DEF DmaInit, SearchLocked, MarksClaimed, SearchResult, Claims
<1> QED
  BY <1>1, <1>2, <1>3 DEF DmaInv

\* A user with a token who answers for no channel: some channel is not marked.
LEMMA SomeChannelFree ==
    ASSUME DmaInv, NEW u \in Users, at[u] = "lock"
    PROVE  \E c \in Chans : ~channelUsed[c]
<1> SUFFICES ASSUME \A c \in Chans : channelUsed[c] PROVE FALSE
  OBVIOUS
<1> DEFINE Others == DmaInside \ {u}
           f == [c \in Chans |-> CHOOSE v \in Users : Claims(v, c)]
<1>1. \A c \in Chans : f[c] \in Users /\ Claims(f[c], c)
  BY DEF DmaInv, MarksClaimed
<1>2. \A c \in Chans : f[c] \in Others
  BY <1>1 DEF DmaInside, Claims
<1>3. IsFiniteSet(Others) /\ Cardinality(Others) < Cardinality(Chans)
  <2>1. IsFiniteSet(DmaInside) /\ u \in DmaInside
    BY DmaAssumption, FS_Subset DEF DmaInside
  <2>2. /\ IsFiniteSet(Others) /\ Cardinality(Others) = Cardinality(DmaInside) - 1
        /\ Cardinality(DmaInside) \in Nat
    BY <2>1, FS_RemoveElement, FS_CardinalityType
  <2>3. Cardinality(DmaInside) <= Channels
    BY <2>2, DmaAssumption DEF DmaInv, TokensCounted, DmaTypeOK
  <2> QED
    BY <2>2, <2>3, ChansCardinality, DmaAssumption
<1>4. f \in [Chans -> Others]
  BY <1>2
<1>5. PICK c, d \in Chans : c # d /\ f[c] = f[d]
  <2> HIDE DEF f, Others
  <2> QED
    BY <1>3, <1>4, ChansCardinality, FS_PigeonHole
<1>6. Claims(f[c], c) /\ Claims(f[c], d)
  BY <1>1, <1>5
<1> QED
  BY <1>5, <1>6 DEF Claims

\* The step of one user keeps the types and the count of the tokens.
LEMMA DmaTypeStep == DmaInv /\ [DmaNext]_dmaVars => (DmaTypeOK /\ TokensCounted)'
<1> SUFFICES ASSUME DmaInv, [DmaNext]_dmaVars PROVE (DmaTypeOK /\ TokensCounted)'
  OBVIOUS
<1> USE DmaAssumption
<1>0. IsFiniteSet(DmaInside) /\ Cardinality(DmaInside) \in Nat
  BY FS_Subset, FS_CardinalityType DEF DmaInside
<1>1. ASSUME NEW u \in Users, TakeToken(u) PROVE (DmaTypeOK /\ TokensCounted)'
  <2>1. DmaInside' = DmaInside \cup {u} /\ u \notin DmaInside
    BY <1>1 DEF TakeToken, Go, DmaInside, DmaInv, DmaTypeOK
  <2>2. Cardinality(DmaInside') = Cardinality(DmaInside) + 1
    BY <2>1, <1>0, FS_AddElement
  <2>3. DmaTypeOK'
    BY <1>1 DEF TakeToken, Go, DmaInv, DmaTypeOK
  <2> QED
    BY <1>0, <1>1, <2>2, <2>3 DEF TakeToken, DmaInv, DmaTypeOK, TokensCounted
<1>2. ASSUME NEW u \in Users, Post(u) PROVE (DmaTypeOK /\ TokensCounted)'
  <2>1. DmaInside' = DmaInside \ {u} /\ u \in DmaInside
    BY <1>2 DEF Post, Go, DmaInside, DmaInv, DmaTypeOK
  <2>2. Cardinality(DmaInside') = Cardinality(DmaInside) - 1
    BY <2>1, <1>0, FS_RemoveElement
  <2>3. Cardinality(DmaInside) >= 1
    BY <2>1, <1>0, FS_EmptySet
  <2>4. tokens' = tokens + 1 /\ tokens \in Nat /\ tokens + Cardinality(DmaInside) = Channels
    BY <1>2 DEF Post, DmaInv, DmaTypeOK, TokensCounted
  <2>5. tokens' \in 0..Channels
    BY <1>0, <2>3, <2>4
  <2>6. DmaTypeOK'
    BY <1>2, <2>5 DEF Post, Go, DmaInv, DmaTypeOK
  <2> QED
    BY <1>0, <2>2, <2>4, <2>6 DEF TokensCounted
<1>3. ASSUME NEW u \in Users,
             Lock(u) \/ Scan(u) \/ Mark(u) \/ Name(u) \/ Unlock(u) \/ ClearName(u) \/ FreeChannel(u)
      PROVE  (DmaTypeOK /\ TokensCounted)'
  <2>1. at[u] # "out" /\ at'[u] # "out" /\ tokens' = tokens /\ \A v \in Users \ {u} : at'[v] = at[v]
    <3>1. CASE ClearName(u)
      <4>1. chn[u] \in Chans /\ ~(chn[u] >= Channels)
        BY <3>1 DEF ClearName, DmaInv, SearchResult, Chans
      <4> QED
        BY <3>1, <4>1 DEF ClearName, Go, DmaInv, DmaTypeOK
    <3> QED
      BY <1>3, <3>1 DEF Lock, Scan, Mark, Name, Unlock, FreeChannel, Go, DmaInv, DmaTypeOK
  <2>2. DmaInside' = DmaInside
    BY <2>1 DEF DmaInside
  <2>3. TokensCounted'
    BY <2>1, <2>2 DEF TokensCounted, DmaInv
  <2>4. DmaTypeOK'
    <3> USE DEF DmaInv, DmaTypeOK, Go, Chans
    <3>1. CASE Lock(u)
      <4>1. /\ 0 \in 0..Channels /\ i' = [i EXCEPT ![u] = 0] /\ at' = [at EXCEPT ![u] = "scan"]
            /\ dmaOwner' = u /\ UNCHANGED <<tokens, channelUsed, channelName, chn>>
        BY <3>1 DEF Lock
      <4> QED
        BY <4>1
    <3>2. CASE Unlock(u)
      BY <3>2 DEF Unlock
    <3>3. CASE Mark(u)
      BY <3>3 DEF Mark
    <3>4. CASE FreeChannel(u)
      BY <3>4 DEF FreeChannel
    <3>5. CASE Scan(u)
      <4>1. i[u] # Channels => i[u] + 1 \in 0..Channels
        BY <3>5
      <4>2. /\ i' = i \/ (i[u] # Channels /\ i' = [i EXCEPT ![u] = i[u] + 1])
            /\ at' = at \/ at' = [at EXCEPT ![u] = "mark"] \/ at' = [at EXCEPT ![u] = "unlock"]
            /\ UNCHANGED <<tokens, dmaOwner, channelUsed, channelName, chn>>
        BY <3>5 DEF Scan
      <4>3. i' \in [Users -> 0..Channels]
        BY <4>1, <4>2
      <4>4. at' \in [Users -> {"out", "lock", "scan", "mark", "name", "unlock", "in", "free", "post"}]
        BY <4>2
      <4> QED
        BY <4>2, <4>3, <4>4
    <3>6. CASE Name(u)
      BY <3>6 DEF Name
    <3>7. CASE ClearName(u)
      BY <3>7 DEF ClearName
    <3> QED
      BY <1>3, <3>1, <3>2, <3>3, <3>4, <3>5, <3>6, <3>7
  <2> QED
    BY <2>3, <2>4
<1>4. CASE UNCHANGED dmaVars
  <2>1. DmaInside' = DmaInside
    BY <1>4 DEF dmaVars, DmaInside
  <2> QED
    BY <1>4, <2>1 DEF dmaVars, DmaInv, DmaTypeOK, TokensCounted
<1> QED
  BY <1>1, <1>2, <1>3, <1>4 DEF DmaNext

\* The step of one user keeps the mutex, the marks and the results of the searches.
LEMMA DmaSearchStep ==
    DmaInv /\ [DmaNext]_dmaVars => (SearchLocked /\ MarksClaimed /\ SearchResult)'
<1> SUFFICES ASSUME DmaInv, [DmaNext]_dmaVars
             PROVE  (SearchLocked /\ MarksClaimed /\ SearchResult)'
  OBVIOUS
<1> USE DmaAssumption DEF DmaInv, DmaTypeOK, Chans, Go, SearchLocked, MarksClaimed, SearchResult, Claims
<1>1. ASSUME NEW u \in Users, TakeToken(u)
      PROVE  (SearchLocked /\ MarksClaimed /\ SearchResult)'
  BY <1>1 DEF TakeToken
<1>10. ASSUME NEW u \in Users, Post(u)
      PROVE  (SearchLocked /\ MarksClaimed /\ SearchResult)'
  <2>1. \A v \in Users \ {u} : at'[v] = at[v] /\ chn'[v] = chn[v] /\ i'[v] = i[v]
    BY <1>10 DEF Post
  <2>2. at[u] = "post" /\ at'[u] = "out" /\ UNCHANGED <<dmaOwner, channelUsed, channelName, i>>
    BY <1>10 DEF Post
  <2>3. \A v \in Users, c \in Chans : Claims(v, c)' <=> Claims(v, c)
    BY <2>1, <2>2
  <2>4. MarksClaimed'
    BY <2>2, <2>3
  <2> QED
    BY <2>1, <2>2, <2>4
<1>2. ASSUME NEW u \in Users, Lock(u)
      PROVE  (SearchLocked /\ MarksClaimed /\ SearchResult)'
  <2>1. \E c \in 0..Channels - 1 : ~channelUsed[c]
    BY <1>2, SomeChannelFree DEF Lock
  <2>2. i'[u] = 0 /\ channelUsed' = channelUsed
    BY <1>2 DEF Lock
  <2>3. \E c \in i'[u]..Channels - 1 : ~channelUsed'[c]
    BY <2>1, <2>2
  <2> QED
    BY <1>2, <2>3 DEF Lock
<1>3. ASSUME NEW u \in Users, Scan(u)
      PROVE  (SearchLocked /\ MarksClaimed /\ SearchResult)'
  <2>1. PICK c \in i[u]..Channels - 1 : ~channelUsed[c]
    BY <1>3 DEF Scan
  <2>2. i[u] \in 0..Channels - 1
    BY <2>1
  <2>3. CASE channelUsed[i[u]]
    <3>1. i' = [i EXCEPT ![u] = i[u] + 1] /\ UNCHANGED <<at, tokens, dmaOwner, channelUsed, channelName, chn>>
      BY <1>3, <2>2, <2>3 DEF Scan
    <3>2. c \in i'[u]..Channels - 1
      BY <2>1, <2>2, <2>3, <3>1
    <3> QED
      BY SMTT(30), <1>3, <2>1, <3>1, <3>2 DEF Scan
  <2>4. CASE ~channelUsed[i[u]]
    <3>1. at' = [at EXCEPT ![u] = "mark"] /\ UNCHANGED <<i, tokens, dmaOwner, channelUsed, channelName, chn>>
      BY <1>3, <2>2, <2>4 DEF Scan
    <3> QED
      BY <1>3, <2>2, <2>4, <3>1 DEF Scan
  <2> QED
    BY <2>3, <2>4
<1>4. ASSUME NEW u \in Users, Mark(u)
      PROVE  (SearchLocked /\ MarksClaimed /\ SearchResult)'
  <2>1. \A v \in Users \ {u} : at[v] \notin {"scan", "mark", "name", "unlock"}
    BY <1>4 DEF Mark
  <2>2. i[u] \in Chans /\ ~channelUsed[i[u]] /\ at'[u] = "name" /\ UNCHANGED <<dmaOwner, channelName, i, chn>>
    BY <1>4 DEF Mark
  <2>3. /\ \A v \in Users \ {u} : at'[v] = at[v]
        /\ channelUsed' = [channelUsed EXCEPT ![i[u]] = TRUE]
    BY <1>4 DEF Mark
  <2>4. \A v \in Users, c \in Chans :
          Claims(v, c)' <=> Claims(v, c) \/ (v = u /\ c = i[u])
    BY <1>4, <2>2, <2>3 DEF Mark
  <2>5. \A v \in Users : ~Claims(v, i[u])
    BY <2>2
  <2>6. MarksClaimed'
    <3> HIDE DEF Claims
    <3>1. \A c \in Chans : channelUsed'[c] <=> channelUsed[c] \/ c = i[u]
      BY <2>2, <2>3
    <3> QED
      BY <2>2, <2>4, <2>5, <3>1
  <2>7. SearchLocked'
    BY <1>4 DEF Mark
  <2>8. SearchResult'
    BY <2>1, <2>2, <2>3
  <2> QED
    BY <2>6, <2>7, <2>8
<1>5. ASSUME NEW u \in Users, Name(u)
      PROVE  (SearchLocked /\ MarksClaimed /\ SearchResult)'
  BY <1>5 DEF Name
<1>6. ASSUME NEW u \in Users, Unlock(u)
      PROVE  (SearchLocked /\ MarksClaimed /\ SearchResult)'
  BY <1>6 DEF Unlock
<1>7. ASSUME NEW u \in Users, ClearName(u)
      PROVE  (SearchLocked /\ MarksClaimed /\ SearchResult)'
  <2>1. /\ chn[u] \in Chans /\ at[u] = "in" /\ at' = [at EXCEPT ![u] = "free"]
        /\ channelName' = [channelName EXCEPT ![chn[u]] = NoUser]
        /\ UNCHANGED <<tokens, dmaOwner, channelUsed, i, chn>>
    BY <1>7 DEF ClearName
  <2>2. \A v \in Users, c \in Chans : Claims(v, c)' <=> Claims(v, c)
    BY <2>1
  <2>3. MarksClaimed'
    BY <2>1, <2>2
  <2>4. \A v \in Users \ {u} : at[v] \in {"unlock", "in"} => chn[v] # chn[u]
    BY <2>1
  <2>5. SearchResult'
    BY <2>1, <2>4
  <2> QED
    BY <2>1, <2>3, <2>5
<1>8. ASSUME NEW u \in Users, FreeChannel(u)
      PROVE  (SearchLocked /\ MarksClaimed /\ SearchResult)'
  BY <1>8 DEF FreeChannel
<1>9. CASE UNCHANGED dmaVars
  BY <1>9 DEF dmaVars
<1> QED
  BY <1>1, <1>2, <1>3, <1>4, <1>5, <1>6, <1>7, <1>8, <1>9, <1>10 DEF DmaNext

LEMMA DmaInductive == DmaSpec => []DmaInv
<1>1. DmaInv /\ [DmaNext]_dmaVars => DmaInv'
  BY DmaTypeStep, DmaSearchStep DEF DmaInv
<1> QED
  BY DmaInitInv, <1>1, PTL DEF DmaSpec

-----------------------------------------------------------------------------

\* The variables of dmalock.c stay in their types: in particular dma_sem never
\* counts more than DMAC_CHANNEL_COUNT.
THEOREM DmaTypes == DmaSpec => []DmaTypeOK
<1>1. DmaInv => DmaTypeOK
  BY DEF DmaInv
<1> QED
  BY DmaInductive, <1>1, PTL

\* _dmalock_sync_take: whoever gets a token from dma_sem gets a channel, however
\* many users take and release channels at the same time.
THEOREM DmaTokenFindsChannel == DmaSpec => []TokenFindsChannel
<1>1. DmaInv => TokenFindsChannel
  BY DEF DmaInv, SearchResult, TokenFindsChannel
<1> QED
  BY DmaInductive, <1>1, PTL

\* A channel that _dmalock_sync_take returned is marked, bears the name of its
\* user and is nobody else's until dmalock_release.
THEOREM DmaHeldByOne == DmaSpec => []HeldByOne
<1>1. DmaInv => HeldByOne
  <2> SUFFICES ASSUME DmaInv, NEW u \in Users, at[u] \in {"unlock", "in"}
               PROVE  /\ channelUsed[chn[u]] /\ channelName[chn[u]] = u
                      /\ \A v \in Users \ {u} : at[v] \in {"unlock", "in", "free"} => chn[v] # chn[u]
    BY DEF HeldByOne
  <2>1. chn[u] \in Chans /\ channelName[chn[u]] = u /\ Claims(u, chn[u])
    BY DEF DmaInv, SearchResult, Claims
  <2>2. channelUsed[chn[u]]
    BY <2>1 DEF DmaInv, MarksClaimed
  <2>3. ASSUME NEW v \in Users \ {u}, at[v] \in {"unlock", "in", "free"} PROVE chn[v] # chn[u]
    BY <2>1, <2>3 DEF DmaInv, MarksClaimed, Claims
  <2> QED
    BY <2>1, <2>2, <2>3
<1> QED
  BY DmaInductive, <1>1, PTL

\* Both together: for any number of users and channels, a token of dma_sem is worth
\* a channel of one's own.
THEOREM DmaChannelsServed == DmaSpec => []ChannelsServed
<1>1. TokenFindsChannel /\ HeldByOne <=> ChannelsServed
  BY DEF ChannelsServed
<1> QED
  BY DmaTokenFindsChannel, DmaHeldByOne, <1>1, PTL

-----------------------------------------------------------------------------
(***************************************************************************)
(* The theorems about module RingBuffer, for every size of the buffer and   *)
(* every length.                                                            *)
(*                                                                         *)
(* Two equal indices leave open how many bytes there are, and two different *)
(* ones which of them is ahead: the inductive invariant says what the       *)
(* mirror bits mean.  On one side of the mirror the read position is not    *)
(* behind the write position, on different sides it is not before it.       *)
(***************************************************************************)

Mirrors ==
    /\ readMirror = writeMirror => readIndex <= writeIndex
    /\ readMirror # writeMirror => writeIndex <= readIndex

RbInv == RbTypeOK /\ Mirrors /\ RingExact

-----------------------------------------------------------------------------
(* The lengths *)

\* rt_ringbuffer_data_len never exceeds the buffer.
LEMMA DataLenBounded ==
    ASSUME RbTypeOK, Mirrors
    PROVE  /\ DataLen \in 0..RbSize /\ SpaceLen \in 0..RbSize
           /\ readMirror = writeMirror => DataLen = writeIndex - readIndex
           /\ readMirror # writeMirror => DataLen = RbSize + writeIndex - readIndex
  BY RbAssumption DEF RbTypeOK, Mirrors, DataLen, SpaceLen, Cells

\* The mirror bits tell which position is ahead, before a step and after it.
Ahead == DataLen = IF readMirror = writeMirror THEN writeIndex - readIndex
                   ELSE RbSize + writeIndex - readIndex

LEMMA DataLenAhead == RbTypeOK /\ Mirrors => Ahead
  BY DataLenBounded DEF Ahead

LEMMA DataLenAheadNext == RbTypeOK' /\ Mirrors' => Ahead'
  BY DataLenAhead, PTL

LEMMA RbInitial == RbInit => RbInv
  BY RbAssumption DEF RbInit, RbInv, RbTypeOK, Mirrors, RingExact, LengthExact, BytesInOrder,
     DataLen, Cells, Unused

-----------------------------------------------------------------------------
(* A put *)

\* Length bytes are written where the buffer is free: the write position goes on, and
\* what was there before stays where it was.
LEMMA PutOn ==
    ASSUME RbInv, NEW n \in 1..SpaceLen, RbTypeOK',
           rbCells' = Written(n, rbPut), WriteOn(n), rbPut' = rbPut + n,
           UNCHANGED <<readIndex, readMirror, rbGot>>
    PROVE  RbInv'
<1> USE RbAssumption DEF RbInv, RbTypeOK, Cells
<1>1. DataLen \in 0..RbSize /\ SpaceLen = RbSize - DataLen
  BY DataLenBounded DEF SpaceLen
<1>2. n \in 1..RbSize
  BY <1>1
<1>3. Mirrors'
  BY <1>1, <1>2, DataLenBounded DEF Mirrors, WriteOn, SpaceLen
<1>4. DataLen' = DataLen + n
  <2>1. DataLen' = IF readMirror' = writeMirror' THEN writeIndex' - readIndex'
                   ELSE RbSize + writeIndex' - readIndex'
    BY <1>3, DataLenAheadNext DEF Ahead
  <2>2. DataLen = IF readMirror = writeMirror THEN writeIndex - readIndex
                  ELSE RbSize + writeIndex - readIndex
    BY DataLenBounded
  <2>3. CASE RbSize - writeIndex > n
    BY <1>2, <2>1, <2>2, <2>3 DEF WriteOn
  <2>4. CASE ~(RbSize - writeIndex > n)
    <3>1. readMirror = writeMirror
      BY <1>1, <1>2, <2>2, <2>4
    <3>2. readMirror' # writeMirror' /\ writeIndex' = n - (RbSize - writeIndex)
      BY <2>4, <3>1 DEF WriteOn
    <3> QED
      BY <1>2, <2>1, <2>2, <3>1, <3>2
  <2> QED
    BY <2>3, <2>4
<1>5. LengthExact'
  BY <1>1, <1>4 DEF RingExact, LengthExact
<1>6. BytesInOrder'
  <2> SUFFICES ASSUME NEW k \in Cells, k < DataLen'
               PROVE  rbCells'[IF readIndex + k < RbSize THEN readIndex + k
                               ELSE readIndex + k - RbSize] = rbGot + k
    BY DEF BytesInOrder
  <2> DEFINE cell == IF readIndex + k < RbSize THEN readIndex + k ELSE readIndex + k - RbSize
  <2>1. cell \in Cells
    OBVIOUS
  <2>2. CASE k < DataLen
    <3>1. rbCells[cell] = rbGot + k
      BY <2>2 DEF RingExact, BytesInOrder
    <3>2. ~(writeIndex <= cell /\ cell < writeIndex + n) /\ ~(cell < writeIndex + n - RbSize)
      BY <1>1, <1>2, <2>2, DataLenBounded DEF Mirrors
    <3> QED
      BY <2>1, <3>1, <3>2 DEF Written
  <2>3. CASE DataLen <= k
    <3>1. rbGot + k = rbPut + (k - DataLen)
      BY <1>1 DEF RingExact, LengthExact
    <3>2. IF writeIndex <= cell /\ cell < writeIndex + n THEN cell - writeIndex = k - DataLen
          ELSE cell < writeIndex + n - RbSize /\ cell + (RbSize - writeIndex) = k - DataLen
      BY <1>1, <1>2, <1>4, <2>3, DataLenBounded DEF Mirrors
    <3>3. CASE writeIndex <= cell /\ cell < writeIndex + n
      <4>1. rbCells'[cell] = rbPut + (cell - writeIndex)
        BY <2>1, <3>3 DEF Written
      <4> QED
        BY <3>1, <3>2, <3>3, <4>1
    <3>4. CASE ~(writeIndex <= cell /\ cell < writeIndex + n)
      <4>1. rbCells'[cell] = rbPut + (cell + (RbSize - writeIndex))
        BY <2>1, <3>2, <3>4 DEF Written
      <4> QED
        BY <3>1, <3>2, <3>4, <4>1
    <3> QED
      BY <3>3, <3>4
  <2> QED
    BY <1>1, <2>2, <2>3
<1> QED
  BY <1>3, <1>5, <1>6 DEF RingExact

-----------------------------------------------------------------------------
(* A read *)

\* The read position goes on over n bytes of the buffer.
LEMMA GetOn ==
    ASSUME RbInv, NEW n \in 0..DataLen, RbTypeOK', Mirrors',
           DataLen' = DataLen - n, rbGot' = rbGot + n,
           readIndex' = IF readIndex + n < RbSize THEN readIndex + n ELSE readIndex + n - RbSize,
           UNCHANGED <<rbCells, rbPut>>
    PROVE  RbInv'
<1> USE RbAssumption DEF RbInv, RbTypeOK, Cells
<1>1. DataLen \in 0..RbSize
  BY DataLenBounded
<1>2. LengthExact'
  BY <1>1 DEF RingExact, LengthExact
<1>3. BytesInOrder'
  <2> SUFFICES ASSUME NEW k \in Cells, k < DataLen'
               PROVE  rbCells'[IF readIndex' + k < RbSize THEN readIndex' + k
                               ELSE readIndex' + k - RbSize] = rbGot' + k
    BY DEF BytesInOrder
  <2>1. n + k \in Cells /\ n + k < DataLen
    BY <1>1
  <2>2. rbCells[IF readIndex + (n + k) < RbSize THEN readIndex + (n + k)
                ELSE readIndex + (n + k) - RbSize] = rbGot + (n + k)
    BY <2>1 DEF RingExact, BytesInOrder
  <2>3. (IF readIndex' + k < RbSize THEN readIndex' + k ELSE readIndex' + k - RbSize)
          = IF readIndex + (n + k) < RbSize THEN readIndex + (n + k)
            ELSE readIndex + (n + k) - RbSize
    BY <1>1, <2>1
  <2> QED
    BY <1>1, <2>2, <2>3
<1> QED
  BY <1>2, <1>3 DEF RingExact

\* What rt_ringbuffer_get does to the read position.
LEMMA ReadOnStep ==
    ASSUME RbInv, NEW n \in 1..DataLen, ReadOn(n), Gets(n),
           UNCHANGED <<rbCells, writeIndex, writeMirror, rbPut>>
    PROVE  RbInv'
<1> USE RbAssumption DEF RbInv, RbTypeOK, Cells
<1>1. /\ DataLen \in 0..RbSize
      /\ DataLen = IF readMirror = writeMirror THEN writeIndex - readIndex
                   ELSE RbSize + writeIndex - readIndex
  BY DataLenBounded
<1>2. n \in 1..RbSize
  BY <1>1
<1>3. readIndex' = IF readIndex + n < RbSize THEN readIndex + n ELSE readIndex + n - RbSize
  BY <1>2 DEF ReadOn
<1>4. RbTypeOK'
  BY <1>2, <1>3 DEF ReadOn, Gets
<1>5. Mirrors'
  BY <1>1, <1>2, <1>3 DEF ReadOn, Mirrors
<1>6. DataLen' = DataLen - n
  <2>1. DataLen' = IF readMirror' = writeMirror' THEN writeIndex' - readIndex'
                   ELSE RbSize + writeIndex' - readIndex'
    BY <1>4, <1>5, DataLenAheadNext DEF Ahead
  <2>2. CASE RbSize - readIndex > n
    BY <1>1, <1>2, <2>1, <2>2 DEF ReadOn
  <2>3. CASE ~(RbSize - readIndex > n)
    <3>1. readMirror # writeMirror
      BY <1>1, <1>2, <2>3
    <3>2. readMirror' = writeMirror' /\ readIndex' = readIndex + n - RbSize
      BY <1>2, <1>3, <2>3, <3>1 DEF ReadOn
    <3> QED
      BY <1>1, <1>2, <2>1, <3>1, <3>2
  <2> QED
    BY <2>2, <2>3
<1> QED
  BY <1>1, <1>3, <1>4, <1>5, <1>6, GetOn DEF Gets

-----------------------------------------------------------------------------
(* The functions *)

LEMMA PutStep == ASSUME RbInv, NEW length \in Lengths, RbPutBytes(length) PROVE RbInv'
<1> USE RbAssumption DEF RbPutBytes
<1> DEFINE n == AtMost(length, SpaceLen)
<1>1. /\ DataLen \in 0..RbSize /\ SpaceLen \in 1..RbSize
      /\ DataLen = IF readMirror = writeMirror THEN writeIndex - readIndex
                   ELSE RbSize + writeIndex - readIndex
  BY DataLenBounded DEF RbInv
<1>2. CASE length = 0
  <2>1. UNCHANGED rbVars
    <3>1. n = 0
      BY <1>1, <1>2 DEF AtMost
    <3>2. UNCHANGED <<writeIndex, writeMirror, rbPut>>
      BY <3>1 DEF WriteOn, Puts, RbInv, RbTypeOK, Cells
    <3>3. rbCells' = [cell \in Cells |-> rbCells[cell]]
      BY <3>1 DEF Written, RbInv, RbTypeOK, Cells
    <3> QED
      BY <3>2, <3>3 DEF rbVars, RbInv, RbTypeOK
  <2> QED
    BY <2>1 DEF rbVars, RbInv, RbTypeOK, Mirrors, RingExact, LengthExact, BytesInOrder, DataLen
<1>3. CASE length # 0
  <2>1. n \in 1..SpaceLen
    BY <1>1, <1>3 DEF AtMost
  <2>2. rbCells' = Written(n, rbPut) /\ WriteOn(n) /\ rbPut' = rbPut + n
    BY DEF Puts
  <2>3. rbCells' \in [Cells -> Nat \cup {Unused}]
    BY <1>1, <2>1, <2>2 DEF Written, RbInv, RbTypeOK, Cells
  <2>4. RbTypeOK'
    BY SMTT(30), <1>1, <2>1, <2>2, <2>3 DEF WriteOn, RbInv, RbTypeOK, Cells
  <2> QED
    BY <2>1, <2>2, <2>4, PutOn
<1> QED
  BY <1>2, <1>3

LEMMA GetStep == ASSUME RbInv, NEW length \in Lengths, RbGet(length) PROVE RbInv'
<1> USE RbAssumption DEF RbGet
<1> DEFINE n == AtMost(length, DataLen)
<1>1. DataLen \in 1..RbSize
  BY DataLenBounded DEF RbInv
<1>2. CASE length = 0
  <2>1. n = 0
    BY <1>1, <1>2 DEF AtMost
  <2>2. UNCHANGED rbVars
    BY <2>1 DEF ReadOn, Gets, RbInv, RbTypeOK, Cells, rbVars
  <2> QED
    BY <2>2 DEF rbVars, RbInv, RbTypeOK, Mirrors, RingExact, LengthExact, BytesInOrder, DataLen
<1>3. CASE length # 0
  <2>1. n \in 1..DataLen
    BY <1>1, <1>3 DEF AtMost
  <2> QED
    BY <2>1, ReadOnStep
<1> QED
  BY <1>2, <1>3

LEMMA PeakStep == ASSUME RbInv, RbPeak PROVE RbInv'
<1> DEFINE n == IF RbSize - readIndex > DataLen THEN DataLen ELSE RbSize - readIndex
<1>1. DataLen \in 1..RbSize
  BY DataLenBounded DEF RbPeak, RbInv
<1>2. n \in 1..DataLen
  BY <1>1, RbAssumption DEF RbInv, RbTypeOK, Cells
<1>3. ReadOn(n) /\ Gets(n)
  BY <1>1, RbAssumption DEF RbPeak, ReadOn, Gets, RbInv, RbTypeOK, Cells
<1> QED
  BY <1>2, <1>3, ReadOnStep DEF RbPeak

LEMMA GetCharStep == ASSUME RbInv, RbGetChar PROVE RbInv'
<1>1. 1 \in 1..DataLen
  BY DataLenBounded DEF RbGetChar, RbInv
<1>2. ReadOn(1) /\ Gets(1)
  BY RbAssumption DEF RbGetChar, ReadOn, Gets, RbInv, RbTypeOK, Cells
<1> QED
  BY <1>1, <1>2, ReadOnStep DEF RbGetChar

\* One char is what rt_ringbuffer_put does with one byte.
LEMMA StoreCharWrites ==
    ASSUME RbInv, StoreChar
    PROVE  rbCells' = Written(1, rbPut) /\ WriteOn(1) /\ rbPut' = rbPut + 1
<1> USE RbAssumption DEF StoreChar, RbInv, RbTypeOK, Cells, Puts
<1>1. WriteOn(1)
  BY DEF WriteOn
<1>2. rbCells' = [cell \in Cells |-> IF cell = writeIndex THEN rbPut ELSE rbCells[cell]]
  OBVIOUS
<1>3. ASSUME NEW cell \in Cells
      PROVE  (IF cell = writeIndex THEN rbPut ELSE rbCells[cell]) = Written(1, rbPut)[cell]
  BY DEF Written
<1>4. rbCells' = Written(1, rbPut)
  BY <1>2, <1>3 DEF Written
<1> QED
  BY <1>1, <1>4

LEMMA PutCharStep == ASSUME RbInv, RbPutChar PROVE RbInv'
<1>1. rbCells' = Written(1, rbPut) /\ WriteOn(1) /\ rbPut' = rbPut + 1
  BY StoreCharWrites DEF RbPutChar
<1>2. 1 \in 1..SpaceLen
  BY DataLenBounded DEF RbPutChar, RbInv
<1>3. RbTypeOK'
  BY RbAssumption DEF RbPutChar, StoreChar, Puts, RbInv, RbTypeOK, Cells
<1> QED
  BY <1>1, <1>2, <1>3, PutOn DEF RbPutChar

LEMMA ResetStep == ASSUME RbInv, RbReset PROVE RbInv'
  BY RbAssumption DEF RbReset, RbInv, RbTypeOK, Mirrors, RingExact, LengthExact, BytesInOrder,
     DataLen, Cells

-----------------------------------------------------------------------------
(* The functions that overwrite *)

\* The write position goes over bytes that have not been read, and the read position
\* is put behind it: the buffer is full and holds the last bytes.
LEMMA Overwrite ==
    ASSUME RbInv, NEW length \in Nat, NEW n \in 0..RbSize, n = length \/ n = RbSize,
           RbSize <= DataLen + n, RbTypeOK', Mirrors', DataLen' = RbSize,
           writeIndex' = IF writeIndex + n < RbSize THEN writeIndex + n
                         ELSE writeIndex + n - RbSize,
           readIndex' = writeIndex',
           rbCells' = Written(n, rbPut + (length - n)),
           rbPut' = rbPut + length, rbGot' = rbPut' - RbSize
    PROVE  RbInv'
<1> USE RbAssumption DEF RbInv, RbTypeOK, Cells
<1>1. /\ DataLen \in 0..RbSize
      /\ DataLen = IF readMirror = writeMirror THEN writeIndex - readIndex
                   ELSE RbSize + writeIndex - readIndex
      /\ DataLen = rbPut - rbGot
  BY DataLenBounded DEF RingExact, LengthExact
<1>2. LengthExact'
  BY DEF LengthExact
<1>3. BytesInOrder'
  <2> SUFFICES ASSUME NEW k \in Cells
               PROVE  rbCells'[IF readIndex' + k < RbSize THEN readIndex' + k
                               ELSE readIndex' + k - RbSize] = rbGot' + k
    BY DEF BytesInOrder
  <2> DEFINE cell == IF readIndex' + k < RbSize THEN readIndex' + k ELSE readIndex' + k - RbSize
  <2>1. cell \in Cells
    OBVIOUS
  <2>2. CASE k < RbSize - n
    <3> DEFINE old == DataLen + n + k - RbSize
    <3>1. old \in Cells /\ old < DataLen /\ n = length
      BY <1>1, <2>2
    <3>2. cell = IF readIndex + old < RbSize THEN readIndex + old ELSE readIndex + old - RbSize
      BY <1>1, <2>2, <3>1
    <3>3. rbCells[cell] = rbGot + old
      BY <3>1, <3>2 DEF RingExact, BytesInOrder
    <3>4. ~(writeIndex <= cell /\ cell < writeIndex + n) /\ ~(cell < writeIndex + n - RbSize)
      BY <2>2
    <3>5. rbCells'[cell] = rbCells[cell]
      BY <2>1, <3>4 DEF Written
    <3> QED
      BY <1>1, <3>1, <3>3, <3>5
  <2>3. CASE ~(k < RbSize - n)
    <3> DEFINE j == k - (RbSize - n)
    <3>1. IF writeIndex <= cell /\ cell < writeIndex + n THEN cell - writeIndex = j
          ELSE cell < writeIndex + n - RbSize /\ cell + (RbSize - writeIndex) = j
      BY <2>3
    <3>2. rbCells'[cell] = rbPut + (length - n) + j
      <4>1. CASE writeIndex <= cell /\ cell < writeIndex + n
        <5>1. rbCells'[cell] = rbPut + (length - n) + (cell - writeIndex)
          BY <2>1, <4>1 DEF Written
        <5> QED
          BY <3>1, <4>1, <5>1
      <4>2. CASE ~(writeIndex <= cell /\ cell < writeIndex + n)
        <5>1. rbCells'[cell] = rbPut + (length - n) + (cell + (RbSize - writeIndex))
          BY <2>1, <3>1, <4>2 DEF Written
        <5> QED
          BY <3>1, <4>2, <5>1
      <4> QED
        BY <4>1, <4>2
    <3> QED
      BY <3>2
  <2> QED
    BY <2>2, <2>3
<1> QED
  BY <1>2, <1>3 DEF RingExact

LEMMA PutCharForceStep == ASSUME RbInv, RbPutCharForce PROVE RbInv'
<1>1. rbCells' = Written(1, rbPut) /\ WriteOn(1) /\ rbPut' = rbPut + 1
  BY StoreCharWrites DEF RbPutCharForce
<1>2. RbTypeOK'
  BY RbAssumption DEF RbPutCharForce, StoreChar, Puts, Gets, RbInv, RbTypeOK, Cells
<1>3. CASE RbFull
  <2> USE RbAssumption DEF RbInv, RbTypeOK, Cells
  <2>1. DataLen = RbSize /\ rbPut - rbGot = RbSize
    BY <1>3 DEF RbFull, DataLen, RingExact, LengthExact
  <2>2. Mirrors' /\ DataLen' = RbSize
    BY <1>3 DEF RbFull, RbPutCharForce, StoreChar, Mirrors, DataLen
  <2>3. writeIndex' = IF writeIndex + 1 < RbSize THEN writeIndex + 1
                      ELSE writeIndex + 1 - RbSize
    BY DEF RbPutCharForce, StoreChar
  <2>4. readIndex' = writeIndex' /\ rbGot' = rbPut' - RbSize
    BY <1>1, <1>3, <2>1 DEF RbPutCharForce, Gets
  <2>5. rbCells' = Written(1, rbPut + (1 - 1))
    BY <1>1
  <2> QED
    BY <1>1, <1>2, <2>1, <2>2, <2>3, <2>4, <2>5, Overwrite
<1>4. CASE ~RbFull
  <2>1. 1 \in 1..SpaceLen
    BY <1>4, DataLenBounded, RbAssumption
       DEF RbInv, RbTypeOK, Mirrors, Cells, RbFull, DataLen, SpaceLen
  <2> QED
    BY <1>1, <1>2, <1>4, <2>1, PutOn DEF RbPutCharForce
<1> QED
  BY <1>3, <1>4

LEMMA PutForceStep == ASSUME RbInv, NEW length \in Lengths, RbPutForce(length) PROVE RbInv'
<1> DEFINE n == AtMost(length, RbSize)
<1> USE RbAssumption
<1>1. n \in 0..RbSize /\ length \in Nat /\ n <= length /\ (n = length \/ n = RbSize)
  BY DEF AtMost
<1>2. /\ rbCells' = Written(n, rbPut + (length - n)) /\ WriteOn(n)
      /\ rbPut' = rbPut + length
      /\ rbGot' = IF rbPut' - rbGot > RbSize THEN rbPut' - RbSize ELSE rbGot
      /\ IF n > SpaceLen THEN ForceRead(n) ELSE UNCHANGED <<readIndex, readMirror>>
  BY DEF RbPutForce, Puts
<1>3. /\ DataLen \in 0..RbSize /\ SpaceLen = RbSize - DataLen
      /\ DataLen = IF readMirror = writeMirror THEN writeIndex - readIndex
                   ELSE RbSize + writeIndex - readIndex
      /\ DataLen = rbPut - rbGot
  BY DataLenBounded DEF RbInv, SpaceLen, RingExact, LengthExact
<1>4. writeIndex' = IF writeIndex + n < RbSize THEN writeIndex + n ELSE writeIndex + n - RbSize
  BY <1>1, <1>2 DEF WriteOn, RbInv, RbTypeOK, Cells
<1>5. rbCells' \in [Cells -> Nat \cup {Unused}]
  BY <1>1, <1>2 DEF Written, RbInv, RbTypeOK, Cells
<1>6. RbTypeOK'
  <2>1. writeIndex' \in Cells /\ writeMirror' \in {0, 1}
    BY SMTT(30), <1>1, <1>2, <1>4 DEF WriteOn, RbInv, RbTypeOK, Cells
  <2>2. readIndex' \in Cells /\ readMirror' \in {0, 1}
    BY <1>2, <2>1 DEF ForceRead, RbInv, RbTypeOK
  <2>3. rbPut' \in Nat /\ rbGot' \in Nat
    BY <1>1, <1>2 DEF RbInv, RbTypeOK
  <2> QED
    BY <1>5, <2>1, <2>2, <2>3 DEF RbTypeOK
<1>7. CASE n > SpaceLen
  <2>1. readIndex' = writeIndex' /\ readMirror' # writeMirror'
    BY SMTT(30), <1>1, <1>2, <1>3, <1>4, <1>7 DEF ForceRead, WriteOn, RbInv, RbTypeOK, Cells
  <2>2. Mirrors' /\ DataLen' = RbSize
    BY <1>6, <2>1 DEF Mirrors, DataLen, RbTypeOK, Cells
  <2>3. rbGot' = rbPut' - RbSize
    BY <1>1, <1>2, <1>3, <1>7 DEF RbInv, RbTypeOK
  <2> QED
    BY <1>1, <1>2, <1>3, <1>4, <1>6, <1>7, <2>1, <2>2, <2>3, Overwrite
<1>8. CASE ~(n > SpaceLen) /\ n # length
  <2>1. DataLen = 0 /\ n = RbSize
    BY <1>1, <1>3, <1>8
  <2>2. readIndex' = writeIndex' /\ readMirror' # writeMirror'
    BY <1>2, <1>3, <1>4, <1>8, <2>1 DEF WriteOn, RbInv, RbTypeOK, Mirrors, Cells
  <2>3. Mirrors' /\ DataLen' = RbSize
    BY <1>6, <2>2 DEF Mirrors, DataLen, RbTypeOK, Cells
  <2>4. rbGot' = rbPut' - RbSize
    BY <1>1, <1>2, <1>3, <1>8, <2>1 DEF RbInv, RbTypeOK
  <2> QED
    BY <1>1, <1>2, <1>3, <1>4, <1>6, <2>1, <2>2, <2>3, <2>4, Overwrite
<1>9. CASE ~(n > SpaceLen) /\ n = length
  <2>1. rbCells' = Written(n, rbPut) /\ rbPut' = rbPut + n
    BY <1>1, <1>2, <1>9 DEF RbInv, RbTypeOK
  <2>2. UNCHANGED <<readIndex, readMirror, rbGot>>
    BY <1>1, <1>2, <1>3, <1>9 DEF RbInv, RbTypeOK
  <2>3. CASE n = 0
    <3>1. UNCHANGED <<writeIndex, writeMirror, rbPut>>
      BY <1>2, <2>1, <2>3 DEF WriteOn, RbInv, RbTypeOK, Cells
    <3>2. rbCells' = [cell \in Cells |-> rbCells[cell]]
      BY <2>1, <2>3 DEF Written, RbInv, RbTypeOK, Cells
    <3>3. UNCHANGED rbVars
      BY <2>2, <3>1, <3>2 DEF rbVars, RbInv, RbTypeOK
    <3> QED
      BY <3>3 DEF rbVars, RbInv, RbTypeOK, Mirrors, RingExact, LengthExact, BytesInOrder, DataLen
  <2>4. CASE n # 0
    <3>1. n \in 1..SpaceLen
      BY <1>1, <1>3, <1>9, <2>4
    <3> QED
      BY <1>2, <1>6, <2>1, <2>2, <3>1, PutOn
  <2> QED
    BY <2>3, <2>4
<1> QED
  BY <1>7, <1>8, <1>9

-----------------------------------------------------------------------------
(* The theorems *)

LEMMA RbStep == RbInv /\ [RbNext]_rbVars => RbInv'
<1> SUFFICES ASSUME RbInv, [RbNext]_rbVars PROVE RbInv'
  OBVIOUS
<1>1. ASSUME NEW length \in Lengths, RbPutBytes(length) PROVE RbInv'
  BY <1>1, PutStep
<1>2. ASSUME NEW length \in Lengths, RbPutForce(length) PROVE RbInv'
  BY <1>2, PutForceStep
<1>3. ASSUME NEW length \in Lengths, RbGet(length) PROVE RbInv'
  BY <1>3, GetStep
<1>4. CASE RbPeak
  BY <1>4, PeakStep
<1>5. CASE RbPutChar
  BY <1>5, PutCharStep
<1>6. CASE RbPutCharForce
  BY <1>6, PutCharForceStep
<1>7. CASE RbGetChar
  BY <1>7, GetCharStep
<1>8. CASE RbReset
  BY <1>8, ResetStep
<1>9. CASE UNCHANGED rbVars
  BY <1>9 DEF rbVars, RbInv, RbTypeOK, Mirrors, RingExact, LengthExact, BytesInOrder, DataLen
<1> QED
  BY <1>1, <1>2, <1>3, <1>4, <1>5, <1>6, <1>7, <1>8, <1>9 DEF RbNext

THEOREM RbInductive == RbSpec => []RbInv
  BY RbInitial, RbStep, PTL DEF RbSpec

\* The indices stay inside the buffer, for any size and any lengths.
THEOREM RbTypes == RbSpec => []RbTypeOK
<1>1. RbInv => RbTypeOK
  BY DEF RbInv
<1> QED
  BY RbInductive, <1>1, PTL

\* rt_ringbuffer_get reads every byte once and in the order it was put, but for those
\* that rt_ringbuffer_put_force has overwritten; for any size and any lengths.
THEOREM RbRingExact == RbSpec => []RingExact
<1>1. RbInv => RingExact
  BY DEF RbInv
<1> QED
  BY RbInductive, <1>1, PTL

-----------------------------------------------------------------------------
(***************************************************************************)
(* The theorems about module Pipe, for one reader, one writer, any size of  *)
(* the pipe and any counts.                                                 *)
(*                                                                         *)
(* That nobody sleeps in vain is not inductive: what holds for a thread in  *)
(* the list of a wait queue must already hold when it is about to enter the *)
(* list and the flag of the queue does not tell it to stay awake (Stays).   *)
(***************************************************************************)

\* Who is between rt_mutex_take and rt_mutex_release.
LockInside(t) == ppPc[t] \in {"in", "got", "out", "hangread", "hangwrite", "gone"}
LockHeld == \A t \in Ends : LockInside(t) <=> pipeLock = t

OpenExact == \A t \in Ends :
    t \in openBy <=> ppPc[t] \notin {"closed", "hangread", "hangwrite", "gone"}

\* With one thread at each end.
Linked == \A t \in Ends :
    wqList[Own(t)] = <<>> \/ (wqList[Own(t)] = <<t>> /\ ppPc[t] = "sleep")

Sides ==
    /\ \A t \in Readers : ppPc[t] # "last"
    /\ \A t \in Writers : ppPc[t] \notin {"got", "out"}

Stays(t) ==
    \/ ppPc[t] \in {"wake", "wait"} /\ ~wqFlag[Own(t)]
    \/ wqList[Own(t)] = <<t>>

StaysRightly == \A t \in Ends : Stays(t) /\ ~WakeComing(Own(t)) =>
    /\ OtherEnd(t) # {}
    /\ IF t \in Readers THEN fifo = 0 ELSE fifo = PipeSize

PipeInv == PipeTypeOK /\ LockHeld /\ OpenExact /\ Linked /\ Sides /\ StaysRightly

-----------------------------------------------------------------------------

\* What the lists of the wait queues become.
LEMMA ShortLists ==
    ASSUME NEW t
    PROVE  /\ ToSet(<<>>) = {} /\ ToSet(<<t>>) = {t}
           /\ Tail(<<t>>) = <<>> /\ Append(<<>>, t) = <<t>>
           /\ <<>> # <<t>>
  BY DEF ToSet

\* Nobody has opened the pipe.
LEMMA PipeInitial == PipeInit => PipeInv
  BY PipeAssumption
     DEF PipeInit, PipeInv, PipeTypeOK, LockHeld, OpenExact, Linked, Sides, StaysRightly, Stays,
         LockInside, Queues, Ends, Own

\* rt_wqueue_wakeup leaves the list empty and the flag set, for one thread at each end.
LEMMA WakeupEmpties ==
    ASSUME NEW r, NEW w, Readers = {r}, Writers = {w}, NEW q \in Queues,
           PipeTypeOK, Linked, WqWakeup(q)
    PROVE  /\ wqFlag' \in [Queues -> BOOLEAN] /\ wqList' \in [Queues -> Seq(Ends)]
           /\ wqFlag'[q] /\ wqList'[q] = <<>>
           /\ \A p \in Queues \ {q} : wqFlag'[p] = wqFlag[p] /\ wqList'[p] = wqList[p]
  <1>1. wqList[q] = <<>> \/ \E t \in Ends : wqList[q] = <<t>>
    BY PipeAssumption DEF Linked, Queues, Ends, Own
  <1>2. wqList[q] # <<>> => Tail(wqList[q]) = <<>>
    BY <1>1, ShortLists
  <1>3. <<>> \in Seq(Ends)
    OBVIOUS
  <1>. QED BY <1>2, <1>3 DEF PipeTypeOK, WqWakeup, Queues

\* An open only takes the thread into openBy: its pc was in no section.
LEMMA PipeOpenKeeps ==
    ASSUME NEW r, NEW w, Readers = {r}, Writers = {w}, NEW t \in Ends, PipeInv, PipeOpen(t)
    PROVE  PipeInv'
  <1>. USE DEF PipeInv
  <1>1. PipeTypeOK'
    BY PipeAssumption DEF PipeOpen, PipeTypeOK, PpGoes, TakesLock, ReleasesLock, Ends, Queues, Own
  <1>2. LockHeld' /\ OpenExact' /\ Sides'
    BY PipeAssumption
       DEF PipeOpen, PipeTypeOK, LockHeld, OpenExact, Sides, LockInside, PpGoes, TakesLock,
           ReleasesLock, Ends
  <1>3. Linked'
    BY PipeAssumption, ShortLists DEF PipeOpen, PipeTypeOK, Linked, PpGoes, Ends, Queues, Own
  <1>4. StaysRightly'
    BY PipeAssumption, ShortLists
       DEF PipeOpen, PipeTypeOK, LockHeld, OpenExact, Linked, Sides, StaysRightly, Stays,
           WakeComing, LockInside, OtherEnd, OpenReaders, OpenWriters, PpGoes, TakesLock,
           ReleasesLock, Ends, Queues, Own, Other
  <1>. QED BY <1>1, <1>2, <1>3, <1>4

\* The other end is told by the two steps that follow, "hangread" and "hangwrite".
LEMMA PipeCloseKeeps ==
    ASSUME NEW r, NEW w, Readers = {r}, Writers = {w}, NEW t \in Ends, PipeInv, PipeClose(t)
    PROVE  PipeInv'
  <1>. USE DEF PipeInv
  <1>1. PipeTypeOK'
    BY PipeAssumption
       DEF PipeClose, PipeTypeOK, PpGoes, TakesLock, ReleasesLock, Ends, Queues, Own
  <1>2. LockHeld' /\ OpenExact' /\ Sides'
    BY PipeAssumption
       DEF PipeClose, PipeTypeOK, LockHeld, OpenExact, Sides, LockInside, PpGoes, TakesLock,
           ReleasesLock, Ends
  <1>3. Linked'
    BY PipeAssumption, ShortLists DEF PipeClose, PipeTypeOK, Linked, PpGoes, Ends, Queues, Own
  <1>4. StaysRightly'
    BY PipeAssumption, ShortLists
       DEF PipeClose, PipeTypeOK, LockHeld, OpenExact, Linked, Sides, StaysRightly, Stays,
           WakeComing, LockInside, OtherEnd, OpenReaders, OpenWriters, PpGoes, TakesLock,
           ReleasesLock, Ends, Queues, Own, Other
  <1>. QED BY <1>1, <1>2, <1>3, <1>4

\* Either a writer is left, and the reader may sleep, or its list is emptied.
LEMMA HangUpReaderKeeps ==
    ASSUME NEW r, NEW w, Readers = {r}, Writers = {w}, NEW t \in Ends, PipeInv, HangUpReader(t)
    PROVE  PipeInv'
  <1>. USE DEF PipeInv
  <1>w. "reader" \in Queues /\ (WqWakeup("reader") =>
           /\ wqFlag' \in [Queues -> BOOLEAN] /\ wqList' \in [Queues -> Seq(Ends)]
           /\ wqFlag'["reader"] /\ wqList'["reader"] = <<>>
           /\ \A p \in Queues \ {"reader"} : wqFlag'[p] = wqFlag[p] /\ wqList'[p] = wqList[p])
    BY WakeupEmpties DEF Queues, Other
  <1>1. PipeTypeOK'
    BY PipeAssumption, <1>w
       DEF HangUpReader, PipeTypeOK, PpGoes, TakesLock, ReleasesLock, Ends, Queues, Own
  <1>2. LockHeld' /\ OpenExact' /\ Sides'
    BY PipeAssumption
       DEF HangUpReader, PipeTypeOK, LockHeld, OpenExact, Sides, LockInside, PpGoes, TakesLock,
           ReleasesLock, Ends
  <1>3. Linked'
    BY PipeAssumption, <1>w, ShortLists
       DEF HangUpReader, PipeTypeOK, Linked, PpGoes, Ends, Queues, Own
  <1>4. StaysRightly'
    <2>. SUFFICES ASSUME NEW u \in Ends, Stays(u)', ~WakeComing(Own(u))'
                  PROVE  /\ OtherEnd(u)' # {}
                         /\ IF u \in Readers THEN fifo' = 0 ELSE fifo' = PipeSize
      BY DEF StaysRightly, OtherEnd, Own, Stays, WakeComing, OpenReaders, OpenWriters
    <2>a. u # t
      BY PipeAssumption, <1>3, ShortLists
         DEF HangUpReader, PipeTypeOK, Stays, Linked, PpGoes, Ends, Queues
    <2>b. ASSUME OpenWriters = {} PROVE Stays(u)
      <3>1. ~Stays(u)' \/ Own(u) # "reader"
        BY <1>w, <2>b, ShortLists DEF HangUpReader, Stays
      <3>2. Own(u) \in Queues \ {"reader"} =>
                /\ wqFlag'[Own(u)] = wqFlag[Own(u)] /\ wqList'[Own(u)] = wqList[Own(u)]
        BY <1>w, <2>b DEF HangUpReader
      <3>. QED BY <2>a, <3>1, <3>2 DEF HangUpReader, Stays, PpGoes, PipeTypeOK, Own, Queues
    <2>c. ASSUME OpenWriters # {} PROVE Stays(u)
      BY <2>a, <2>c DEF HangUpReader, Stays, PpGoes, PipeTypeOK, Own
    <2>1. Stays(u) /\ u # t
      BY <2>a, <2>b, <2>c
    <2>2. ~WakeComing(Own(u)) \/ (Own(u) = "reader" /\ OpenWriters # {})
      <3>. SUFFICES ASSUME WakeComing(Own(u)) PROVE Own(u) = "reader" /\ OpenWriters # {}
        OBVIOUS
      <3>1. \A v \in Ends : ppPc'[v] = IF v = t THEN "hangwrite" ELSE ppPc[v]
        BY DEF HangUpReader, PpGoes, PipeTypeOK
      <3>2. PICK v \in Ends :
                \/ ppPc[v] = "wake" /\ Other(v) = Own(u)
                \/ Own(u) = "reader" /\ ppPc[v] \in {"last", "hangread"}
                \/ Own(u) = "writer" /\ ppPc[v] \in {"got", "hangread", "hangwrite"}
        BY DEF WakeComing
      <3>3. v = t /\ ppPc[t] = "hangread" /\ Own(u) # "writer"
        BY <3>1, <3>2 DEF WakeComing, HangUpReader, Own, Other
      <3>4. Own(u) = "reader"
        BY <3>3 DEF Own
      <3>5. OpenWriters # {}
        BY <3>4, <1>w, ShortLists DEF HangUpReader, Stays
      <3>. QED BY <3>4, <3>5
    <2>3. CASE ~WakeComing(Own(u))
      BY <2>1, <2>3 DEF HangUpReader, StaysRightly, OtherEnd, OpenReaders, OpenWriters
    <2>4. CASE Own(u) = "reader" /\ OpenWriters # {}
      BY <2>1, <2>4, PipeAssumption, <1>w, ShortLists
         DEF HangUpReader, PipeTypeOK, LockHeld, OpenExact, Linked, Sides, StaysRightly, Stays,
             WakeComing, LockInside, OtherEnd, OpenReaders, OpenWriters, PpGoes, TakesLock,
             ReleasesLock, Ends, Queues, Own, Other
    <2>. QED BY <2>2, <2>3, <2>4
  <1>. QED BY <1>1, <1>2, <1>3, <1>4

\* Either a reader is left, and the writer may sleep, or its list is emptied.
LEMMA HangUpWriterKeeps ==
    ASSUME NEW r, NEW w, Readers = {r}, Writers = {w}, NEW t \in Ends, PipeInv, HangUpWriter(t)
    PROVE  PipeInv'
  <1>. USE DEF PipeInv
  <1>w. "writer" \in Queues /\ (WqWakeup("writer") =>
           /\ wqFlag' \in [Queues -> BOOLEAN] /\ wqList' \in [Queues -> Seq(Ends)]
           /\ wqFlag'["writer"] /\ wqList'["writer"] = <<>>
           /\ \A p \in Queues \ {"writer"} : wqFlag'[p] = wqFlag[p] /\ wqList'[p] = wqList[p])
    BY WakeupEmpties DEF Queues, Other
  <1>1. PipeTypeOK'
    BY PipeAssumption, <1>w
       DEF HangUpWriter, PipeTypeOK, PpGoes, TakesLock, ReleasesLock, Ends, Queues, Own
  <1>2. LockHeld' /\ OpenExact' /\ Sides'
    BY PipeAssumption
       DEF HangUpWriter, PipeTypeOK, LockHeld, OpenExact, Sides, LockInside, PpGoes, TakesLock,
           ReleasesLock, Ends
  <1>3. Linked'
    BY PipeAssumption, <1>w, ShortLists
       DEF HangUpWriter, PipeTypeOK, Linked, PpGoes, Ends, Queues, Own
  <1>4. StaysRightly'
    <2>. SUFFICES ASSUME NEW u \in Ends, Stays(u)', ~WakeComing(Own(u))'
                  PROVE  /\ OtherEnd(u)' # {}
                         /\ IF u \in Readers THEN fifo' = 0 ELSE fifo' = PipeSize
      BY DEF StaysRightly, OtherEnd, Own, Stays, WakeComing, OpenReaders, OpenWriters
    <2>a. u # t
      BY PipeAssumption, <1>3, ShortLists
         DEF HangUpWriter, PipeTypeOK, Stays, Linked, PpGoes, Ends, Queues
    <2>b. ASSUME OpenReaders = {} PROVE Stays(u)
      <3>1. ~Stays(u)' \/ Own(u) # "writer"
        BY <1>w, <2>b, ShortLists DEF HangUpWriter, Stays
      <3>2. Own(u) \in Queues \ {"writer"} =>
                /\ wqFlag'[Own(u)] = wqFlag[Own(u)] /\ wqList'[Own(u)] = wqList[Own(u)]
        BY <1>w, <2>b DEF HangUpWriter
      <3>. QED BY <2>a, <3>1, <3>2 DEF HangUpWriter, Stays, PpGoes, PipeTypeOK, Own, Queues
    <2>c. ASSUME OpenReaders # {} PROVE Stays(u)
      BY <2>a, <2>c DEF HangUpWriter, Stays, PpGoes, PipeTypeOK, Own
    <2>1. Stays(u) /\ u # t
      BY <2>a, <2>b, <2>c
    <2>2. ~WakeComing(Own(u)) \/ (Own(u) = "writer" /\ OpenReaders # {})
      BY <2>1, PipeAssumption, <1>w, ShortLists
         DEF HangUpWriter, PipeTypeOK, LockHeld, OpenExact, Linked, Sides, StaysRightly, Stays,
             WakeComing, LockInside, OtherEnd, OpenReaders, OpenWriters, PpGoes, TakesLock,
             ReleasesLock, Ends, Queues, Own, Other
    <2>3. CASE ~WakeComing(Own(u))
      BY <2>1, <2>3 DEF HangUpWriter, StaysRightly, OtherEnd, OpenReaders, OpenWriters
    <2>4. CASE Own(u) = "writer" /\ OpenReaders # {}
      BY <2>1, <2>4, PipeAssumption, <1>w, ShortLists
         DEF HangUpWriter, PipeTypeOK, LockHeld, OpenExact, Linked, Sides, StaysRightly, Stays,
             WakeComing, LockInside, OtherEnd, OpenReaders, OpenWriters, PpGoes, TakesLock,
             ReleasesLock, Ends, Queues, Own, Other
    <2>. QED BY <2>2, <2>3, <2>4
  <1>. QED BY <1>1, <1>2, <1>3, <1>4

\* The last close finds nobody who waits, since everybody has closed.
LEMMA PipeClosedKeeps ==
    ASSUME NEW r, NEW w, Readers = {r}, Writers = {w}, NEW t \in Ends, PipeInv, PipeClosed(t)
    PROVE  PipeInv'
  <1>. USE DEF PipeInv
  <1>1. PipeTypeOK'
    BY PipeAssumption
       DEF PipeClosed, PipeTypeOK, PpGoes, TakesLock, ReleasesLock, Ends, Queues, Own
  <1>2. LockHeld' /\ OpenExact' /\ Sides'
    BY PipeAssumption
       DEF PipeClosed, PipeTypeOK, LockHeld, OpenExact, Sides, LockInside, PpGoes, TakesLock,
           ReleasesLock, Ends
  <1>3. Linked'
    BY PipeAssumption, ShortLists DEF PipeClosed, PipeTypeOK, Linked, PpGoes, Ends, Queues, Own
  <1>4. StaysRightly'
    BY PipeAssumption, ShortLists
       DEF PipeClosed, PipeTypeOK, LockHeld, OpenExact, Linked, Sides, StaysRightly, Stays,
           WakeComing, LockInside, OtherEnd, OpenReaders, OpenWriters, PpGoes, TakesLock,
           ReleasesLock, Ends, Queues, Own, Other
  <1>. QED BY <1>1, <1>2, <1>3, <1>4

\* Taking the mutex changes nothing that the wait queues depend on.
LEMMA PipeLockedKeeps ==
    ASSUME NEW r, NEW w, Readers = {r}, Writers = {w}, NEW t \in Ends, PipeInv, PipeLocked(t)
    PROVE  PipeInv'
  <1>. USE DEF PipeInv
  <1>1. PipeTypeOK'
    BY PipeAssumption
       DEF PipeLocked, PipeTypeOK, PpGoes, TakesLock, ReleasesLock, Ends, Queues, Own
  <1>2. LockHeld' /\ OpenExact' /\ Sides'
    BY PipeAssumption
       DEF PipeLocked, PipeTypeOK, LockHeld, OpenExact, Sides, LockInside, PpGoes, TakesLock,
           ReleasesLock, Ends
  <1>3. Linked'
    BY PipeAssumption, ShortLists DEF PipeLocked, PipeTypeOK, Linked, PpGoes, Ends, Queues, Own
  <1>4. StaysRightly'
    BY PipeAssumption, ShortLists
       DEF PipeLocked, PipeTypeOK, LockHeld, OpenExact, Linked, Sides, StaysRightly, Stays,
           WakeComing, LockInside, OtherEnd, OpenReaders, OpenWriters, PpGoes, TakesLock,
           ReleasesLock, Ends, Queues, Own, Other
  <1>. QED BY <1>1, <1>2, <1>3, <1>4

\* The other end is awake afterwards or finds its flag set.
LEMMA WakeOtherKeeps ==
    ASSUME NEW r, NEW w, Readers = {r}, Writers = {w}, NEW t \in Ends, PipeInv, WakeOther(t)
    PROVE  PipeInv'
  <1>. USE DEF PipeInv
  <1>w. Other(t) \in Queues /\ (WqWakeup(Other(t)) =>
           /\ wqFlag' \in [Queues -> BOOLEAN] /\ wqList' \in [Queues -> Seq(Ends)]
           /\ wqFlag'[Other(t)] /\ wqList'[Other(t)] = <<>>
           /\ \A p \in Queues \ {Other(t)} : wqFlag'[p] = wqFlag[p] /\ wqList'[p] = wqList[p])
    BY WakeupEmpties DEF Queues, Other
  <1>1. PipeTypeOK'
    BY PipeAssumption, <1>w
       DEF WakeOther, PipeTypeOK, PpGoes, TakesLock, ReleasesLock, Ends, Queues, Own
  <1>2. LockHeld' /\ OpenExact' /\ Sides'
    BY PipeAssumption
       DEF WakeOther, PipeTypeOK, LockHeld, OpenExact, Sides, LockInside, PpGoes, TakesLock,
           ReleasesLock, Ends
  <1>3. Linked'
    BY PipeAssumption, <1>w, ShortLists
       DEF WakeOther, PipeTypeOK, Linked, PpGoes, Ends, Queues, Own
  <1>4. StaysRightly'
    <2>. SUFFICES ASSUME NEW u \in Ends, Stays(u)', ~WakeComing(Own(u))'
                  PROVE  /\ OtherEnd(u)' # {}
                         /\ IF u \in Readers THEN fifo' = 0 ELSE fifo' = PipeSize
      BY DEF StaysRightly, OtherEnd, Own, Stays, WakeComing, OpenReaders, OpenWriters
    <2>1. u = t
      BY PipeAssumption, <1>w, ShortLists
         DEF WakeOther, Stays, PpGoes, PipeTypeOK, Linked, Ends, Queues, Own, Other
    <2>2. Stays(t) /\ ~WakeComing(Own(t))
      BY <2>1, PipeAssumption, <1>w
         DEF WakeOther, PipeTypeOK, LockHeld, OpenExact, Linked, Sides, StaysRightly, Stays,
             WakeComing, LockInside, OtherEnd, OpenReaders, OpenWriters, PpGoes, TakesLock,
             ReleasesLock, Ends, Queues, Own, Other
    <2>. QED BY <2>1, <2>2, PipeAssumption
                DEF WakeOther, StaysRightly, OtherEnd, OpenReaders, OpenWriters
  <1>. QED BY <1>1, <1>2, <1>3, <1>4

\* The thread suspends only if its flag is clear, that is, if it stays rightly.
LEMMA WqWaitKeeps ==
    ASSUME NEW r, NEW w, Readers = {r}, Writers = {w}, NEW t \in Ends, PipeInv, WqWait(t)
    PROVE  PipeInv'
  <1>. USE DEF PipeInv
  <1>a. wqList[Own(t)] = <<>>
    BY ShortLists DEF WqWait, Linked
  <1>b. Append(wqList[Own(t)], t) = <<t>>
    BY <1>a, ShortLists
  <1>c. <<t>> \in Seq(Ends)
    OBVIOUS
  <1>w. wqList[Own(t)] = <<>> /\ Append(wqList[Own(t)], t) = <<t>> /\ <<t>> \in Seq(Ends)
    BY <1>a, <1>b, <1>c
  <1>1. PipeTypeOK'
    <2>1. CASE wqFlag[Own(t)]
      BY <2>1 DEF WqWait, PipeTypeOK, PpGoes
    <2>2. CASE ~wqFlag[Own(t)]
      <3>1. wqList' = [wqList EXCEPT ![Own(t)] = <<t>>]
        BY <2>2, <1>b DEF WqWait
      <3>. QED BY <2>2, <3>1, <1>c DEF WqWait, PipeTypeOK, PpGoes
    <2>. QED BY <2>1, <2>2
  <1>2. LockHeld' /\ OpenExact' /\ Sides'
    BY PipeAssumption
       DEF WqWait, PipeTypeOK, LockHeld, OpenExact, Sides, LockInside, PpGoes, TakesLock,
           ReleasesLock, Ends
  <1>3. Linked'
    BY PipeAssumption, <1>w, ShortLists DEF WqWait, PipeTypeOK, Linked, PpGoes, Ends, Queues, Own
  <1>4. StaysRightly'
    BY PipeAssumption, <1>w, ShortLists
       DEF WqWait, PipeTypeOK, LockHeld, OpenExact, Linked, Sides, StaysRightly, Stays,
           WakeComing, LockInside, OtherEnd, OpenReaders, OpenWriters, PpGoes, TakesLock,
           ReleasesLock, Ends, Queues, Own, Other
  <1>. QED BY <1>1, <1>2, <1>3, <1>4

\* The flag that is cleared has done its work: the thread looks again.
LEMMA WqWokenKeeps ==
    ASSUME NEW r, NEW w, Readers = {r}, Writers = {w}, NEW t \in Ends, PipeInv, WqWoken(t)
    PROVE  PipeInv'
  <1>. USE DEF PipeInv
  <1>w. wqList[Own(t)] = <<>>
    BY ShortLists DEF WqWoken, Linked
  <1>1. PipeTypeOK'
    BY PipeAssumption DEF WqWoken, PipeTypeOK, PpGoes, TakesLock, ReleasesLock, Ends, Queues, Own
  <1>2. LockHeld' /\ OpenExact' /\ Sides'
    BY PipeAssumption
       DEF WqWoken, PipeTypeOK, LockHeld, OpenExact, Sides, LockInside, PpGoes, TakesLock,
           ReleasesLock, Ends
  <1>3. Linked'
    BY PipeAssumption, <1>w, ShortLists DEF WqWoken, PipeTypeOK, Linked, PpGoes, Ends, Queues, Own
  <1>4. StaysRightly'
    BY PipeAssumption, <1>w, ShortLists
       DEF WqWoken, PipeTypeOK, LockHeld, OpenExact, Linked, Sides, StaysRightly, Stays,
           WakeComing, LockInside, OtherEnd, OpenReaders, OpenWriters, PpGoes, TakesLock,
           ReleasesLock, Ends, Queues, Own, Other
  <1>. QED BY <1>1, <1>2, <1>3, <1>4

\* The space that the reader has made is told before it releases the mutex.
LEMMA ReadWakesKeeps ==
    ASSUME NEW r, NEW w, Readers = {r}, Writers = {w}, NEW t \in Ends, PipeInv, ReadWakes(t)
    PROVE  PipeInv'
  <1>. USE DEF PipeInv
  <1>w. "writer" \in Queues /\ (WqWakeup("writer") =>
           /\ wqFlag' \in [Queues -> BOOLEAN] /\ wqList' \in [Queues -> Seq(Ends)]
           /\ wqFlag'["writer"] /\ wqList'["writer"] = <<>>
           /\ \A p \in Queues \ {"writer"} : wqFlag'[p] = wqFlag[p] /\ wqList'[p] = wqList[p])
    BY WakeupEmpties DEF Queues, Other
  <1>1. PipeTypeOK'
    BY PipeAssumption, <1>w
       DEF ReadWakes, PipeTypeOK, PpGoes, TakesLock, ReleasesLock, Ends, Queues, Own
  <1>2. LockHeld' /\ OpenExact' /\ Sides'
    BY PipeAssumption
       DEF ReadWakes, PipeTypeOK, LockHeld, OpenExact, Sides, LockInside, PpGoes, TakesLock,
           ReleasesLock, Ends
  <1>3. Linked'
    BY PipeAssumption, <1>w, ShortLists
       DEF ReadWakes, PipeTypeOK, Linked, PpGoes, Ends, Queues, Own
  <1>4. StaysRightly'
    BY PipeAssumption, <1>w, ShortLists
       DEF ReadWakes, PipeTypeOK, LockHeld, OpenExact, Linked, Sides, StaysRightly, Stays,
           WakeComing, LockInside, OtherEnd, OpenReaders, OpenWriters, PpGoes, TakesLock,
           ReleasesLock, Ends, Queues, Own, Other
  <1>. QED BY <1>1, <1>2, <1>3, <1>4

\* The writer has been told already.
LEMMA ReadOutKeeps ==
    ASSUME NEW r, NEW w, Readers = {r}, Writers = {w}, NEW t \in Ends, PipeInv, ReadOut(t)
    PROVE  PipeInv'
  <1>. USE DEF PipeInv
  <1>1. PipeTypeOK'
    BY PipeAssumption DEF ReadOut, PipeTypeOK, PpGoes, TakesLock, ReleasesLock, Ends, Queues, Own
  <1>2. LockHeld' /\ OpenExact' /\ Sides'
    BY PipeAssumption
       DEF ReadOut, PipeTypeOK, LockHeld, OpenExact, Sides, LockInside, PpGoes, TakesLock,
           ReleasesLock, Ends
  <1>3. Linked'
    BY PipeAssumption, ShortLists DEF ReadOut, PipeTypeOK, Linked, PpGoes, Ends, Queues, Own
  <1>4. StaysRightly'
    BY PipeAssumption, ShortLists
       DEF ReadOut, PipeTypeOK, LockHeld, OpenExact, Linked, Sides, StaysRightly, Stays,
           WakeComing, LockInside, OtherEnd, OpenReaders, OpenWriters, PpGoes, TakesLock,
           ReleasesLock, Ends, Queues, Own, Other
  <1>. QED BY <1>1, <1>2, <1>3, <1>4

\* The bytes of the writer are told after it has released the mutex.
LEMMA WriteWakesKeeps ==
    ASSUME NEW r, NEW w, Readers = {r}, Writers = {w}, NEW t \in Ends, PipeInv, WriteWakes(t)
    PROVE  PipeInv'
  <1>. USE DEF PipeInv
  <1>w. "reader" \in Queues /\ (WqWakeup("reader") =>
           /\ wqFlag' \in [Queues -> BOOLEAN] /\ wqList' \in [Queues -> Seq(Ends)]
           /\ wqFlag'["reader"] /\ wqList'["reader"] = <<>>
           /\ \A p \in Queues \ {"reader"} : wqFlag'[p] = wqFlag[p] /\ wqList'[p] = wqList[p])
    BY WakeupEmpties DEF Queues, Other
  <1>1. PipeTypeOK'
    BY PipeAssumption, <1>w
       DEF WriteWakes, PipeTypeOK, PpGoes, TakesLock, ReleasesLock, Ends, Queues, Own
  <1>2. LockHeld' /\ OpenExact' /\ Sides'
    BY PipeAssumption
       DEF WriteWakes, PipeTypeOK, LockHeld, OpenExact, Sides, LockInside, PpGoes, TakesLock,
           ReleasesLock, Ends
  <1>3. Linked'
    BY PipeAssumption, <1>w, ShortLists
       DEF WriteWakes, PipeTypeOK, Linked, PpGoes, Ends, Queues, Own
  <1>4. StaysRightly'
    <2>1. t = w /\ r # w /\ Own(r) = "reader" /\ Own(w) = "writer" /\ Ends = {r, w}
      BY PipeAssumption DEF WriteWakes, Sides, Ends, Own
    <2>2. ~Stays(r)'
      BY <1>w, <2>1, ShortLists DEF WriteWakes, Stays
    <2>3. wqList'["writer"] = wqList["writer"] /\ ppPc[t] = "last"
      BY <1>w, <2>1 DEF WriteWakes, Queues
    <2>4. wqList["writer"] = <<>>
      BY <2>1, <2>3 DEF Linked
    <2>5. ppPc'[w] = "idle"
      BY <2>1 DEF WriteWakes, PpGoes, PipeTypeOK
    <2>6. ~Stays(w)'
      BY <2>1, <2>3, <2>4, <2>5, ShortLists DEF Stays
    <2> QED
      BY <2>1, <2>2, <2>6 DEF StaysRightly, Ends
  <1>. QED BY <1>1, <1>2, <1>3, <1>4

\* A call starts with a look at the other end and nothing else.
LEMMA PipeCallKeeps ==
    ASSUME NEW r, NEW w, Readers = {r}, Writers = {w}, NEW t \in Ends,
           NEW count \in Counts, PipeInv, PipeCall(t, count)
    PROVE  PipeInv'
  <1>. USE DEF PipeInv
  <1>1. PipeTypeOK'
    BY PipeAssumption DEF PipeCall, PipeTypeOK, PpGoes, TakesLock, ReleasesLock, Ends, Queues, Own
  <1>2. LockHeld' /\ OpenExact' /\ Sides'
    BY PipeAssumption
       DEF PipeCall, PipeTypeOK, LockHeld, OpenExact, Sides, LockInside, PpGoes, TakesLock,
           ReleasesLock, Ends
  <1>3. Linked'
    BY PipeAssumption, ShortLists DEF PipeCall, PipeTypeOK, Linked, PpGoes, Ends, Queues, Own
  <1>4. StaysRightly'
    BY PipeAssumption, ShortLists
       DEF PipeCall, PipeTypeOK, LockHeld, OpenExact, Linked, Sides, StaysRightly, Stays,
           WakeComing, LockInside, OtherEnd, OpenReaders, OpenWriters, PpGoes, TakesLock,
           ReleasesLock, Ends, Queues, Own, Other
  <1>. QED BY <1>1, <1>2, <1>3, <1>4

\* The reader goes to wait only from an empty pipe with a writer.
LEMMA ReadKeeps ==
    ASSUME NEW r, NEW w, Readers = {r}, Writers = {w}, NEW t \in Ends,
           NEW nonblock \in BOOLEAN, PipeInv, Read(t, nonblock)
    PROVE  PipeInv'
  <1>. USE DEF PipeInv
  <1>1. PipeTypeOK'
    BY PipeAssumption DEF Read, PipeTypeOK, PpGoes, TakesLock, ReleasesLock, Ends, Queues, Own
  <1>h. LockHeld'
    BY PipeAssumption
       DEF Read, PipeTypeOK, LockHeld, LockInside, PpGoes, TakesLock, ReleasesLock, Ends
  <1>o. OpenExact'
    BY PipeAssumption DEF Read, PipeTypeOK, OpenExact, PpGoes, Ends
  <1>s. Sides'
    BY PipeAssumption DEF Read, PipeTypeOK, Sides, PpGoes, Ends
  <1>2. LockHeld' /\ OpenExact' /\ Sides'
    BY <1>h, <1>o, <1>s
  <1>3. Linked'
    BY PipeAssumption, ShortLists DEF Read, PipeTypeOK, Linked, PpGoes, Ends, Queues, Own
  <1>4. StaysRightly'
    BY PipeAssumption, ShortLists
       DEF Read, PipeTypeOK, LockHeld, OpenExact, Linked, Sides, StaysRightly, Stays, WakeComing,
           LockInside, OtherEnd, OpenReaders, OpenWriters, PpGoes, TakesLock, ReleasesLock, Ends,
           Queues, Own, Other
  <1>. QED BY <1>1, <1>2, <1>3, <1>4

\* The writer goes to wait only from a full pipe with a reader.
LEMMA WriteKeeps ==
    ASSUME NEW r, NEW w, Readers = {r}, Writers = {w}, NEW t \in Ends,
           NEW nonblock \in BOOLEAN, PipeInv, Write(t, nonblock)
    PROVE  PipeInv'
  <1>. USE DEF PipeInv
  <1>f. /\ fifo' \in 0..PipeSize /\ ppCount' \in [Ends -> Nat]
        /\ ppWakes' \in [Ends -> BOOLEAN]
    <2>1. CASE OpenReaders = {}
      BY <2>1 DEF Write, PipeTypeOK
    <2>2. CASE OpenReaders # {}
      <3>1. /\ fifo' = fifo + (IF ppCount[t] < PipeSize - fifo THEN ppCount[t] ELSE PipeSize - fifo)
            /\ ppCount' = [ppCount EXCEPT ![t] =
                    @ - (IF ppCount[t] < PipeSize - fifo THEN ppCount[t] ELSE PipeSize - fifo)]
            /\ ppWakes' = [ppWakes EXCEPT ![t] = TRUE]
        BY <2>2 DEF Write
      <3>2. ppCount[t] \in Nat /\ fifo \in 0..PipeSize /\ PipeSize \in Nat
        BY PipeAssumption DEF PipeTypeOK
      <3>3. fifo' \in 0..PipeSize
        BY <3>1, <3>2
      <3>4. ppCount[t] - (IF ppCount[t] < PipeSize - fifo THEN ppCount[t]
                          ELSE PipeSize - fifo) \in Nat
        BY <3>2
      <3>. QED BY <3>1, <3>3, <3>4 DEF PipeTypeOK
    <2>. QED BY <2>1, <2>2
  <1>g. /\ ppPc[t] = "in" /\ pipeLock = t /\ pipeLock' = NoThread /\ t \in Writers
        /\ UNCHANGED <<openBy, wqFlag, wqList>>
        /\ \/ PpGoes(t, "last")
           \/ PpGoes(t, "idle") /\ fifo' = fifo
           \/ PpGoes(t, "wake") /\ OpenReaders # {} /\ fifo' = PipeSize
        /\ fifo' = fifo \/ PpGoes(t, "last") \/ PpGoes(t, "wake")
    <2>1. CASE OpenReaders = {}
      BY <2>1 DEF Write, ReleasesLock
    <2>2. CASE OpenReaders # {}
      <3>1. PpGoes(t, "wake") => fifo' = PipeSize
        <4>1. ppCount' = [ppCount EXCEPT ![t] =
                @ - (IF ppCount[t] < PipeSize - fifo THEN ppCount[t] ELSE PipeSize - fifo)]
          BY <2>2 DEF Write
        <4>2. ppCount[t] < PipeSize - fifo => ppCount'[t] = 0
          BY <4>1 DEF PipeTypeOK
        <4>3. PpGoes(t, "wake") => ppCount'[t] # 0
          BY <2>2 DEF Write, PpGoes, PipeTypeOK
        <4>. QED BY <2>2, <4>2, <4>3, PipeAssumption DEF Write, PipeTypeOK
      <3>2. PpGoes(t, "last") \/ PpGoes(t, "wake")
        BY <2>2 DEF Write
      <3>. QED BY <2>2, <3>1, <3>2 DEF Write, ReleasesLock
    <2>. QED BY <2>1, <2>2
  <1>1. PipeTypeOK'
    BY <1>f, <1>g, PipeAssumption DEF PipeTypeOK, PpGoes, Ends
  <1>h. LockHeld'
    BY <1>g, PipeAssumption
       DEF PipeTypeOK, LockHeld, LockInside, PpGoes, TakesLock, ReleasesLock, Ends
  <1>o. OpenExact'
    BY <1>g, PipeAssumption DEF PipeTypeOK, OpenExact, PpGoes, Ends
  <1>s. Sides'
    BY <1>g, PipeAssumption DEF PipeTypeOK, Sides, PpGoes, Ends
  <1>2. LockHeld' /\ OpenExact' /\ Sides'
    BY <1>h, <1>o, <1>s
  <1>3. Linked'
    BY <1>g, PipeAssumption, ShortLists DEF PipeTypeOK, Linked, PpGoes, Ends, Queues, Own
  <1>4. StaysRightly'
    <2>. SUFFICES ASSUME NEW u \in Ends, Stays(u)', ~WakeComing(Own(u))'
                  PROVE  /\ OtherEnd(u)' # {}
                         /\ IF u \in Readers THEN fifo' = 0 ELSE fifo' = PipeSize
      BY DEF StaysRightly, OtherEnd, Own, Stays, WakeComing, OpenReaders, OpenWriters
    <2>1. CASE u = t
      BY <1>g, <2>1, PipeAssumption, ShortLists
         DEF PipeTypeOK, Linked, Stays, OtherEnd, OpenReaders, OpenWriters, PpGoes, Own
    <2>2. CASE u # t
      <3>1. u \in Readers /\ Stays(u)
        BY <1>g, <2>2, PipeAssumption DEF PipeTypeOK, Stays, PpGoes, Ends, Own
      <3>2. ~PpGoes(t, "last") /\ ~PpGoes(t, "wake")
        BY <1>g, <3>1, PipeAssumption DEF WakeComing, PipeTypeOK, PpGoes, Ends, Own, Other
      <3>3. ~WakeComing(Own(u))
        BY <1>g, <3>1, <3>2, PipeAssumption DEF WakeComing, PipeTypeOK, PpGoes, Ends, Own, Other
      <3>. QED BY <1>g, <3>1, <3>2, <3>3
               DEF StaysRightly, OtherEnd, OpenReaders, OpenWriters
    <2>. QED BY <2>1, <2>2
  <1>. QED BY <1>1, <1>2, <1>3, <1>4

-----------------------------------------------------------------------------

\* No step of one reader and one writer disturbs the invariant.
LEMMA PipeStep ==
    ASSUME NEW r, NEW w, Readers = {r}, Writers = {w}, PipeInv, [PipeNext]_pipeVars
    PROVE  PipeInv'
  <1>1. CASE PipeNext
    <2>. PICK t \in Ends :
            \/ PipeOpen(t) \/ PipeClose(t) \/ HangUpReader(t) \/ HangUpWriter(t) \/ PipeClosed(t)
            \/ \E count \in Counts : PipeCall(t, count)
            \/ PipeLocked(t) \/ WakeOther(t) \/ WqWait(t) \/ WqWoken(t)
            \/ \E nonblock \in BOOLEAN : Read(t, nonblock) \/ Write(t, nonblock)
            \/ ReadWakes(t) \/ ReadOut(t) \/ WriteWakes(t)
      BY <1>1 DEF PipeNext
    <2>. QED BY PipeOpenKeeps, PipeCloseKeeps, HangUpReaderKeeps, HangUpWriterKeeps,
                PipeClosedKeeps, PipeCallKeeps, PipeLockedKeeps, WakeOtherKeeps, WqWaitKeeps,
                WqWokenKeeps, ReadKeeps, WriteKeeps, ReadWakesKeeps, ReadOutKeeps,
                WriteWakesKeeps
  <1>2. CASE UNCHANGED pipeVars
    BY <1>2 DEF pipeVars, PipeInv, PipeTypeOK, LockHeld, OpenExact, Linked, Sides, StaysRightly,
                Stays, WakeComing, LockInside, OtherEnd, OpenReaders, OpenWriters
  <1>. QED BY <1>1, <1>2

\* Whoever is in a list of a wait queue stays there.
LEMMA PipeInvServes ==
    ASSUME NEW r, NEW w, Readers = {r}, Writers = {w}, PipeInv
    PROVE  PipeServes
  <1>1. ASSUME NEW t \in Ends, Asleep(t)
        PROVE  Stays(t)
    BY <1>1, ShortLists DEF PipeInv, Linked, Asleep, Stays
  <1>. QED BY <1>1 DEF PipeServes, PipeInv, StaysRightly

\* pipe_fops_read never takes more bytes than the ring buffer has, and
\* pipe_fops_write never puts more than there is space for.
THEOREM PipeTypes ==
    ASSUME NEW r, NEW w, Readers = {r}, Writers = {w}
    PROVE  PipeSpec => []PipeTypeOK
  <1>1. PipeInit => PipeInv
    BY PipeInitial
  <1>2. PipeInv /\ [PipeNext]_pipeVars => PipeInv'
    BY PipeStep
  <1>3. PipeInv => PipeTypeOK
    BY DEF PipeInv
  <1>. QED BY <1>1, <1>2, <1>3, PTL DEF PipeSpec

\* With one reader and one writer, whatever the size of the pipe and the counts,
\* neither sleeps in pipe_fops_read or pipe_fops_write while it could go on and no
\* rt_wqueue_wakeup is coming.
THEOREM PipeNobodySleepsInVain ==
    ASSUME NEW r, NEW w, Readers = {r}, Writers = {w}
    PROVE  PipeSpec => []PipeServes
  <1>1. PipeInit => PipeInv
    BY PipeInitial
  <1>2. PipeInv /\ [PipeNext]_pipeVars => PipeInv'
    BY PipeStep
  <1>3. PipeInv => PipeServes
    BY PipeInvServes
  <1>. QED BY <1>1, <1>2, <1>3, PTL DEF PipeSpec
-----------------------------------------------------------------------------
(***************************************************************************)
(* The theorems about module Defunct, for any set of threads that run on    *)
(* the core of the system thread: DefunctServes is false of the others.     *)
(*                                                                         *)
(* EndedOnce is kept only with what the sleep relies on: the value of       *)
(* system_sem is not zero when the system thread comes back to take it and  *)
(* somebody has entered the list meanwhile (Posted).                        *)
(***************************************************************************)

OneCore == \A t \in Mortals : HomeOf[t] = SysCore

Placed ==
    /\ IsInjective(dfList)
    /\ ToSet(dfList) \cap dfFreed = {} /\ sysHand \notin ToSet(dfList) \cup dfFreed
    /\ \A t \in Mortals :
          dfAt[t] = "alive" <=> t \notin ToSet(dfList) \cup dfFreed \cup {sysHand}
    /\ sysAt = "free" <=> sysHand # NoMortal

Posted == dfList # <<>> /\ sysAt \in {"take", "sleep"} =>
    (\E t \in Mortals : dfAt[t] = "listed") \/ (sysAt = "take" /\ systemSem > 0)

DefunctInv == DefunctTypeOK /\ Placed /\ Posted /\ StackLeft

\* rt_list_insert_after at the head of the defunct list.
LEMMA EnlistAdds ==
    ASSUME DefunctInv, NEW t \in Mortals, dfAt[t] = "alive", Enlist(t)
    PROVE  /\ dfList' \in Seq(Mortals) /\ IsInjective(dfList')
           /\ ToSet(dfList') = ToSet(dfList) \cup {t}
<1> DEFINE one == <<t>>
<1>1. one \in Seq(Mortals) /\ ToSet(one) = {t} /\ IsInjective(one)
  BY SingleProperties
<1>2. dfList \in Seq(Mortals) /\ IsInjective(dfList) /\ t \notin ToSet(dfList)
  BY DEF DefunctInv, DefunctTypeOK, Placed
<1>3. dfList' = one \o dfList
  BY DEF Enlist
<1> HIDE DEF one
<1>4. ToSet(one) \cap ToSet(dfList) = {}
  BY <1>1, <1>2
<1>5. /\ one \o dfList \in Seq(Mortals) /\ IsInjective(one \o dfList)
      /\ ToSet(one \o dfList) = ToSet(one) \cup ToSet(dfList)
  BY <1>1, <1>2, <1>4, ConcatKeeps
<1> QED
  BY <1>1, <1>3, <1>5

LEMMA DefunctInitial == DefunctInit => DefunctInv
<1>1. IsInjective(<<>>) /\ ToSet(<<>>) = {} /\ <<>> \in Seq(Mortals)
  BY DEF IsInjective, ToSet
<1> QED
  BY <1>1, DefunctAssumption
     DEF DefunctInit, DefunctInv, DefunctTypeOK, Placed, Posted, StackLeft

LEMMA ExitEnlistKeeps ==
    ASSUME DefunctInv, NEW t \in Mortals, ExitEnlist(t)
    PROVE  DefunctInv'
<1>1. /\ dfList' \in Seq(Mortals) /\ IsInjective(dfList')
      /\ ToSet(dfList') = ToSet(dfList) \cup {t}
  BY EnlistAdds DEF ExitEnlist
<1>2. dfAt[t] = "alive" /\ dfAt' = [dfAt EXCEPT ![t] = "listed"]
      /\ UNCHANGED <<systemSem, sysAt, sysHand, dfFreed>>
  BY DEF ExitEnlist
<1>3. DefunctTypeOK' /\ dfAt'[t] = "listed"
  BY <1>1, <1>2 DEF DefunctInv, DefunctTypeOK
<1>4. Placed'
  BY <1>1, <1>2, <1>3 DEF DefunctInv, DefunctTypeOK, Placed
<1>5. Posted'
  BY <1>3 DEF Posted
<1>6. StackLeft'
  BY <1>2 DEF DefunctInv, DefunctTypeOK, Placed, StackLeft
<1> QED
  BY <1>3, <1>4, <1>5, <1>6 DEF DefunctInv

LEMMA ExitPostKeeps ==
    ASSUME DefunctInv, NEW t \in Mortals, ExitPost(t)
    PROVE  DefunctInv'
<1>1. /\ dfAt[t] = "listed" /\ dfAt' = [dfAt EXCEPT ![t] = "posted"]
      /\ UNCHANGED <<dfList, sysHand, dfFreed>>
  BY DEF ExitPost
<1>2. IF sysAt = "sleep" THEN sysAt' = "loop" /\ systemSem' = systemSem
      ELSE systemSem' = systemSem + 1 /\ sysAt' = sysAt
  BY DEF ExitPost, PostSem
<1>3. DefunctTypeOK'
  BY <1>1, <1>2 DEF DefunctInv, DefunctTypeOK
<1>4. Placed'
  BY <1>1, <1>2 DEF DefunctInv, DefunctTypeOK, Placed
<1>5. Posted'
  BY <1>1, <1>2 DEF DefunctInv, DefunctTypeOK, Posted
<1>6. StackLeft'
  BY <1>1 DEF DefunctInv, DefunctTypeOK, StackLeft
<1> QED
  BY <1>3, <1>4, <1>5, <1>6 DEF DefunctInv

LEMMA DeleteMortalKeeps ==
    ASSUME DefunctInv, NEW t \in Mortals, DeleteMortal(t)
    PROVE  DefunctInv'
<1>1. /\ dfList' \in Seq(Mortals) /\ IsInjective(dfList')
      /\ ToSet(dfList') = ToSet(dfList) \cup {t}
  BY EnlistAdds DEF DeleteMortal
<1>2. /\ dfAt[t] = "alive" /\ dfAt' = [dfAt EXCEPT ![t] = "off"]
      /\ UNCHANGED <<sysHand, dfFreed>>
  BY DEF DeleteMortal
<1>3. IF sysAt = "sleep" THEN sysAt' = "loop" /\ systemSem' = systemSem
      ELSE systemSem' = systemSem + 1 /\ sysAt' = sysAt
  BY DEF DeleteMortal, PostSem
<1>4. DefunctTypeOK'
  BY <1>1, <1>2, <1>3 DEF DefunctInv, DefunctTypeOK
<1>5. Placed'
  BY <1>1, <1>2, <1>3 DEF DefunctInv, DefunctTypeOK, Placed
<1>6. Posted'
  BY <1>3 DEF DefunctInv, DefunctTypeOK, Posted
<1>7. StackLeft'
  BY <1>2 DEF DefunctInv, DefunctTypeOK, StackLeft
<1> QED
  BY <1>4, <1>5, <1>6, <1>7 DEF DefunctInv

\* The moves that leave the list and the system thread alone.
LEMMA SwitchCreateKeeps ==
    ASSUME DefunctInv, NEW t \in Mortals, ExitSwitch(t) \/ CreateMortal(t)
    PROVE  DefunctInv'
<1>1. CASE ExitSwitch(t)
  <2>1. DefunctTypeOK' /\ Placed' /\ StackLeft'
    BY <1>1 DEF ExitSwitch, DefunctInv, DefunctTypeOK, Placed, StackLeft
  <2>2. Posted'
    BY <1>1 DEF ExitSwitch, DefunctInv, DefunctTypeOK, Posted
  <2> QED
    BY <2>1, <2>2 DEF DefunctInv
<1>2. CASE CreateMortal(t)
  <2>1. DefunctTypeOK' /\ Placed' /\ StackLeft'
    BY <1>2, DefunctAssumption DEF CreateMortal, DefunctInv, DefunctTypeOK, Placed, StackLeft
  <2>2. Posted'
    BY <1>2 DEF CreateMortal, DefunctInv, DefunctTypeOK, Posted
  <2> QED
    BY <2>1, <2>2 DEF DefunctInv
<1> QED
  BY <1>1, <1>2

\* rt_sem_take finds a value, or an empty list: nobody is inside _thread_exit.
LEMMA SysTakeKeeps ==
    ASSUME OneCore, DefunctInv, SysTake
    PROVE  DefunctInv'
<1>1. DefunctTypeOK' /\ Placed' /\ StackLeft'
  BY DEF SysTake, DefunctInv, DefunctTypeOK, Placed, StackLeft
<1>2. \A t \in Mortals : dfAt[t] # "listed"
  BY DEF OneCore, SysTake, CoreFree
<1>3. Posted'
  BY <1>2 DEF SysTake, DefunctInv, DefunctTypeOK, Posted
<1> QED
  BY <1>1, <1>3 DEF DefunctInv

LEMMA SysDequeueKeeps ==
    ASSUME OneCore, DefunctInv, SysDequeue
    PROVE  DefunctInv'
<1>1. CASE dfList = <<>>
  BY <1>1 DEF SysDequeue, DefunctInv, DefunctTypeOK, Placed, Posted, StackLeft
<1>2. CASE dfList # <<>>
  <2> DEFINE h == Head(dfList)
  <2>1. /\ sysAt = "loop" /\ sysHand' = h /\ dfList' = Tail(dfList) /\ sysAt' = "free"
        /\ UNCHANGED <<dfAt, systemSem, dfFreed>> /\ CoreFree(SysCore)
    BY <1>2 DEF SysDequeue
  <2>2. dfList \in Seq(Mortals) /\ IsInjective(dfList)
    BY DEF DefunctInv, DefunctTypeOK, Placed
  <2>3. /\ dfList' \in Seq(Mortals) /\ IsInjective(dfList')
        /\ h \in ToSet(dfList) /\ ToSet(dfList') = ToSet(dfList) \ {h}
    BY <1>2, <2>1, <2>2, TailProperties
  <2>4. h \in Mortals
    BY <1>2, <2>2, HeadProperties
  <2> HIDE DEF h
  <2>5. sysHand = NoMortal /\ h # NoMortal
    BY <2>1, <2>4, DefunctAssumption DEF DefunctInv, Placed
  <2>6. dfAt[h] = "off"
    <3>1. dfAt[h] # "alive"
      BY <2>3, <2>4 DEF DefunctInv, Placed
    <3>2. dfAt[h] \notin {"listed", "posted"}
      BY <2>1, <2>4 DEF OneCore, CoreFree
    <3> QED
      BY <2>4, <3>1, <3>2 DEF DefunctInv, DefunctTypeOK
  <2>7. DefunctTypeOK'
    BY <2>1, <2>3, <2>4 DEF DefunctInv, DefunctTypeOK
  <2>8. Placed'
    BY <2>1, <2>3, <2>4, <2>5, DefunctAssumption DEF DefunctInv, DefunctTypeOK, Placed
  <2>9. Posted' /\ StackLeft'
    BY <2>1, <2>6 DEF DefunctInv, Posted, StackLeft
  <2> QED
    BY <2>7, <2>8, <2>9 DEF DefunctInv
<1> QED
  BY <1>1, <1>2

LEMMA SysFreeKeeps ==
    ASSUME DefunctInv, SysFree
    PROVE  DefunctInv'
<1>1. sysHand \in Mortals /\ dfAt[sysHand] = "off"
  BY DEF SysFree, DefunctInv, DefunctTypeOK, Placed, StackLeft
<1>2. DefunctTypeOK'
  BY <1>1 DEF SysFree, DefunctInv, DefunctTypeOK
<1>a. ToSet(dfList) \subseteq Mortals
  <2>1. dfList \in Seq(Mortals)
    BY DEF DefunctInv, DefunctTypeOK
  <2>2. DOMAIN dfList = 1..Len(dfList) /\ \A k \in 1..Len(dfList) : dfList[k] \in Mortals
    BY <2>1, LenProperties, ElementOfSeq
  <2> QED
    BY <2>2 DEF ToSet
<1>3. Placed'
  BY <1>1, <1>a, DefunctAssumption DEF SysFree, DefunctInv, DefunctTypeOK, Placed
<1>4. Posted' /\ StackLeft'
  BY <1>1, DefunctAssumption DEF SysFree, DefunctInv, DefunctTypeOK, Posted, StackLeft
<1> QED
  BY <1>2, <1>3, <1>4 DEF DefunctInv

LEMMA DefunctStep == ASSUME OneCore PROVE DefunctInv /\ [DefunctNext]_dfVars => DefunctInv'
<1>. SUFFICES ASSUME DefunctInv, [DefunctNext]_dfVars PROVE DefunctInv'
  OBVIOUS
<1>1. CASE UNCHANGED dfVars
  BY <1>1 DEF dfVars, DefunctInv, DefunctTypeOK, Placed, Posted, StackLeft
<1>2. CASE DefunctNext
  BY <1>2, ExitEnlistKeeps, ExitPostKeeps, SwitchCreateKeeps, DeleteMortalKeeps,
     SysTakeKeeps, SysDequeueKeeps, SysFreeKeeps DEF DefunctNext
<1> QED
  BY <1>1, <1>2

\* Of the three places of a thread, one holds it or none.
LEMMA PlacesCounted == DefunctInv => EndedOnce
<1>. SUFFICES ASSUME DefunctInv PROVE EndedOnce
  OBVIOUS
<1>1. \A p : Cardinality({p}) = 1
  BY FS_Singleton
<1>2. Cardinality({}) = 0
  BY FS_EmptySet
<1>3. ASSUME NEW t \in Mortals
      PROVE  Cardinality({p \in {"list", "hand", "freed"} :
                 CASE p = "list" -> t \in ToSet(dfList)
                   [] p = "hand" -> t = sysHand
                   [] p = "freed" -> t \in dfFreed}) = IF dfAt[t] = "alive" THEN 0 ELSE 1
  <2> DEFINE P == {p \in {"list", "hand", "freed"} :
                 CASE p = "list" -> t \in ToSet(dfList)
                   [] p = "hand" -> t = sysHand
                   [] p = "freed" -> t \in dfFreed}
  <2>1. CASE dfAt[t] = "alive"
    <3>1. t \notin ToSet(dfList) /\ t # sysHand /\ t \notin dfFreed
      BY <2>1 DEF DefunctInv, Placed
    <3>2. P = {}
      BY <3>1
    <3> QED
      BY <1>2, <2>1, <3>2
  <2>2. CASE dfAt[t] # "alive"
    <3>1. P = {"list"} \/ P = {"hand"} \/ P = {"freed"}
      <4>1. t \in ToSet(dfList) \/ t = sysHand \/ t \in dfFreed
        BY <2>2 DEF DefunctInv, Placed
      <4>2. CASE t \in ToSet(dfList) /\ t # sysHand /\ t \notin dfFreed
        <5>1. P = {"list"}
          BY <4>2
        <5> QED
          BY <5>1
      <4>3. CASE t \notin ToSet(dfList) /\ t = sysHand /\ t \notin dfFreed
        <5>1. P = {"hand"}
          BY <4>3
        <5> QED
          BY <5>1
      <4>4. CASE t \notin ToSet(dfList) /\ t # sysHand /\ t \in dfFreed
        <5>1. P = {"freed"}
          BY <4>4
        <5> QED
          BY <5>1
      <4> QED
        BY <4>1, <4>2, <4>3, <4>4 DEF DefunctInv, Placed
    <3>2. Cardinality(P) = 1
      BY <1>1, <3>1
    <3> QED
      BY <2>2, <3>2
  <2> QED
    BY <2>1, <2>2
<1>4. sysAt = "sleep" /\ dfList # <<>> => \E t \in Mortals : dfAt[t] = "listed"
  BY DEF DefunctInv, Posted
<1> QED
  BY <1>3, <1>4 DEF EndedOnce, DefunctInv, Placed

\* The state of the threads and of the system thread has its type: dfAt, dfList,
\* systemSem, sysAt, sysHand and dfFreed.
THEOREM DefunctTypes == ASSUME OneCore PROVE DefunctSpec => []DefunctTypeOK
<1>1. DefunctInv /\ [DefunctNext]_dfVars => DefunctInv'
  BY DefunctStep
<1>2. DefunctInv => DefunctTypeOK
  BY DEF DefunctInv
<1> QED
  BY DefunctInitial, <1>1, <1>2, PTL DEF DefunctSpec

\* A thread that has ended waits once in the defunct list, is with the system thread
\* or has been freed; the system thread does not sleep on a list that nobody will tell
\* it of; and no stack is freed that a thread is still on.  This is of threads that
\* run on the core of the system thread.
THEOREM DefunctEndsOnce == ASSUME OneCore PROVE DefunctSpec => []DefunctServes
<1>1. DefunctInv /\ [DefunctNext]_dfVars => DefunctInv'
  BY DefunctStep
<1>2. DefunctInv => DefunctServes
  BY PlacesCounted DEF DefunctServes, DefunctInv
<1> QED
  BY DefunctInitial, <1>1, <1>2, PTL DEF DefunctSpec

-----------------------------------------------------------------------------
(***************************************************************************)
(* The work queue (WorkQueue), for any works and clients, as long as nobody *)
(* submits a work without delay while its delay runs (Resubmits).           *)
(*                                                                         *)
(* WorksServed is kept with where the works are that a client has submitted *)
(* and whose timer it has still to start (WqDelays), with what the worker   *)
(* is executing (WqWorker), and with who waits for the semaphore: its value *)
(* is one only inside the loop that gives it back (WqWaiters).              *)
(***************************************************************************)

WqLists ==
    /\ IsInjective(workList) /\ IsInjective(delayedList)
    /\ ToSet(workList) \cap ToSet(delayedList) = {}

WqWorker ==
    /\ workerAt = "func" <=> workCurrent # NoWork
    /\ workerAt = "loop" /\ workerStat = "SUSPEND" => workList = <<>>
    /\ FunctionUndisturbed

\* The works whose delay may run.
Delayed == submitting \cap ToSet(delayedList) \cap hasQueue

WqDelays ==
    /\ delayOn \subseteq Delayed
    /\ \A c \in Clients : clientAt[c] = "start" =>
          /\ clientWork[c] \in Delayed \ delayOn
          /\ Critical = {}
          /\ \A d \in Clients : clientAt[d] = "start" /\ clientWork[d] = clientWork[c] => d = c

WqWaiters ==
    /\ IsInjective(semWaiters)
    /\ \A c \in ToSet(semWaiters) : clientAt[c] = "syncwait"
    /\ \A c \in Clients : clientAt[c] = "synctake" => clientWork[c] \in Works
    /\ \A c \in answered : c \in ToSet(semWaiters) /\ clientWork[c] \in Works
    /\ sem > 0 => workerAt = "ack" /\ semWaiters = <<>>
    /\ WaitersAnswered

WqInv == WorkTypeOK /\ WqLists /\ WqWorker /\ WqDelays /\ WqWaiters

\* No client moves, but within rt_workqueue_cancel_all_work.
WqClientsStay ==
    \A d \in Clients : clientAt'[d] = clientAt[d] \/ {clientAt[d], clientAt'[d]} \subseteq CancelLabels

LEMMA WqInitial == WorkInit => WqInv
<1> SUFFICES ASSUME WorkInit PROVE WqInv
  OBVIOUS
<1>1. ToSet(<<>>) = {} /\ IsInjective(<<>>)
  BY DEF ToSet, IsInjective
<1>2. WorkTypeOK
  <2>1. /\ clientAt \in [Clients -> {"idle", "start", "synctake", "syncwait"} \cup CancelLabels]
        /\ clientWork \in [Clients -> Works \cup {NoWork}]
    BY DEF WorkInit
  <2>2. workList \in Seq(Works) /\ delayedList \in Seq(Works) /\ semWaiters \in Seq(Clients)
    BY DEF WorkInit
  <2> QED
    BY <2>1, <2>2 DEF WorkInit, WorkTypeOK
<1>3. WqLists
  BY <1>1 DEF WorkInit, WqLists
<1>4. WqWorker /\ WqDelays
  BY DEF WorkInit, WqWorker, FunctionUndisturbed, WqDelays
<1>5. WqWaiters
  BY <1>1 DEF WorkInit, WqWaiters, WaitersAnswered
<1> QED
  BY <1>2, <1>3, <1>4, <1>5 DEF WqInv

\* rt_list_remove(&work->list): the work is in neither list, the others stay.
LEMMA WorkUnlinked ==
    ASSUME WqInv, NEW w
    PROVE  /\ Without(workList, w) \in Seq(Works) /\ IsInjective(Without(workList, w))
           /\ ToSet(Without(workList, w)) = ToSet(workList) \ {w}
           /\ Without(delayedList, w) \in Seq(Works) /\ IsInjective(Without(delayedList, w))
           /\ ToSet(Without(delayedList, w)) = ToSet(delayedList) \ {w}
<1>1. workList \in Seq(Works) /\ IsInjective(workList)
  BY DEF WqInv, WorkTypeOK, WqLists
<1>2. delayedList \in Seq(Works) /\ IsInjective(delayedList)
  BY DEF WqInv, WorkTypeOK, WqLists
<1> QED
  BY <1>1, <1>2, WithoutProperties

\* A removed work is linked again, at the end of a list or at its head.
LEMMA WorkLinked ==
    ASSUME NEW s \in Seq(Works), IsInjective(s), NEW w \in Works, w \notin ToSet(s)
    PROVE  /\ Append(s, w) \in Seq(Works) /\ IsInjective(Append(s, w))
           /\ ToSet(Append(s, w)) = ToSet(s) \cup {w}
           /\ <<w>> \o s \in Seq(Works) /\ IsInjective(<<w>> \o s)
           /\ ToSet(<<w>> \o s) = ToSet(s) \cup {w}
<1> DEFINE one == <<w>>
<1>1. one \in Seq(Works) /\ IsInjective(one) /\ ToSet(one) = {w}
  BY SingleProperties
<1> HIDE DEF one
<1>2. ToSet(one) \cap ToSet(s) = {}
  BY <1>1
<1>3. /\ one \o s \in Seq(Works) /\ IsInjective(one \o s)
      /\ ToSet(one \o s) = ToSet(one) \cup ToSet(s)
  BY <1>1, <1>2, ConcatKeeps
<1>4. /\ Append(s, w) \in Seq(Works) /\ IsInjective(Append(s, w))
      /\ ToSet(Append(s, w)) = ToSet(s) \cup {w}
  BY AppendAdds
<1> QED
  BY <1>1, <1>3, <1>4 DEF one

\* What the worker is doing is not disturbed by a step that wakes it by WakeWorker or
\* that brings no work.
LEMMA WqWorkerKept ==
    ASSUME WqInv, UNCHANGED <<workCurrent, workerAt, funcWaits>>,
           WakeWorker \/ (workerStat' = workerStat /\ (workList = <<>> => workList' = <<>>))
    PROVE  WqWorker' /\ workerStat' \in {"RUN", "SUSPEND"}
  BY DEF WqInv, WorkTypeOK, WqWorker, FunctionUndisturbed, WakeWorker

\* Nor is anything that the clients wait for by a step of the lists.
LEMMA WqWaitersKept ==
    ASSUME WqInv, WqClientsStay, UNCHANGED <<semVars, clientWork, answered, workCurrent, workerAt>>
    PROVE  WqWaiters'
<1>1. \A d \in Clients : /\ clientAt'[d] = "synctake" <=> clientAt[d] = "synctake"
                         /\ clientAt'[d] = "syncwait" <=> clientAt[d] = "syncwait"
  BY DEF WqClientsStay, CancelLabels
<1>2. ToSet(semWaiters) \subseteq Clients
  BY ElementOfSeq, LenProperties DEF WqInv, WorkTypeOK, ToSet
<1> QED
  BY <1>1, <1>2 DEF WqInv, WqWaiters, WaitersAnswered, semVars

\* A step about work w, which no client is submitting, leaves the delays of the others.
LEMMA WqDelaysKept ==
    ASSUME WqInv, NEW w, WqClientsStay, UNCHANGED clientWork,
           delayOn' \subseteq delayOn \ {w},
           \A x \in Delayed : x # w => x \in Delayed',
           \A c \in Clients : clientAt[c] = "start" => clientWork[c] # w
    PROVE  WqDelays'
<1>1. WqDelays
  BY DEF WqInv
<1>2. delayOn' \subseteq Delayed'
  BY <1>1 DEF WqDelays
<1>3. Critical' = Critical
  BY DEF Critical, WqClientsStay
<1>4. \A d \in Clients : clientAt'[d] = "start" <=> clientAt[d] = "start"
  BY DEF WqClientsStay, CancelLabels
<1> QED
  BY <1>1, <1>2, <1>3, <1>4 DEF WqDelays

\* rt_workqueue_submit_work without delay, and rt_workqueue_urgent_work.
LEMMA WqSubmitNow ==
    ASSUME WqInv, ~Resubmits, NEW c \in Clients \cup {Isr}, NEW w \in Works,
           SubmitNow(c, w) \/ Urgent(c, w)
    PROVE  WqInv'
<1> DEFINE l == Without(workList, w)
           e == Without(delayedList, w)
<1>1. /\ Usable(w) /\ w \notin submitting /\ delayedList' = e /\ WakeWorker
      /\ UNCHANGED <<submitting, delayOn, semVars, workCurrent, workerAt, funcWaits, clientVars>>
      /\ workList' \in {l, Append(l, w), <<w>> \o l}
      /\ pending' \in SUBSET (pending \cup {w})
      /\ hasQueue' \in {hasQueue, hasQueue \cup {w}}
  BY DEF SubmitNow, Urgent, Undelayed
<1>2. /\ l \in Seq(Works) /\ IsInjective(l) /\ ToSet(l) = ToSet(workList) \ {w}
      /\ e \in Seq(Works) /\ IsInjective(e) /\ ToSet(e) = ToSet(delayedList) \ {w}
  BY WorkUnlinked
<1>3. w \notin ToSet(l)
  BY <1>2
<1> HIDE DEF l, e
<1>4. /\ Append(l, w) \in Seq(Works) /\ IsInjective(Append(l, w))
      /\ ToSet(Append(l, w)) = ToSet(l) \cup {w}
      /\ <<w>> \o l \in Seq(Works) /\ IsInjective(<<w>> \o l)
      /\ ToSet(<<w>> \o l) = ToSet(l) \cup {w}
  BY <1>2, <1>3, WorkLinked
<1>5. /\ workList' \in Seq(Works) /\ IsInjective(workList')
      /\ ToSet(workList') \subseteq ToSet(workList) \cup {w}
  <2>1. CASE workList' = l
    BY <1>2, <2>1
  <2>2. CASE workList' = Append(l, w)
    BY <1>2, <1>4, <2>2
  <2>3. CASE workList' = <<w>> \o l
    BY <1>2, <1>4, <2>3
  <2> QED
    BY <1>1, <2>1, <2>2, <2>3
<1>6. WqWorker' /\ workerStat' \in {"RUN", "SUSPEND"}
  BY <1>1, WqWorkerKept
<1>7. WqWaiters'
  BY <1>1, WqWaitersKept DEF clientVars, WqClientsStay
<1>8. WqDelays'
  <2>1. delayOn' \subseteq delayOn \ {w}
    BY <1>1 DEF WqInv, WqDelays, Delayed
  <2>2. \A x \in Delayed : x # w => x \in Delayed'
    BY <1>1, <1>2 DEF Delayed
  <2>3. \A d \in Clients : clientAt[d] = "start" => clientWork[d] # w
    BY <1>1 DEF Usable
  <2> QED
    BY <1>1, <2>1, <2>2, <2>3, WqDelaysKept DEF clientVars, WqClientsStay
<1>9. WqLists'
  BY <1>1, <1>2, <1>5 DEF WqInv, WqLists
<1>10. WorkTypeOK'
  BY <1>1, <1>2, <1>5, <1>6 DEF WqInv, WorkTypeOK, semVars, clientVars
<1> QED
  BY <1>6, <1>7, <1>8, <1>9, <1>10 DEF WqInv

\* The section of a delayed submission: the work is in delayed_list, and its timer is
\* not running until the client has started it.
LEMMA WqSubmitDelayed ==
    ASSUME WqInv, NEW c \in Clients, NEW w \in Works, SubmitDelayed(c, w)
    PROVE  WqInv'
<1> DEFINE l == Without(workList, w)
           e == Without(delayedList, w)
<1>1. /\ Usable(w) /\ Critical \subseteq {c} /\ clientAt[c] = "idle"
      /\ workList' = l /\ delayedList' = Append(e, w)
      /\ pending' = pending \ {w} /\ delayOn' = delayOn \ {w}
      /\ submitting' = submitting \cup {w} /\ hasQueue' = hasQueue \cup {w}
      /\ clientAt' = [clientAt EXCEPT ![c] = "start"]
      /\ clientWork' = [clientWork EXCEPT ![c] = w]
      /\ UNCHANGED <<semVars, workerVars, answered>>
  BY DEF SubmitDelayed, Starts, ClientRuns
<1>2. /\ l \in Seq(Works) /\ IsInjective(l) /\ ToSet(l) = ToSet(workList) \ {w}
      /\ e \in Seq(Works) /\ IsInjective(e) /\ ToSet(e) = ToSet(delayedList) \ {w}
  BY WorkUnlinked
<1>3. w \notin ToSet(e)
  BY <1>2
<1> HIDE DEF l, e
<1>4. /\ Append(e, w) \in Seq(Works) /\ IsInjective(Append(e, w))
      /\ ToSet(Append(e, w)) = ToSet(e) \cup {w}
  BY <1>2, <1>3, WorkLinked
<1>5. /\ clientAt \in [Clients -> {"idle", "start", "synctake", "syncwait"} \cup CancelLabels]
      /\ clientWork \in [Clients -> Works \cup {NoWork}]
      /\ workList \in Seq(Works)
  BY DEF WqInv, WorkTypeOK
<1>6. \A d \in Clients : /\ clientAt'[d] = IF d = c THEN "start" ELSE clientAt[d]
                         /\ clientWork'[d] = IF d = c THEN w ELSE clientWork[d]
  BY <1>1, <1>5
<1>7. WqWorker'
  <2>1. workList = <<>> => workList' = <<>>
    BY <1>1, <1>2, <1>5, EmptyProperties
  <2> QED
    BY <1>1, <2>1, WqWorkerKept DEF workerVars
<1>8. WqWaiters'
  BY <1>1, <1>6 DEF WqInv, WorkTypeOK, WqWaiters, WaitersAnswered, semVars, workerVars
<1>9. WqDelays'
  <2>1. Critical = {} /\ Critical' = {}
    <3>1. c \notin Critical
      BY <1>1 DEF Critical, CancelLabels
    <3>2. Critical = {}
      BY <1>1, <3>1
    <3> QED
      BY <1>6, <3>2 DEF Critical, CancelLabels
  <2>2. Delayed' = Delayed \cup {w}
    BY <1>1, <1>2, <1>4 DEF Delayed
  <2>3. delayOn' \subseteq Delayed'
    BY <1>1, <2>2 DEF WqInv, WqDelays
  <2>4. \A d \in Clients : clientAt[d] = "start" => clientWork[d] # w
    BY <1>1 DEF Usable
  <2> QED
    BY <1>1, <1>6, <2>1, <2>2, <2>3, <2>4 DEF WqInv, WqDelays
<1>10. WqLists'
  BY <1>1, <1>2, <1>4 DEF WqInv, WqLists
<1>11. WorkTypeOK'
  BY <1>1, <1>2, <1>4, <1>5 DEF WqInv, WorkTypeOK, semVars, workerVars
<1> QED
  BY <1>7, <1>8, <1>9, <1>10, <1>11 DEF WqInv

\* The timer of a delayed work: nobody is submitting that work, since its timer runs.
LEMMA WqDelayEnds ==
    ASSUME WqInv, NEW w \in Works, DelayEnds(w)
    PROVE  WqInv'
<1> DEFINE l == Without(workList, w)
           e == Without(delayedList, w)
<1>1. /\ w \in delayOn /\ delayedList' = e /\ WakeWorker
      /\ delayOn' = delayOn \ {w} /\ submitting' = submitting \ {w}
      /\ UNCHANGED <<hasQueue, semVars, workCurrent, workerAt, funcWaits, clientVars>>
      /\ workList' \in {l, Append(l, w)} /\ pending' \in {pending, pending \cup {w}}
  BY DEF DelayEnds
<1>2. /\ l \in Seq(Works) /\ IsInjective(l) /\ ToSet(l) = ToSet(workList) \ {w}
      /\ e \in Seq(Works) /\ IsInjective(e) /\ ToSet(e) = ToSet(delayedList) \ {w}
  BY WorkUnlinked
<1>3. w \notin ToSet(l)
  BY <1>2
<1> HIDE DEF l, e
<1>4. /\ Append(l, w) \in Seq(Works) /\ IsInjective(Append(l, w))
      /\ ToSet(Append(l, w)) = ToSet(l) \cup {w}
  BY <1>2, <1>3, WorkLinked
<1>5. /\ workList' \in Seq(Works) /\ IsInjective(workList')
      /\ ToSet(workList') \subseteq ToSet(workList) \cup {w}
  BY <1>1, <1>2, <1>4
<1>6. WqWorker' /\ workerStat' \in {"RUN", "SUSPEND"}
  BY <1>1, WqWorkerKept
<1>7. WqWaiters'
  BY <1>1, WqWaitersKept DEF clientVars, WqClientsStay
<1>8. WqDelays'
  <2>1. \A x \in Delayed : x # w => x \in Delayed'
    BY <1>1, <1>2 DEF Delayed
  <2>2. \A d \in Clients : clientAt[d] = "start" => clientWork[d] # w
    BY <1>1 DEF WqInv, WqDelays
  <2> QED
    BY <1>1, <2>1, <2>2, WqDelaysKept DEF clientVars, WqClientsStay
<1>9. WqLists'
  BY <1>1, <1>2, <1>5 DEF WqInv, WqLists
<1>10. WorkTypeOK'
  BY <1>1, <1>2, <1>5, <1>6 DEF WqInv, WorkTypeOK, semVars, clientVars
<1> QED
  BY <1>6, <1>7, <1>8, <1>9, <1>10 DEF WqInv

\* The section of _workqueue_cancel_work, about a work that no client is submitting.
LEMMA WqCancel ==
    ASSUME WqInv, NEW w, Cancel(w), WqClientsStay,
           clientAt' \in [Clients -> {"idle", "start", "synctake", "syncwait"} \cup CancelLabels],
           UNCHANGED <<semVars, workerVars, clientWork, answered>>,
           \A c \in Clients : clientAt[c] = "start" => clientWork[c] # w
    PROVE  WqInv'
<1> DEFINE l == Without(workList, w)
           e == Without(delayedList, w)
<1>1. /\ workList' = l /\ delayedList' = e
      /\ pending' = pending \ {w} /\ hasQueue' = hasQueue \ {w}
      /\ delayOn' = (IF w \in submitting THEN delayOn \ {w} ELSE delayOn)
      /\ submitting' = submitting \ {w}
  BY DEF Cancel
<1>2. /\ l \in Seq(Works) /\ IsInjective(l) /\ ToSet(l) = ToSet(workList) \ {w}
      /\ e \in Seq(Works) /\ IsInjective(e) /\ ToSet(e) = ToSet(delayedList) \ {w}
  BY WorkUnlinked
<1> HIDE DEF l, e
<1>3. workList \in Seq(Works)
  BY DEF WqInv, WorkTypeOK
<1>4. WqWorker'
  <2>1. workList = <<>> => workList' = <<>>
    BY <1>1, <1>2, <1>3, EmptyProperties
  <2> QED
    BY <2>1, WqWorkerKept DEF workerVars
<1>5. WqWaiters'
  BY WqWaitersKept DEF workerVars
<1>6. WqDelays'
  <2>1. delayOn' \subseteq delayOn \ {w}
    BY <1>1 DEF WqInv, WqDelays, Delayed
  <2>2. \A x \in Delayed : x # w => x \in Delayed'
    BY <1>1, <1>2 DEF Delayed
  <2> QED
    BY <2>1, <2>2, WqDelaysKept
<1>7. WqLists'
  BY <1>1, <1>2 DEF WqInv, WqLists
<1>8. WorkTypeOK'
  BY <1>1, <1>2 DEF WqInv, WorkTypeOK, semVars, workerVars
<1> QED
  BY <1>4, <1>5, <1>6, <1>7, <1>8 DEF WqInv

\* Every cancellation is of such a work: rt_workqueue_cancel_all_work does not begin
\* while one is being submitted, and keeps the other clients from running.
LEMMA WqCancels ==
    ASSUME WqInv, NEW c \in Clients,
           \/ CancelCut(c, "cutwork", "cancelall") \/ CancelCut(c, "cutdelayed", "canceldelayed")
           \/ \E w \in Works : CancelWork(c, w)
    PROVE  WqInv'
<1>1. clientAt \in [Clients -> {"idle", "start", "synctake", "syncwait"} \cup CancelLabels]
  BY DEF WqInv, WorkTypeOK
<1>2. ASSUME NEW cut \in CancelLabels, NEW test \in CancelLabels, CancelCut(c, cut, test)
      PROVE  WqInv'
  <2>1. /\ clientAt[c] = cut /\ Cancel(clientWork[c])
        /\ clientAt' = [clientAt EXCEPT ![c] = test]
        /\ UNCHANGED <<semVars, workerVars, clientWork, answered>>
    BY <1>2 DEF CancelCut
  <2>2. c \in Critical
    BY <2>1 DEF Critical
  <2>3. \A d \in Clients : clientAt[d] # "start"
    BY <2>2 DEF WqInv, WqDelays
  <2>4. WqClientsStay /\ clientAt' \in [Clients -> {"idle", "start", "synctake", "syncwait"} \cup CancelLabels]
    BY <1>1, <2>1 DEF WqClientsStay
  <2> QED
    BY <2>1, <2>3, <2>4, WqCancel
<1>3. CASE \E w \in Works : CancelWork(c, w)
  <2>1. PICK w \in Works : CancelWork(c, w)
    BY <1>3
  <2>2. UNCHANGED <<semVars, workerVars, clientAt, clientWork, answered>>
    BY <2>1 DEF CancelWork, clientVars
  <2> QED
    BY <1>1, <2>1, <2>2, WqCancel DEF CancelWork, Usable, WqClientsStay
<1> QED
  BY <1>2, <1>3 DEF CancelLabels

\* The worker takes the first work of the list: its delay, if any, is over.
LEMMA WqWorkerTakes == ASSUME WqInv, WorkerTakes PROVE WqInv'
<1> DEFINE w == Head(workList)
<1>1. /\ workerStat = "RUN" /\ workerAt = "loop" /\ workList # <<>>
      /\ workCurrent' = w /\ workList' = Tail(workList)
      /\ pending' = pending \ {w} /\ hasQueue' = hasQueue \ {w} /\ workerAt' = "func"
      /\ UNCHANGED <<delayedList, submitting, delayOn, semVars, workerStat, funcWaits, clientVars>>
  BY DEF WorkerTakes, WorkerRuns
<1>2. workList \in Seq(Works) /\ IsInjective(workList)
  BY DEF WqInv, WorkTypeOK, WqLists
<1>3. /\ Tail(workList) \in Seq(Works) /\ IsInjective(Tail(workList))
      /\ w \in ToSet(workList) /\ ToSet(Tail(workList)) = ToSet(workList) \ {w} /\ w \in Works
  BY <1>1, <1>2, TailProperties, HeadProperties
<1> HIDE DEF w
<1>4. w \notin ToSet(delayedList) /\ w # NoWork
  BY <1>3, WorkAssumption DEF WqInv, WqLists
<1>5. WqWorker'
  BY <1>1, <1>4 DEF WqInv, WqWorker, FunctionUndisturbed
<1>6. answered = {}
  BY <1>1, WorkAssumption DEF WqInv, WqWorker, WqWaiters, WaitersAnswered
<1>7. WqWaiters'
  BY <1>1, <1>6 DEF WqInv, WorkTypeOK, WqWaiters, WaitersAnswered, semVars, clientVars
<1>8. WqDelays'
  <2>1. Delayed' = Delayed
    BY <1>1, <1>4 DEF Delayed
  <2> QED
    BY <1>1, <2>1 DEF WqInv, WqDelays, clientVars, Critical, CancelLabels
<1>9. WqLists'
  BY <1>1, <1>3 DEF WqInv, WqLists
<1>10. WorkTypeOK'
  BY <1>1, <1>3 DEF WqInv, WorkTypeOK, semVars, clientVars
<1> QED
  BY <1>5, <1>7, <1>8, <1>9, <1>10 DEF WqInv

\* The other steps of the worker.
LEMMA WqWorkerSteps ==
    ASSUME WqInv, WorkerSleeps \/ FuncWaits \/ FuncGoesOn \/ FuncReturns \/ AckBegin
    PROVE  WqInv'
<1>1. UNCHANGED <<listVars, semVars, clientVars>>
  BY DEF WorkerSleeps, FuncWaits, FuncGoesOn, FuncReturns, AckBegin
<1>2. UNCHANGED <<workList, delayedList, pending, submitting, hasQueue, delayOn, sem, semWaiters,
                  clientAt, clientWork, answered>>
  BY <1>1 DEF listVars, semVars, clientVars
<1>3. /\ workCurrent' \in Works \cup {NoWork} /\ workerAt' \in {"loop", "func", "done", "ack"}
      /\ workerStat' \in {"RUN", "SUSPEND"} /\ funcWaits' \in BOOLEAN
  BY DEF WorkerSleeps, FuncWaits, FuncGoesOn, FuncReturns, AckBegin, WqInv, WorkTypeOK
<1>4. WqWorker'
  BY <1>2 DEF WorkerSleeps, FuncWaits, FuncGoesOn, FuncReturns, AckBegin, WorkerRuns,
              WqInv, WorkTypeOK, WqWorker, FunctionUndisturbed
<1>5. /\ workerAt' = "ack" \/ (sem > 0 => workerAt # "ack")
      /\ \A c \in answered : workCurrent' = clientWork[c] \/ workerAt' \in {"done", "ack"}
  BY <1>2 DEF WorkerSleeps, FuncWaits, FuncGoesOn, FuncReturns, AckBegin,
              WqInv, WqWorker, WqWaiters, WaitersAnswered
<1>6. WqWaiters'
  BY <1>2, <1>5 DEF WqInv, WqWaiters, WaitersAnswered
<1>7. WqDelays' /\ WqLists'
  BY <1>2 DEF WqInv, WqDelays, WqLists, Delayed, Critical, CancelLabels
<1>8. WorkTypeOK'
  BY <1>2, <1>3 DEF WqInv, WorkTypeOK
<1> QED
  BY <1>4, <1>6, <1>7, <1>8 DEF WqInv

\* A round of _workqueue_work_completion: the first of the waiting clients goes on, or
\* the value that nobody waited for is taken back.
LEMMA WqAcks == ASSUME WqInv, AckTake \/ AckRelease PROVE WqInv'
<1>1. /\ UNCHANGED <<listVars, workCurrent, workerStat, funcWaits, clientWork>>
      /\ workerAt = "ack"
  BY DEF AckTake, AckRelease, workerVars, clientVars
<1>2. UNCHANGED <<workList, delayedList, pending, submitting, hasQueue, delayOn>>
  BY <1>1 DEF listVars
<1>3. /\ semWaiters \in Seq(Clients) /\ IsInjective(semWaiters)
      /\ \A c \in ToSet(semWaiters) : clientAt[c] = "syncwait"
      /\ clientAt \in [Clients -> {"idle", "start", "synctake", "syncwait"} \cup CancelLabels]
  BY DEF WqInv, WorkTypeOK, WqWaiters
<1>4. CASE AckTake
  <2>1. /\ sem > 0 /\ sem' = sem - 1 /\ workerAt' = "loop" /\ workerStat = "RUN"
        /\ UNCHANGED <<semWaiters, clientAt, answered>>
    BY <1>4 DEF AckTake, WorkerRuns, clientVars
  <2>2. sem = 1 /\ answered = {}
    <3>1. ToSet(<<>>) = {}
      BY DEF ToSet
    <3> QED
      BY <2>1, <3>1 DEF WqInv, WorkTypeOK, WqWaiters
  <2>3. WqWaiters'
    BY <1>1, <2>1, <2>2 DEF WqInv, WqWaiters, WaitersAnswered
  <2>4. WqWorker'
    BY <1>1, <1>2, <2>1 DEF WqInv, WqWorker, FunctionUndisturbed
  <2>5. WqDelays' /\ WqLists'
    BY <1>1, <1>2, <2>1 DEF WqInv, WqDelays, WqLists, Delayed, Critical, CancelLabels
  <2>6. WorkTypeOK'
    BY <1>1, <1>2, <2>1, <2>2 DEF WqInv, WorkTypeOK
  <2> QED
    BY <2>3, <2>4, <2>5, <2>6 DEF WqInv
<1>5. CASE AckRelease /\ semWaiters = <<>>
  <2>1. sem' = 1 /\ UNCHANGED <<semWaiters, workerAt, clientAt, answered>>
    BY <1>5 DEF AckRelease, workerVars
  <2>2. WqWaiters'
    BY <1>1, <1>5, <2>1 DEF WqInv, WqWaiters, WaitersAnswered
  <2>3. WqWorker' /\ WqDelays' /\ WqLists'
    BY <1>1, <1>2, <2>1
       DEF WqInv, WqWorker, FunctionUndisturbed, WqDelays, WqLists, Delayed, Critical, CancelLabels
  <2>4. WorkTypeOK'
    BY <1>1, <1>2, <2>1 DEF WqInv, WorkTypeOK
  <2> QED
    BY <2>2, <2>3, <2>4 DEF WqInv
<1>6. CASE AckRelease /\ semWaiters # <<>>
  <2> DEFINE h == Head(semWaiters)
             r == Tail(semWaiters)
  <2>1. /\ semWaiters' = r /\ clientAt' = [clientAt EXCEPT ![h] = "idle"]
        /\ answered' = answered \ {h} /\ sem' = sem /\ workerAt' = workerAt
        /\ sem = 0
    BY <1>6 DEF AckRelease, workerVars
  <2>2. /\ r \in Seq(Clients) /\ IsInjective(r) /\ h \in Clients
        /\ h \in ToSet(semWaiters) /\ ToSet(r) = ToSet(semWaiters) \ {h}
    BY <1>3, <1>6, TailProperties, HeadProperties
  <2> HIDE DEF h, r
  <2>3. \A c \in Clients : clientAt'[c] = IF c = h THEN "idle" ELSE clientAt[c]
    BY <1>3, <2>1
  <2>4. \A c \in ToSet(r) : c \in Clients /\ clientAt'[c] = "syncwait"
    <3>1. ToSet(semWaiters) \subseteq Clients
      BY <1>3, ElementOfSeq, LenProperties DEF ToSet
    <3> QED
      BY <1>3, <2>2, <2>3, <3>1
  <2>5. WqWaiters'
    BY <1>1, <2>1, <2>2, <2>3, <2>4 DEF WqInv, WqWaiters, WaitersAnswered
  <2>6. WqWorker' /\ WqLists'
    BY <1>1, <1>2, <2>1 DEF WqInv, WqWorker, FunctionUndisturbed, WqLists
  <2>7. WqDelays'
    <3>1. \A c \in Clients : clientAt'[c] = "start" <=> clientAt[c] = "start"
      BY <1>3, <2>2, <2>3
    <3>2. Critical' \subseteq Critical /\ Delayed' = Delayed
      BY <1>2, <2>3 DEF Critical, CancelLabels, Delayed
    <3> QED
      BY <1>1, <1>2, <3>1, <3>2 DEF WqInv, WqDelays
  <2>8. WorkTypeOK'
    BY <1>1, <1>2, <1>3, <2>1, <2>2 DEF WqInv, WorkTypeOK
  <2> QED
    BY <2>5, <2>6, <2>7, <2>8 DEF WqInv
<1> QED
  BY <1>4, <1>5, <1>6

\* A client that has submitted a delayed work starts its timer.
LEMMA WqStartDelay == ASSUME WqInv, NEW c \in Clients, StartDelay(c) PROVE WqInv'
<1> DEFINE w == clientWork[c]
<1>1. /\ clientAt[c] = "start" /\ delayOn' = delayOn \cup {w}
      /\ clientAt' = [clientAt EXCEPT ![c] = "idle"]
      /\ UNCHANGED <<workList, delayedList, pending, submitting, hasQueue, semVars, workerVars,
                     clientWork, answered>>
  BY DEF StartDelay
<1>2. w \in Delayed /\ Critical = {}
  BY <1>1 DEF WqInv, WqDelays
<1>3. clientAt \in [Clients -> {"idle", "start", "synctake", "syncwait"} \cup CancelLabels]
  BY DEF WqInv, WorkTypeOK
<1>4. \A d \in Clients : clientAt'[d] = IF d = c THEN "idle" ELSE clientAt[d]
  BY <1>1, <1>3
<1>5. WqDelays'
  <2>1. Delayed' = Delayed
    BY <1>1 DEF Delayed
  <2>2. Critical' = {}
    BY <1>2, <1>4 DEF Critical, CancelLabels
  <2>3. ASSUME NEW d \in Clients, clientAt'[d] = "start"
        PROVE  /\ clientWork[d] \in Delayed /\ clientWork[d] \notin delayOn'
               /\ \A x \in Clients : clientAt'[x] = "start" /\ clientWork[x] = clientWork[d] => x = d
    BY <1>1, <1>4, <2>3 DEF WqInv, WqDelays
  <2> QED
    BY <1>1, <1>2, <2>1, <2>2, <2>3 DEF WqInv, WqDelays
<1>6. WqWaiters'
  BY <1>1, <1>4 DEF WqInv, WorkTypeOK, WqWaiters, WaitersAnswered, semVars, workerVars
<1>7. WqWorker' /\ WqLists'
  BY <1>1 DEF WqInv, WqWorker, FunctionUndisturbed, WqLists, workerVars
<1>8. WorkTypeOK'
  BY <1>1, <1>2, <1>3 DEF WqInv, WorkTypeOK, Delayed, semVars, workerVars
<1> QED
  BY <1>5, <1>6, <1>7, <1>8 DEF WqInv

\* rt_workqueue_cancel_all_work looks at a list and reads its first entry.
WqLooks(c) ==
    \/ CancelTest(c, workList, "cancelall", "readwork")
    \/ CancelRead(c, workList, "readwork", "cutwork")
    \/ CancelTest(c, delayedList, "canceldelayed", "readdelayed")
    \/ CancelRead(c, delayedList, "readdelayed", "cutdelayed")

LEMMA WqLooked ==
    ASSUME WqInv, NEW c \in Clients, WqLooks(c)
    PROVE  /\ UNCHANGED <<listVars, semVars, workerVars, answered>>
           /\ \E p \in CancelLabels : clientAt' = [clientAt EXCEPT ![c] = p]
           /\ clientAt[c] \in CancelLabels
           /\ clientWork' = clientWork \/ \E w \in Works : clientWork' = [clientWork EXCEPT ![c] = w]
<1>1. ASSUME NEW list \in Seq(Works), NEW from \in CancelLabels, NEW to \in CancelLabels,
             CancelTest(c, list, from, to) \/ CancelRead(c, list, from, to)
      PROVE  /\ UNCHANGED <<listVars, semVars, workerVars, answered>>
             /\ \E p \in CancelLabels : clientAt' = [clientAt EXCEPT ![c] = p]
             /\ clientAt[c] \in CancelLabels
             /\ clientWork' = clientWork \/ \E w \in Works : clientWork' = [clientWork EXCEPT ![c] = w]
  <2>1. "wild" \in CancelLabels /\ (list # <<>> => Head(list) \in Works)
    BY HeadProperties DEF CancelLabels
  <2> QED
    BY <1>1, <2>1 DEF CancelTest, CancelRead
<1>2. workList \in Seq(Works) /\ delayedList \in Seq(Works)
  BY DEF WqInv, WorkTypeOK
<1>3. {"cancelall", "readwork", "cutwork", "canceldelayed", "readdelayed", "cutdelayed"}
        \subseteq CancelLabels
  BY DEF CancelLabels
<1> QED
  BY <1>1, <1>2, <1>3 DEF WqLooks

\* The clients enter and leave rt_enter_critical, and go to wait for a work to end.
LEMMA WqClientSteps ==
    ASSUME WqInv, NEW c \in Clients,
           (\E w \in Works : SyncBegin(c, w)) \/ CancelAllBegin(c) \/ CancelNext(c) \/ WqLooks(c)
    PROVE  WqInv'
<1> DEFINE Places == {"idle", "start", "synctake", "syncwait"} \cup CancelLabels
<1>1. /\ UNCHANGED <<listVars, semVars, workerVars, answered>>
      /\ \E p \in {"idle", "synctake"} \cup CancelLabels : clientAt' = [clientAt EXCEPT ![c] = p]
      /\ clientAt[c] \notin {"start", "synctake", "syncwait"}
      /\ clientWork' = clientWork \/ \E w \in Works : clientWork' = [clientWork EXCEPT ![c] = w]
  <2>1. CASE \E w \in Works : SyncBegin(c, w)
    BY <2>1 DEF SyncBegin, Starts
  <2>2. CASE CancelAllBegin(c)
    BY <2>2 DEF CancelAllBegin, Starts, CancelLabels
  <2>3. CASE CancelNext(c)
    BY <2>3 DEF CancelNext, CancelLabels
  <2>4. CASE WqLooks(c)
    BY <2>4, WqLooked DEF CancelLabels
  <2> QED
    BY <2>1, <2>2, <2>3, <2>4
<1>2. UNCHANGED <<workList, delayedList, pending, submitting, hasQueue, delayOn, sem, semWaiters,
                  workCurrent, workerAt, workerStat, funcWaits, answered>>
  BY <1>1 DEF listVars, semVars, workerVars
<1>3. clientAt \in [Clients -> Places] /\ clientWork \in [Clients -> Works \cup {NoWork}]
  BY DEF WqInv, WorkTypeOK
<1>4. /\ \A d \in Clients : d # c => clientAt'[d] = clientAt[d] /\ clientWork'[d] = clientWork[d]
      /\ clientAt'[c] \in {"idle", "synctake"} \cup CancelLabels
  BY <1>1, <1>3
<1>5. clientAt'[c] = "synctake" => clientWork'[c] \in Works
  <2>1. ASSUME NEW w \in Works, SyncBegin(c, w) PROVE clientWork'[c] = w
    BY <1>3, <2>1 DEF SyncBegin
  <2>2. ASSUME CancelAllBegin(c) \/ CancelNext(c) PROVE clientAt'[c] # "synctake"
    BY <1>3, <2>2 DEF CancelAllBegin, CancelNext
  <2>3. WqLooks(c) => clientAt'[c] # "synctake"
    BY <1>3, WqLooked DEF CancelLabels
  <2> QED
    BY <2>1, <2>2, <2>3
<1>6. ASSUME NEW d \in Clients, clientAt'[d] = "start" PROVE Critical' = {}
  <2>1. d # c /\ clientAt[d] = "start"
    BY <1>4, <1>6 DEF CancelLabels
  <2>2. Critical = {}
    BY <2>1 DEF WqInv, WqDelays
  <2>3. ~CancelAllBegin(c)
    BY <2>1 DEF CancelAllBegin, Quiet
  <2>4. ~CancelNext(c)
    BY <2>2 DEF CancelNext, Critical, CancelLabels
  <2>5. ~WqLooks(c)
    BY <2>2, WqLooked DEF Critical
  <2>6. clientAt'[c] = "synctake"
    BY <1>3, <2>3, <2>4, <2>5 DEF SyncBegin
  <2> QED
    BY <1>4, <2>2, <2>6 DEF Critical, CancelLabels
<1>7. WqDelays'
  <2>1. Delayed' = Delayed
    BY <1>2 DEF Delayed
  <2>2. \A d \in Clients : clientAt'[d] = "start" => d # c /\ clientAt[d] = "start"
    BY <1>4 DEF CancelLabels
  <2> QED
    BY <1>2, <1>4, <1>6, <2>1, <2>2 DEF WqInv, WqDelays
<1>8. WqWaiters'
  <2>1. c \notin ToSet(semWaiters)
    BY <1>1 DEF WqInv, WqWaiters
  <2>2. ToSet(semWaiters) \subseteq Clients
    BY ElementOfSeq, LenProperties DEF WqInv, WorkTypeOK, ToSet
  <2> QED
    BY <1>2, <1>4, <1>5, <2>1, <2>2 DEF WqInv, WqWaiters, WaitersAnswered, CancelLabels
<1>9. WqWorker' /\ WqLists'
  BY <1>2 DEF WqInv, WqWorker, FunctionUndisturbed, WqLists
<1>10. clientAt' \in [Clients -> Places] /\ clientWork' \in [Clients -> Works \cup {NoWork}]
  BY <1>1, <1>3
<1>11. WorkTypeOK'
  BY <1>2, <1>10 DEF WqInv, WorkTypeOK
<1> QED
  BY <1>7, <1>8, <1>9, <1>11 DEF WqInv

LEMMA WqSyncTake == ASSUME WqInv, NEW c \in Clients, SyncTake(c) PROVE WqInv'
<1> DEFINE a == Append(semWaiters, c)
<1>1. /\ workerAt # "ack" /\ clientAt[c] = "synctake"
      /\ semWaiters' = a /\ clientAt' = [clientAt EXCEPT ![c] = "syncwait"]
      /\ answered' = (IF workCurrent = clientWork[c] THEN answered \cup {c} ELSE answered)
      /\ UNCHANGED <<listVars, sem, workerVars, clientWork>>
  BY DEF SyncTake, ClientRuns
<1>2. UNCHANGED <<workList, delayedList, pending, submitting, hasQueue, delayOn, sem,
                  workCurrent, workerAt, workerStat, funcWaits>>
  BY <1>1 DEF listVars, workerVars
<1>3. /\ semWaiters \in Seq(Clients) /\ IsInjective(semWaiters) /\ c \notin ToSet(semWaiters)
      /\ clientAt \in [Clients -> {"idle", "start", "synctake", "syncwait"} \cup CancelLabels]
  BY <1>1 DEF WqInv, WorkTypeOK, WqWaiters
<1>4. a \in Seq(Clients) /\ IsInjective(a) /\ ToSet(a) = ToSet(semWaiters) \cup {c}
  BY <1>3, AppendAdds
<1> HIDE DEF a
<1>5. \A d \in Clients : clientAt'[d] = IF d = c THEN "syncwait" ELSE clientAt[d]
  BY <1>1, <1>3
<1>6. WqWaiters'
  <2>1. ToSet(semWaiters) \subseteq Clients
    BY <1>3, ElementOfSeq, LenProperties DEF ToSet
  <2>2. clientWork[c] \in Works /\ ~(sem > 0)
    BY <1>1 DEF WqInv, WqWaiters
  <2>3. \A d \in answered' : workCurrent = clientWork[d] \/ workerAt \in {"done", "ack"}
    BY <1>1 DEF WqInv, WqWaiters, WaitersAnswered
  <2> QED
    BY <1>1, <1>2, <1>4, <1>5, <2>1, <2>2, <2>3 DEF WqInv, WqWaiters, WaitersAnswered
<1>7. WqDelays'
  <2>1. Delayed' = Delayed
    BY <1>2 DEF Delayed
  <2>2. \A d \in Clients : clientAt'[d] = "start" => clientAt[d] = "start"
    BY <1>5
  <2>3. Critical' \subseteq Critical
    BY <1>5 DEF Critical, CancelLabels
  <2> QED
    BY <1>1, <1>2, <2>1, <2>2, <2>3 DEF WqInv, WqDelays
<1>8. WqWorker' /\ WqLists'
  BY <1>2 DEF WqInv, WqWorker, FunctionUndisturbed, WqLists
<1>9. WorkTypeOK'
  BY <1>1, <1>2, <1>3, <1>4 DEF WqInv, WorkTypeOK
<1> QED
  BY <1>6, <1>7, <1>8, <1>9 DEF WqInv

LEMMA WqStep == ASSUME WqInv, ~Resubmits, [WorkNext]_workVars PROVE WqInv'
<1>1. CASE Worker
  BY <1>1, WqWorkerTakes, WqWorkerSteps, WqAcks DEF Worker
<1>2. ASSUME NEW w \in Works, DelayEnds(w) PROVE WqInv'
  BY <1>2, WqDelayEnds
<1>3. ASSUME NEW c \in Clients \cup {Isr}, NEW w \in Works,
             \/ SubmitNow(c, w) \/ SubmitDelayed(c, w) \/ Urgent(c, w)
             \/ CancelWork(c, w) \/ SyncBegin(c, w)
      PROVE  WqInv'
  <2>1. CASE SubmitNow(c, w) \/ Urgent(c, w)
    BY <1>3, <2>1, WqSubmitNow
  <2>2. CASE SubmitDelayed(c, w)
    BY <2>2, WqSubmitDelayed DEF SubmitDelayed
  <2>3. CASE CancelWork(c, w)
    BY <2>3, WqCancels DEF CancelWork
  <2>4. CASE SyncBegin(c, w)
    BY <2>4, WqClientSteps DEF SyncBegin
  <2> QED
    BY <1>3, <2>1, <2>2, <2>3, <2>4
<1>4. ASSUME NEW c \in Clients,
             \/ StartDelay(c) \/ SyncTake(c)
             \/ CancelAllBegin(c) \/ CancelRound(c) \/ CancelNext(c)
      PROVE  WqInv'
  <2>1. CancelRound(c) =>
           \/ WqLooks(c)
           \/ CancelCut(c, "cutwork", "cancelall") \/ CancelCut(c, "cutdelayed", "canceldelayed")
    BY DEF CancelRound, WqLooks
  <2> QED
    BY <1>4, <2>1, WqStartDelay, WqSyncTake, WqCancels, WqClientSteps
<1>5. CASE UNCHANGED workVars
  <2>1. UNCHANGED <<workList, delayedList, pending, submitting, hasQueue, delayOn, sem, semWaiters,
                    workCurrent, workerAt, workerStat, funcWaits, clientAt, clientWork, answered>>
    BY <1>5 DEF workVars, listVars, semVars, workerVars, clientVars
  <2>2. WorkTypeOK' /\ WqLists' /\ WqWorker'
    BY <2>1 DEF WqInv, WorkTypeOK, WqLists, WqWorker, FunctionUndisturbed
  <2>3. WqDelays' /\ WqWaiters'
    BY <2>1 DEF WqInv, WqDelays, Delayed, Critical, WqWaiters, WaitersAnswered
  <2> QED
    BY <2>2, <2>3 DEF WqInv
<1> QED
  BY <1>1, <1>2, <1>3, <1>4, <1>5 DEF WorkNext

\* The semaphore of the work queue is 0 or 1, and every list, flag and place keeps
\* its type through submissions, delays, cancellations and the worker's own steps.
THEOREM WqTypes == ASSUME ~Resubmits PROVE WorkSpec => []WorkTypeOK
<1>1. WqInv /\ [WorkNext]_workVars => WqInv'
  BY WqStep
<1>2. WqInv => WorkTypeOK
  BY DEF WqInv
<1> QED
  BY <1>1, <1>2, WqInitial, PTL DEF WorkSpec

\* No work is forgotten in work_list, no delay ends without a queue to go to, a worker
\* that sleeps inside work_func is not resumed for another work, and the end of a work
\* wakes everybody who waits for it.
THEOREM WqWorksServed == ASSUME ~Resubmits PROVE WorkSpec => []WorksServed
<1>1. WqInv /\ [WorkNext]_workVars => WqInv'
  BY WqStep
<1>2. WqInv => WorksServed
  <2> SUFFICES ASSUME WqInv PROVE WorksServed
    OBVIOUS
  <2>1. IsInjective(workList \o delayedList)
    BY ConcatKeeps DEF WqInv, WorkTypeOK, WqLists
  <2>2. DelayFindsQueue /\ delayOn \subseteq submitting \cap ToSet(delayedList)
    BY DEF WqInv, WqDelays, Delayed, DelayFindsQueue
  <2> QED
    BY <2>1, <2>2 DEF WqInv, WqWorker, WqWaiters, WorksServed, WorksReached
<1> QED
  BY <1>1, <1>2, WqInitial, PTL DEF WorkSpec

-----------------------------------------------------------------------------
(***************************************************************************)
(* The heap (Heap), for every size of it, of its headers and of the blocks  *)
(* asked for: first what plug_holes and the splitting of a block do to a    *)
(* chain of headers, then the operations.                                   *)
(***************************************************************************)

\* BlocksTile, for any headers: the block after p is the next one above it.
HeapChain(m) ==
    /\ {0, End} \subseteq DOMAIN m /\ DOMAIN m \subseteq 0..End
    /\ m \in [DOMAIN m -> [used : BOOLEAN, next : 0..End, prev : 0..End]]
    /\ \A p \in DOMAIN m \ {End} :
          /\ m[p].next \in DOMAIN m /\ p + Hdr <= m[p].next
          /\ \A q \in DOMAIN m : p < q => m[p].next <= q
          /\ IF p = 0 THEN m[p].prev = 0
             ELSE m[p].prev \in DOMAIN m /\ m[m[p].prev].next = p
    /\ m[End].used /\ m[End].next = End

\* low is the lowest free block.
HeapLowest(m, low) ==
    /\ low \in DOMAIN m /\ (low # End => ~m[low].used)
    /\ \A q \in DOMAIN m : ~m[q].used => low <= q

\* Of two blocks in a row one is used; around p, which has just become free,
\* both may be free.
HeapMerged(m) == \A q \in DOMAIN m \ {End} : m[q].used \/ m[m[q].next].used
HeapMergedBut(m, p) ==
    \A q \in DOMAIN m \ {End} : q # p /\ m[q].next # p => m[q].used \/ m[m[q].next].used

\* What the users have is the same in m1 as in m: the used blocks and their ends.
HeapSameBlocks(m, m1) ==
    \A q \in 0..End :
        /\ q \in DOMAIN m /\ m[q].used <=> q \in DOMAIN m1 /\ m1[q].used
        /\ q \in DOMAIN m /\ m[q].used => m1[q].next = m[q].next

LEMMA HeapNumbers ==
    /\ HeapSize \in Nat /\ Hdr \in Nat /\ 0 < Hdr /\ MinSize \in Nat /\ 0 < MinSize
    /\ End \in Nat /\ End = HeapSize + Hdr /\ Null \notin 0..HeapSize
  BY HeapAssumption DEF End

\* Two blocks do not have the same next block, and a block ends where a free one begins
\* only if it is the previous one of it.
LEMMA HeapNextDiffers ==
    ASSUME NEW m, HeapChain(m), NEW p \in DOMAIN m \ {End}, NEW q \in DOMAIN m \ {End}
    PROVE  /\ m[p].next = m[q].next => p = q
           /\ p < m[p].next /\ m[p].next <= End /\ p <= HeapSize
           /\ m[q].next = p => q = m[p].prev
<1>1. /\ p \in Nat /\ q \in Nat /\ m[p].next \in Nat /\ m[q].next \in Nat
      /\ p + Hdr <= m[p].next /\ q + Hdr <= m[q].next /\ m[p].next <= End
      /\ p < q => m[p].next <= q
      /\ q < p => m[q].next <= p
  BY HeapNumbers DEF HeapChain
<1>2. /\ m[p].next = m[q].next => p = q
      /\ p < m[p].next /\ p <= HeapSize
  BY <1>1, HeapNumbers
<1>3. ASSUME m[q].next = p PROVE q = m[p].prev
  <2>1. p # 0
    BY <1>1, <1>3, HeapNumbers
  <2> DEFINE o == m[p].prev
  <2>2. o \in DOMAIN m /\ m[o].next = p
    BY <2>1 DEF HeapChain
  <2>3. o # End
    BY <2>2 DEF HeapChain
  <2>4. /\ o \in Nat /\ o + Hdr <= p
        /\ o < q => m[o].next <= q
        /\ q < o => m[q].next <= o
    BY <2>2, <2>3, HeapNumbers DEF HeapChain
  <2> HIDE DEF o
  <2>5. o = q
    BY <1>1, <1>3, <2>2, <2>4, HeapNumbers
  <2> QED
    BY <2>5 DEF o
<1> QED
  BY <1>1, <1>2, <1>3

\* A block p absorbs the next one, n.
HeapAbsorbs(m, p, n, m1) ==
    /\ HeapChain(m1) /\ n \in DOMAIN m \ {End} /\ DOMAIN m1 = DOMAIN m \ {n}
    /\ m1[p].next = m[n].next
    /\ \A q \in DOMAIN m1 : m1[q].used = m[q].used /\ (q # p => m1[q].next = m[q].next)

LEMMA HeapMergeKeeps ==
    ASSUME NEW m, HeapChain(m), NEW p \in DOMAIN m \ {End}, m[p].next # End
    PROVE  HeapAbsorbs(m, p, m[p].next, Merge(m, p))
<1> DEFINE n == m[p].next
           k == m[n].next
           m1 == Merge(m, p)
<1>1. n \in DOMAIN m \ {End} /\ p \in DOMAIN m /\ p # End
  BY DEF HeapChain
<1>2. /\ k \in DOMAIN m /\ p \in Nat /\ n \in Nat /\ k \in Nat /\ p < n /\ n < k
      /\ p + Hdr <= n /\ n + Hdr <= k
  BY <1>1, HeapNumbers DEF HeapChain
<1>3. DOMAIN m1 = DOMAIN m \ {n}
  BY DEF Merge
<1>4. m1[p] = [m[p] EXCEPT !.next = k]
  BY <1>1, <1>2, <1>3 DEF Merge
<1>5. m1[k] = [m[k] EXCEPT !.prev = p]
  BY <1>1, <1>2, <1>3 DEF Merge
<1>6. ASSUME NEW q \in DOMAIN m1, q # p, q # k PROVE m1[q] = m[q]
  BY <1>3, <1>6 DEF Merge
<1>7. \A q \in DOMAIN m : m[q] \in [used : BOOLEAN, next : 0..End, prev : 0..End]
  BY DEF HeapChain
<1>8. k \in 0..End /\ p \in 0..End
  BY <1>2 DEF HeapChain
<1>9. m1[p] \in [used : BOOLEAN, next : 0..End, prev : 0..End]
      /\ m1[p].used = m[p].used /\ m1[p].next = k /\ m1[p].prev = m[p].prev
  BY <1>1, <1>4, <1>7, <1>8
<1>10. m1[k] \in [used : BOOLEAN, next : 0..End, prev : 0..End]
       /\ m1[k].used = m[k].used /\ m1[k].next = m[k].next /\ m1[k].prev = p
  BY <1>2, <1>5, <1>7, <1>8
<1> HIDE DEF m1
<1>11. m1 \in [DOMAIN m1 -> [used : BOOLEAN, next : 0..End, prev : 0..End]]
  <2>1. m1 = [q \in DOMAIN m1 |-> m1[q]]
    BY DEF m1, Merge
  <2>2. \A q \in DOMAIN m1 : m1[q] \in [used : BOOLEAN, next : 0..End, prev : 0..End]
    BY <1>3, <1>6, <1>7, <1>9, <1>10
  <2> QED
    BY <2>1, <2>2
<1>12. \A q \in DOMAIN m1 : m1[q].used = m[q].used /\ (q # p => m1[q].next = m[q].next)
  BY <1>6, <1>9, <1>10
<1>13. {0, End} \subseteq DOMAIN m1 /\ DOMAIN m1 \subseteq 0..End
  BY <1>1, <1>2, <1>3 DEF HeapChain
<1>14. ASSUME NEW q \in DOMAIN m1 \ {End}
       PROVE  /\ m1[q].next \in DOMAIN m1 /\ q + Hdr <= m1[q].next
              /\ \A r \in DOMAIN m1 : q < r => m1[q].next <= r
  <2>1. CASE q = p
    <3>1. p + Hdr <= k
      BY <1>2, HeapNumbers
    <3>2. ASSUME NEW r \in DOMAIN m1, p < r PROVE k <= r
      <4>1. r \in DOMAIN m /\ r # n /\ n <= r /\ r \in Nat
        BY <1>1, <1>3, <3>2, HeapNumbers DEF HeapChain
      <4>2. n < r
        BY <1>2, <4>1
      <4> QED
        BY <1>1, <4>1, <4>2 DEF HeapChain
    <3>3. k # n
      BY <1>2
    <3> QED
      BY <1>2, <1>3, <1>9, <2>1, <3>1, <3>2, <3>3
  <2>2. CASE q # p
    <3>1. q \in DOMAIN m \ {End} /\ m1[q].next = m[q].next
      BY <1>3, <1>12, <2>2
    <3>2. m[q].next # n
      BY <2>2, <3>1, HeapNextDiffers
    <3> QED
      BY <1>3, <3>1, <3>2 DEF HeapChain
  <2> QED
    BY <2>1, <2>2
<1>15. ASSUME NEW q \in DOMAIN m1 \ {End}
       PROVE  IF q = 0 THEN m1[q].prev = 0
              ELSE m1[q].prev \in DOMAIN m1 /\ m1[m1[q].prev].next = q
  <2>1. q \in DOMAIN m \ {End} /\ q # n
    BY <1>3
  <2>2. CASE q = k
    <3>1. q # 0 /\ p # n
      BY <1>2, <2>2
    <3> QED
      BY <1>1, <1>3, <1>9, <1>10, <2>2, <3>1
  <2>3. CASE q # k
    <3>1. m1[q].prev = m[q].prev
      BY <1>6, <1>9, <2>3
    <3>2. CASE q = 0
      BY <2>1, <3>1, <3>2 DEF HeapChain
    <3>3. CASE q # 0
      <4> DEFINE o == m[q].prev
      <4>1. o \in DOMAIN m /\ m[o].next = q
        BY <2>1, <3>3 DEF HeapChain
      <4>2. o # n /\ o # p
        BY <2>1, <2>3, <4>1
      <4>3. o \in DOMAIN m1 /\ m1[o].next = q
        BY <1>3, <1>12, <4>1, <4>2
      <4> QED
        BY <3>1, <3>3, <4>3
    <3> QED
      BY <3>2, <3>3
  <2> QED
    BY <2>2, <2>3
<1>16. m1[End].used /\ m1[End].next = End
  BY <1>1, <1>12, <1>13 DEF HeapChain
<1>17. HeapChain(m1)
  BY <1>11, <1>13, <1>14, <1>15, <1>16 DEF HeapChain
<1> QED
  BY <1>1, <1>3, <1>9, <1>12, <1>17 DEF m1, HeapAbsorbs

\* The part of the block p from r on becomes a free block.
HeapCuts(m, p, r, m1) ==
    /\ HeapChain(m1) /\ r \in Nat /\ p < r /\ r \notin DOMAIN m /\ r # End
    /\ DOMAIN m1 = DOMAIN m \cup {r}
    /\ m1[p].next = r /\ m1[r].next = m[p].next /\ ~m1[r].used
    /\ \A q \in DOMAIN m : m1[q].used = m[q].used /\ (q # p => m1[q].next = m[q].next)

LEMMA HeapSplitKeeps ==
    ASSUME NEW m, HeapChain(m), NEW p \in DOMAIN m \ {End}, NEW size \in Nat,
           p + Hdr + size + Hdr <= m[p].next
    PROVE  HeapCuts(m, p, p + Hdr + size, Split(m, p, size))
<1> DEFINE r == p + Hdr + size
           k == m[p].next
           m1 == Split(m, p, size)
<1>1. p \in DOMAIN m /\ p # End /\ p \in 0..End /\ k \in DOMAIN m /\ k \in 0..End
  BY DEF HeapChain
<1>2. /\ p \in Nat /\ r \in Nat /\ k \in Nat /\ p < r /\ r < k /\ k <= End
      /\ p + Hdr <= r /\ r + Hdr <= k /\ r \in 0..End /\ r # End
      /\ p # r /\ p # k /\ r # k
  BY <1>1, HeapNumbers
<1>3. r \notin DOMAIN m
  <2>1. r \in DOMAIN m => k <= r
    BY <1>2 DEF HeapChain
  <2> HIDE DEF r, k
  <2> QED
    BY <1>2, <2>1
<1>4. DOMAIN m1 = DOMAIN m \cup {r}
  BY DEF Split
<1> HIDE DEF r
<1>5. m1[p] = [m[p] EXCEPT !.next = r]
  BY <1>1, <1>2 DEF Split, r
<1>6. m1[r] = [used |-> FALSE, next |-> k, prev |-> p]
  BY <1>1, <1>2, <1>3 DEF Split, r
<1>7. k # End => m1[k] = [m[k] EXCEPT !.prev = r]
  BY <1>1, <1>2 DEF Split, r
<1>8. ASSUME NEW q \in DOMAIN m, q # p, q # k \/ q = End PROVE m1[q] = m[q]
  BY <1>3, <1>8 DEF Split, r
<1>9. \A q \in DOMAIN m : m[q] \in [used : BOOLEAN, next : 0..End, prev : 0..End]
  BY DEF HeapChain
<1>10. m1[p] \in [used : BOOLEAN, next : 0..End, prev : 0..End]
       /\ m1[p].used = m[p].used /\ m1[p].next = r /\ m1[p].prev = m[p].prev
  BY <1>1, <1>2, <1>5, <1>9
<1>11. m1[r] \in [used : BOOLEAN, next : 0..End, prev : 0..End]
       /\ ~m1[r].used /\ m1[r].next = k /\ m1[r].prev = p
  BY <1>1, <1>6
<1>12. m1[k] \in [used : BOOLEAN, next : 0..End, prev : 0..End]
       /\ m1[k].used = m[k].used /\ m1[k].next = m[k].next /\ (k # End => m1[k].prev = r)
  <2>1. CASE k = End
    BY <1>1, <1>8, <1>9, <2>1
  <2>2. CASE k # End
    BY <1>1, <1>2, <1>7, <1>9, <2>2
  <2> QED
    BY <2>1, <2>2
<1>13. m1 \in [DOMAIN m1 -> [used : BOOLEAN, next : 0..End, prev : 0..End]]
  <2>1. m1 = [q \in DOMAIN m1 |-> m1[q]]
    BY DEF Split
  <2> HIDE DEF m1
  <2>2. \A q \in DOMAIN m1 : m1[q] \in [used : BOOLEAN, next : 0..End, prev : 0..End]
    BY <1>4, <1>8, <1>9, <1>10, <1>11, <1>12
  <2> QED
    BY <2>1, <2>2
<1> HIDE DEF m1
<1>14. \A q \in DOMAIN m : m1[q].used = m[q].used /\ (q # p => m1[q].next = m[q].next)
  BY <1>8, <1>10, <1>12
<1>15. {0, End} \subseteq DOMAIN m1 /\ DOMAIN m1 \subseteq 0..End
  BY <1>2, <1>4 DEF HeapChain
<1>16. ASSUME NEW q \in DOMAIN m1 \ {End}
       PROVE  /\ m1[q].next \in DOMAIN m1 /\ q + Hdr <= m1[q].next
              /\ \A x \in DOMAIN m1 : q < x => m1[q].next <= x
  <2>1. CASE q = p
    <3>1. ASSUME NEW x \in DOMAIN m, p < x PROVE r <= x
      <4>1. k <= x /\ x \in Nat
        BY <1>1, <3>1, HeapNumbers DEF HeapChain
      <4> QED
        BY <1>2, <4>1
    <3>2. r <= r
      BY <1>2
    <3> QED
      BY <1>2, <1>4, <1>10, <2>1, <3>1, <3>2
  <2>2. CASE q = r
    <3>1. ASSUME NEW x \in DOMAIN m, r < x PROVE k <= x
      <4>1. x \in Nat /\ p < x
        BY <1>2, <3>1, HeapNumbers DEF HeapChain
      <4> QED
        BY <1>1, <4>1 DEF HeapChain
    <3>2. ~(r < r)
      BY <1>2
    <3> QED
      BY <1>1, <1>2, <1>4, <1>11, <2>2, <3>1, <3>2
  <2>3. CASE q # p /\ q # r
    <3>1. q \in DOMAIN m \ {End} /\ m1[q].next = m[q].next
      BY <1>4, <1>14, <2>3
    <3>2. q < r => m[q].next <= r
      <4>1. q \in Nat /\ m[q].next \in Nat /\ (q < p => m[q].next <= p) /\ (p < q => k <= q)
        BY <1>1, <3>1, HeapNumbers DEF HeapChain
      <4> QED
        BY <1>2, <2>3, <4>1
    <3> QED
      BY <1>4, <3>1, <3>2 DEF HeapChain
  <2> QED
    BY <2>1, <2>2, <2>3
<1>17. ASSUME NEW q \in DOMAIN m1 \ {End}
       PROVE  IF q = 0 THEN m1[q].prev = 0
              ELSE m1[q].prev \in DOMAIN m1 /\ m1[m1[q].prev].next = q
  <2>1. CASE q = r
    BY <1>1, <1>2, <1>4, <1>10, <1>11, <2>1
  <2>2. CASE q = k
    BY <1>2, <1>4, <1>11, <1>12, <2>2
  <2>3. CASE q # r /\ q # k
    <3>1. q \in DOMAIN m \ {End} /\ m1[q].prev = m[q].prev
      BY <1>4, <1>8, <1>10, <2>3
    <3>2. CASE q = 0
      BY <3>1, <3>2 DEF HeapChain
    <3>3. CASE q # 0
      <4> DEFINE o == m[q].prev
      <4>1. o \in DOMAIN m /\ m[o].next = q
        BY <3>1, <3>3 DEF HeapChain
      <4>2. o # p
        BY <2>3, <4>1
      <4>3. o \in DOMAIN m1 /\ m1[o].next = q
        BY <1>4, <1>14, <4>1, <4>2
      <4> QED
        BY <3>1, <3>3, <4>3
    <3> QED
      BY <3>2, <3>3
  <2> QED
    BY <2>1, <2>2, <2>3
<1>18. m1[End].used /\ m1[End].next = End
  BY <1>1, <1>14 DEF HeapChain
<1>19. HeapChain(m1)
  BY <1>13, <1>15, <1>16, <1>17, <1>18 DEF HeapChain
<1> QED
  BY <1>2, <1>3, <1>4, <1>10, <1>11, <1>14, <1>19 DEF m1, r, HeapCuts

\* The first half of plug_holes: the free block p absorbs a free one behind it.
LEMMA HeapPlugForward ==
    ASSUME NEW m, NEW low, HeapChain(m), HeapLowest(m, low), NEW p \in DOMAIN m \ {End},
           ~m[p].used, HeapMergedBut(m, p),
           ~m[m[p].next].used, m[p].next # End
    PROVE  LET m1 == Merge(m, p)
               l1 == IF low = m[p].next THEN p ELSE low
           IN  /\ HeapChain(m1) /\ HeapLowest(m1, l1) /\ p \in DOMAIN m1 \ {End} /\ ~m1[p].used
               /\ HeapMergedBut(m1, p) /\ m1[m1[p].next].used /\ HeapSameBlocks(m, m1)
<1> DEFINE n == m[p].next
           m1 == Merge(m, p)
           l1 == IF low = n THEN p ELSE low
<1>1. /\ HeapChain(m1) /\ n \in DOMAIN m \ {End} /\ DOMAIN m1 = DOMAIN m \ {n}
      /\ m1[p].next = m[n].next
      /\ \A q \in DOMAIN m1 : m1[q].used = m[q].used /\ (q # p => m1[q].next = m[q].next)
  <2>1. HeapAbsorbs(m, p, n, m1)
    BY HeapMergeKeeps
  <2> QED
    BY <2>1 DEF HeapAbsorbs
<1> HIDE DEF m1
<1>2. /\ p \in Nat /\ n \in Nat /\ p < n /\ n < m[n].next /\ m[n].next \in DOMAIN m
      /\ m[n].next \in Nat
  BY <1>1, HeapNextDiffers, HeapNumbers DEF HeapChain
<1>3. p \in DOMAIN m1 \ {End} /\ ~m1[p].used
  BY <1>1, <1>2
<1>4. m1[m1[p].next].used
  <2>1. n # p /\ m[n].next # p /\ m[n].next # n
    BY <1>2
  <2>2. m[m[n].next].used
    BY <1>1, <2>1 DEF HeapMergedBut
  <2> QED
    BY <1>1, <1>2, <2>1, <2>2
<1>5. HeapLowest(m1, l1)
  <2>1. low # n => low \in DOMAIN m1 /\ (low # End => ~m1[low].used)
    BY <1>1 DEF HeapLowest
  <2>2. low = n => FALSE
    BY <1>2 DEF HeapLowest
  <2>3. \A q \in DOMAIN m1 : ~m1[q].used => low <= q
    BY <1>1 DEF HeapLowest
  <2> QED
    BY <2>1, <2>2, <2>3 DEF HeapLowest
<1>6. HeapMergedBut(m1, p)
  <2> SUFFICES ASSUME NEW q \in DOMAIN m1 \ {End}, q # p, m1[q].next # p
               PROVE  m1[q].used \/ m1[m1[q].next].used
    BY DEF HeapMergedBut
  <2>1. q \in DOMAIN m \ {End} /\ m1[q].next = m[q].next /\ m1[q].used = m[q].used
    BY <1>1
  <2>2. m[q].next # n
    BY <2>1, HeapNextDiffers
  <2>3. m[q].next \in DOMAIN m1
    BY <1>1, <2>1, <2>2 DEF HeapChain
  <2> QED
    BY <1>1, <2>1, <2>3 DEF HeapMergedBut
<1>7. HeapSameBlocks(m, m1)
  BY <1>1, <1>3 DEF HeapSameBlocks
<1> QED
  BY <1>1, <1>3, <1>4, <1>5, <1>6, <1>7 DEF m1

\* The second half: a free block before p absorbs it.
LEMMA HeapPlugBackward ==
    ASSUME NEW m, NEW low, HeapChain(m), HeapLowest(m, low), NEW p \in DOMAIN m \ {End},
           ~m[p].used, HeapMergedBut(m, p), m[m[p].next].used
    PROVE  LET q == m[p].prev
               m1 == Merge(m, q)
               l1 == IF low = p THEN q ELSE low
           IN  IF q # p /\ ~m[q].used
               THEN HeapChain(m1) /\ HeapLowest(m1, l1) /\ HeapMerged(m1) /\ HeapSameBlocks(m, m1)
               ELSE HeapMerged(m)
<1> DEFINE q == m[p].prev
           m1 == Merge(m, q)
           l1 == IF low = p THEN q ELSE low
<1>1. p \in Nat /\ q \in DOMAIN m /\ (q # p => m[q].next = p /\ q # End)
  BY HeapNumbers DEF HeapChain
<1>2. ASSUME q # p, ~m[q].used
      PROVE  HeapChain(m1) /\ HeapLowest(m1, l1) /\ HeapMerged(m1) /\ HeapSameBlocks(m, m1)
  <2>1. /\ HeapChain(m1) /\ DOMAIN m1 = DOMAIN m \ {p}
        /\ m1[q].next = m[p].next
        /\ \A x \in DOMAIN m1 : m1[x].used = m[x].used /\ (x # q => m1[x].next = m[x].next)
    <3>1. HeapAbsorbs(m, q, p, m1)
      BY <1>1, <1>2, HeapMergeKeeps
    <3> QED
      BY <3>1 DEF HeapAbsorbs
  <2> HIDE DEF m1
  <2>2. q \in Nat /\ q < p
    <3>1. q \in Nat /\ q < m[q].next
      BY <1>1, <1>2, HeapNextDiffers, HeapNumbers DEF HeapChain
    <3> QED
      BY <1>1, <1>2, <3>1
  <2>3. HeapLowest(m1, l1)
    <3>1. low # p
      BY <1>1, <1>2, <2>2 DEF HeapLowest
    <3>2. low \in DOMAIN m1 /\ (low # End => ~m1[low].used)
      BY <2>1, <3>1 DEF HeapLowest
    <3>3. \A x \in DOMAIN m1 : ~m1[x].used => low <= x
      BY <2>1 DEF HeapLowest
    <3> QED
      BY <3>1, <3>2, <3>3 DEF HeapLowest
  <2>4. ASSUME NEW x \in DOMAIN m1 \ {End} PROVE m1[x].used \/ m1[m1[x].next].used
    <3>1. CASE x = q
      <4>1. m[p].next \in DOMAIN m1
        <5>1. p < m[p].next /\ m[p].next \in DOMAIN m
          BY HeapNextDiffers DEF HeapChain
        <5> QED
          BY <1>1, <2>1, <5>1
      <4> QED
        BY <2>1, <3>1, <4>1
    <3>2. CASE x # q
      <4>1. x \in DOMAIN m \ {End} /\ x # p /\ m1[x].next = m[x].next /\ m1[x].used = m[x].used
        BY <2>1, <3>2
      <4>2. m[x].next # p
        BY <3>2, <4>1, HeapNextDiffers
      <4>3. m[x].next \in DOMAIN m1
        BY <2>1, <4>1, <4>2 DEF HeapChain
      <4> QED
        BY <2>1, <4>1, <4>2, <4>3 DEF HeapMergedBut
    <3> QED
      BY <3>1, <3>2
  <2>5. HeapSameBlocks(m, m1)
    BY <1>2, <2>1 DEF HeapSameBlocks
  <2> QED
    BY <2>1, <2>3, <2>4, <2>5 DEF HeapMerged
<1>3. ASSUME ~(q # p /\ ~m[q].used) PROVE HeapMerged(m)
  <2> SUFFICES ASSUME NEW x \in DOMAIN m \ {End} PROVE m[x].used \/ m[m[x].next].used
    BY DEF HeapMerged
  <2>1. CASE x = p
    BY <2>1
  <2>2. CASE x # p /\ m[x].next = p
    <3>1. x = q
      BY <2>2, HeapNextDiffers
    <3> QED
      BY <1>3, <2>2, <3>1
  <2>3. CASE x # p /\ m[x].next # p
    BY <2>3 DEF HeapMergedBut
  <2> QED
    BY <2>1, <2>2, <2>3
<1> QED
  BY <1>2, <1>3

\* plug_holes: what is free is merged with what is free around it, lfree stays the lowest
\* free block, and no used block changes.
HeapPlugged(m, plugged) ==
    /\ HeapChain(plugged.mem) /\ HeapLowest(plugged.mem, plugged.lfree)
    /\ HeapMerged(plugged.mem) /\ HeapSameBlocks(m, plugged.mem)

LEMMA HeapPlugKeeps ==
    ASSUME NEW m, NEW low, HeapChain(m), HeapLowest(m, low), NEW p \in DOMAIN m \ {End},
           ~m[p].used, HeapMergedBut(m, p)
    PROVE  HeapPlugged(m, PlugHoles(m, low, p))
<1> DEFINE n == m[p].next
           forward == ~m[n].used /\ n # End
           m1 == IF forward THEN Merge(m, p) ELSE m
           l1 == IF forward /\ low = n THEN p ELSE low
           q == m1[p].prev
           m2 == Merge(m1, q)
           l2 == IF l1 = p THEN q ELSE l1
<1>1. PlugHoles(m, low, p) = IF q # p /\ ~m1[q].used THEN [mem |-> m2, lfree |-> l2]
                                                     ELSE [mem |-> m1, lfree |-> l1]
  BY DEF PlugHoles
<1>2. /\ HeapChain(m1) /\ HeapLowest(m1, l1) /\ p \in DOMAIN m1 \ {End} /\ ~m1[p].used
      /\ HeapMergedBut(m1, p) /\ m1[m1[p].next].used /\ HeapSameBlocks(m, m1)
  <2>1. CASE forward
    BY <2>1, HeapPlugForward
  <2>2. CASE ~forward
    <3>1. m1 = m /\ l1 = low
      BY <2>2
    <3>2. m[n].used
      BY <2>2 DEF HeapChain
    <3> HIDE DEF m1, l1
    <3> QED
      BY <3>1, <3>2 DEF HeapSameBlocks
  <2> QED
    BY <2>1, <2>2
<1> HIDE DEF m1, l1
<1>3. IF q # p /\ ~m1[q].used
      THEN HeapChain(m2) /\ HeapLowest(m2, l2) /\ HeapMerged(m2) /\ HeapSameBlocks(m1, m2)
      ELSE HeapMerged(m1)
  BY <1>2, HeapPlugBackward
<1>4. CASE q # p /\ ~m1[q].used
  <2>1. HeapSameBlocks(m, m2)
    BY <1>2, <1>3, <1>4 DEF HeapSameBlocks
  <2> QED
    BY <1>1, <1>3, <1>4, <2>1 DEF HeapPlugged
<1>5. CASE ~(q # p /\ ~m1[q].used)
  BY <1>1, <1>2, <1>3, <1>5 DEF HeapPlugged
<1> QED
  BY <1>4, <1>5

\* The blocks, and that each user has what it asked for.
HeapBlocks ==
    /\ HeapChain(mem) /\ HeapLowest(mem, lfree) /\ HeapMerged(mem)
    /\ LiveIntact /\ live \in [DOMAIN live -> Nat]

\* HeapIntact, from the chain.
LEMMA HeapBlocksIntact == ASSUME HeapBlocks PROVE HeapIntact
<1>1. \A q \in DOMAIN mem : q \in Nat /\ q <= End
  BY HeapNumbers DEF HeapBlocks, HeapChain
<1>2. ASSUME NEW p \in DOMAIN mem \ {End} PROVE mem[p].next = Min({q \in DOMAIN mem : q > p})
  <2> DEFINE Above == {q \in DOMAIN mem : q > p}
  <2>1. p < mem[p].next /\ mem[p].next \in DOMAIN mem
    BY <1>2, HeapNextDiffers DEF HeapBlocks, HeapChain
  <2>2. Above \subseteq Nat /\ mem[p].next \in Above
    BY <1>1, <2>1
  <2>3. Min(Above) \in Above /\ \A q \in Above : Min(Above) <= q
    <3> HIDE DEF Above
    <3> QED
      BY <2>2, MinInSet
  <2>4. \A q \in Above : mem[p].next <= q
    BY <1>1 DEF HeapBlocks, HeapChain
  <2>5. Min(Above) <= mem[p].next /\ mem[p].next <= Min(Above)
    BY <2>2, <2>3, <2>4
  <2>6. Min(Above) \in Nat /\ mem[p].next \in Nat
    BY <2>2, <2>3
  <2> HIDE DEF Above
  <2>7. Min(Above) = mem[p].next
    BY <2>5, <2>6
  <2> QED
    BY <2>7 DEF Above
<1>3. BlocksTile
  BY <1>2 DEF HeapBlocks, HeapChain, BlocksTile
<1>4. lfree = Min({p \in DOMAIN mem : ~mem[p].used \/ p = End})
  <2> DEFINE Avail == {p \in DOMAIN mem : ~mem[p].used \/ p = End}
  <2>1. Avail \subseteq Nat /\ lfree \in Avail
    BY <1>1 DEF HeapBlocks, HeapLowest
  <2>2. Min(Avail) \in Avail /\ \A q \in Avail : Min(Avail) <= q
    <3> HIDE DEF Avail
    <3> QED
      BY <2>1, MinInSet
  <2>3. \A q \in Avail : lfree <= q
    BY <1>1 DEF HeapBlocks, HeapLowest
  <2>4. Min(Avail) <= lfree /\ lfree <= Min(Avail)
    BY <2>1, <2>2, <2>3
  <2>5. Min(Avail) \in Nat /\ lfree \in Nat
    BY <2>1, <2>2
  <2> HIDE DEF Avail
  <2>6. Min(Avail) = lfree
    BY <2>4, <2>5
  <2> QED
    BY <2>6 DEF Avail
<1>5. FreeBlocksKnown
  BY <1>4 DEF HeapBlocks, HeapMerged, FreeBlocksKnown
<1> QED
  BY <1>3, <1>5 DEF HeapBlocks, HeapIntact

\* rt_free under heap_sem.
LEMMA HeapReleaseKeeps ==
    ASSUME HeapBlocks, NEW p \in DOMAIN live, Release(p)
    PROVE  HeapBlocks' /\ DOMAIN live' = DOMAIN live \ {p}
<1> DEFINE m == [mem EXCEPT ![p].used = FALSE]
           low == IF p < lfree THEN p ELSE lfree
<1>1. PICK plugged : /\ plugged = PlugHoles(m, low, p)
                     /\ mem' = plugged.mem /\ lfree' = plugged.lfree
                     /\ live' = Restrict(live, DOMAIN live \ {p})
  BY DEF Release
<1>2. p \in DOMAIN mem \ {End} /\ mem[p].used
  BY DEF HeapBlocks, LiveIntact
<1>3. \A q \in DOMAIN mem : mem[q] \in [used : BOOLEAN, next : 0..End, prev : 0..End]
  BY DEF HeapBlocks, HeapChain
<1>4. /\ DOMAIN m = DOMAIN mem
      /\ m[p] = [mem[p] EXCEPT !.used = FALSE]
      /\ \A q \in DOMAIN mem : q # p => m[q] = mem[q]
  BY <1>2
<1>5. m[p] \in [used : BOOLEAN, next : 0..End, prev : 0..End]
      /\ ~m[p].used /\ m[p].next = mem[p].next /\ m[p].prev = mem[p].prev
  BY <1>2, <1>3, <1>4
<1>6. m \in [DOMAIN m -> [used : BOOLEAN, next : 0..End, prev : 0..End]]
  <2>1. m = [q \in DOMAIN m |-> m[q]]
    OBVIOUS
  <2> HIDE DEF m
  <2> QED
    BY <1>3, <1>4, <1>5, <2>1
<1> HIDE DEF m
<1>7. \A q \in DOMAIN mem : /\ m[q].next = mem[q].next /\ m[q].prev = mem[q].prev
                            /\ m[q].used <=> mem[q].used /\ q # p
  BY <1>4, <1>5
<1>8. HeapChain(m)
  BY <1>2, <1>4, <1>6, <1>7 DEF HeapBlocks, HeapChain
<1>9. HeapLowest(m, low)
  <2>1. lfree \in Nat /\ p \in Nat /\ lfree \in DOMAIN mem /\ \A q \in DOMAIN mem : q \in Nat
    BY <1>2, HeapNumbers DEF HeapBlocks, HeapLowest, HeapChain
  <2>2. \A q \in DOMAIN mem : ~mem[q].used => lfree <= q
    BY DEF HeapBlocks, HeapLowest
  <2>3. low \in DOMAIN mem /\ low \in Nat /\ low <= p /\ low <= lfree
    BY <1>2, <2>1
  <2>4. low = p \/ low = lfree
    OBVIOUS
  <2>5. low # End => ~m[low].used
    BY <1>2, <1>7, <2>3, <2>4 DEF HeapBlocks, HeapLowest
  <2> HIDE DEF low
  <2>6. \A q \in DOMAIN m : ~m[q].used => low <= q
    BY <1>4, <1>7, <2>1, <2>2, <2>3
  <2> QED
    BY <1>4, <2>3, <2>5, <2>6 DEF HeapLowest
<1>10. HeapMergedBut(m, p)
  <2>1. \A q \in DOMAIN mem \ {End} : mem[q].next \in DOMAIN mem
    BY DEF HeapBlocks, HeapChain
  <2> QED
    BY <1>4, <1>7, <2>1 DEF HeapBlocks, HeapMerged, HeapMergedBut
<1>11. HeapPlugged(m, plugged)
  BY <1>1, <1>2, <1>4, <1>5, <1>8, <1>9, <1>10, HeapPlugKeeps
<1>12. /\ HeapChain(mem)' /\ HeapLowest(mem, lfree)' /\ HeapMerged(mem)'
       /\ HeapSameBlocks(m, mem')
  BY <1>1, <1>11 DEF HeapPlugged, HeapChain, HeapLowest, HeapMerged
<1>13. DOMAIN mem \subseteq 0..End /\ DOMAIN mem' \subseteq 0..End
  BY <1>12 DEF HeapBlocks, HeapChain
<1>14. /\ DOMAIN live' = DOMAIN live \ {p}
       /\ \A q \in DOMAIN live' : live'[q] = live[q] /\ live[q] \in Nat
       /\ live' \in [DOMAIN live' -> Nat]
  BY <1>1 DEF HeapBlocks, Restrict
<1>15. LiveIntact'
  <2>1. \A q \in 0..End : q \in DOMAIN live' <=> q # End /\ q \in DOMAIN mem' /\ mem'[q].used
    <3>1. \A q \in 0..End : q \in DOMAIN m /\ m[q].used <=> q \in DOMAIN mem' /\ mem'[q].used
      BY <1>12 DEF HeapSameBlocks
    <3>2. \A q \in DOMAIN mem : q \in DOMAIN live' <=> q # End /\ m[q].used
      BY <1>7, <1>14 DEF HeapBlocks, LiveIntact
    <3>3. DOMAIN live' \subseteq DOMAIN mem
      BY <1>14 DEF HeapBlocks, LiveIntact
    <3> QED
      BY <1>4, <3>1, <3>2, <3>3
  <2>2. DOMAIN live' \subseteq 0..End
    BY <1>13, <1>14 DEF HeapBlocks, LiveIntact
  <2>3. DOMAIN live' = {q \in DOMAIN mem' \ {End} : mem'[q].used}
    BY <1>13, <2>1, <2>2
  <2>4. ASSUME NEW q \in DOMAIN live' PROVE live'[q] <= Data(mem', q)
    <3>1. q \in DOMAIN live /\ q # p /\ q \in DOMAIN mem /\ q \in 0..End
      BY <1>13, <1>14 DEF HeapBlocks, LiveIntact
    <3>2. live[q] <= Data(mem, q) /\ mem[q].used
      BY <3>1 DEF HeapBlocks, LiveIntact
    <3>3. mem'[q].next = mem[q].next
      BY <1>4, <1>7, <1>12, <3>1, <3>2 DEF HeapSameBlocks
    <3> QED
      BY <1>14, <3>2, <3>3 DEF Data
  <2> QED
    BY <2>3, <2>4 DEF LiveIntact, Data
<1> QED
  BY <1>12, <1>14, <1>15 DEF HeapBlocks

\* The loop of rt_malloc stops at a free block with room for size.
LEMMA HeapBestFits ==
    ASSUME HeapBlocks, NEW size \in Nat, Found(size)
    PROVE  LET p == Best(size)
           IN  /\ p \in DOMAIN mem \ {End} /\ ~mem[p].used /\ p \in 0..HeapSize
               /\ Smallest(size) \in Nat /\ size <= Smallest(size) /\ Smallest(size) <= Data(mem, p)
<1> DEFINE I == Fits(mem, lfree, Smallest(size))
<1>1. Smallest(size) \in Nat /\ size <= Smallest(size)
  BY HeapNumbers DEF Smallest
<1>2. I \subseteq Nat /\ I # {}
  BY HeapNumbers DEF Fits, Found, HeapBlocks, HeapChain
<1>3. Min(I) \in I
  <2> HIDE DEF I
  <2> QED
    BY <1>2, MinInSet
<1> DEFINE p == Min(I)
<1>4. p \in DOMAIN mem /\ ~mem[p].used /\ Data(mem, p) >= Smallest(size)
  BY <1>3 DEF Fits
<1> HIDE DEF p
<1>5. p # End
  BY <1>4 DEF HeapBlocks, HeapChain
<1>6. p \in 0..HeapSize
  <2>1. p \in Nat /\ p <= HeapSize
    BY <1>4, <1>5, HeapNextDiffers, HeapNumbers DEF HeapBlocks, HeapChain
  <2> QED
    BY <2>1, HeapNumbers
<1>7. Smallest(size) <= Data(mem, p)
  <2>1. Data(mem, p) \in Int
    BY <1>4, <1>5, HeapNumbers DEF Data, HeapBlocks, HeapChain
  <2> QED
    BY <1>1, <1>4, <2>1
<1> QED
  BY <1>1, <1>4, <1>5, <1>6, <1>7 DEF p, Best

\* The block p is used, and what is left of it is free if it can hold a block.
HeapUses(m, p, size, m1) ==
    /\ HeapChain(m1) /\ HeapMerged(m1) /\ p \in DOMAIN m1 /\ m1[p].used /\ size <= Data(m1, p)
    /\ DOMAIN m \subseteq DOMAIN m1
    /\ \A q \in DOMAIN m1 : q \notin DOMAIN m => ~m1[q].used /\ p < q
    /\ \A q \in DOMAIN m : q # p => m1[q].used = m[q].used /\ m1[q].next = m[q].next

LEMMA HeapUseKeeps ==
    ASSUME NEW m, HeapChain(m), HeapMerged(m), NEW p \in DOMAIN m \ {End}, ~m[p].used,
           NEW size \in Nat, size <= Data(m, p)
    PROVE  HeapUses(m, p, size, Use(m, p, size))
<1> DEFINE r == p + Hdr + size
           cut == Data(m, p) >= size + Hdr + MinSize
           m1 == IF cut THEN Split(m, p, size) ELSE m
           m2 == [m1 EXCEPT ![p].used = TRUE]
<1>1. p \in Nat /\ m[p].next \in Nat /\ m[p].next \in DOMAIN m /\ p < m[p].next
  BY HeapNextDiffers, HeapNumbers DEF HeapChain
<1>2. m[m[p].next].used
  BY DEF HeapMerged
<1>3. /\ HeapChain(m1) /\ p \in DOMAIN m1 /\ ~m1[p].used /\ size <= Data(m1, p)
      /\ DOMAIN m \subseteq DOMAIN m1
      /\ \A q \in DOMAIN m : q # p => m1[q].used = m[q].used /\ m1[q].next = m[q].next
      /\ \A q \in DOMAIN m1 : q \notin DOMAIN m =>
            ~m1[q].used /\ p < q /\ m1[q].next \in DOMAIN m \ {p} /\ m1[m1[q].next].used
  <2>1. CASE cut
    <3>1. p + Hdr + size + Hdr <= m[p].next
      BY <1>1, <2>1, HeapNumbers DEF Data
    <3>2. HeapCuts(m, p, r, m1)
      BY <2>1, <3>1, HeapSplitKeeps
    <3>3. size <= Data(m1, p)
      <4>1. m1[p].next = r
        BY <3>2 DEF HeapCuts
      <4>2. Data(m1, p) = r - (p + Hdr)
        BY ONLY <4>1 DEF Data
      <4> HIDE DEF m1
      <4> QED
        BY <1>1, <4>2, HeapNumbers
    <3> HIDE DEF m1, r
    <3> QED
      BY <1>1, <1>2, <3>2, <3>3 DEF HeapCuts
  <2>2. CASE ~cut
    BY <2>2
  <2> QED
    BY <2>1, <2>2
<1> HIDE DEF m1, cut
<1>4. \A q \in DOMAIN m1 : m1[q] \in [used : BOOLEAN, next : 0..End, prev : 0..End]
  BY <1>3 DEF HeapChain
<1>5. /\ DOMAIN m2 = DOMAIN m1
      /\ m2[p] = [m1[p] EXCEPT !.used = TRUE]
      /\ \A q \in DOMAIN m1 : q # p => m2[q] = m1[q]
  BY <1>3
<1> HIDE DEF m2
<1>6. m2[p] \in [used : BOOLEAN, next : 0..End, prev : 0..End]
      /\ m2[p].used /\ m2[p].next = m1[p].next /\ m2[p].prev = m1[p].prev
  <2>1. PICK h \in [used : BOOLEAN, next : 0..End, prev : 0..End] : h = m1[p]
    BY <1>3, <1>4
  <2>2. m2[p] = [h EXCEPT !.used = TRUE]
    BY <1>5, <2>1
  <2> QED
    BY <2>1, <2>2
<1>7. m2 \in [DOMAIN m2 -> [used : BOOLEAN, next : 0..End, prev : 0..End]]
  <2>1. m2 = [q \in DOMAIN m2 |-> m2[q]]
    BY DEF m2
  <2> QED
    BY <1>4, <1>5, <1>6, <2>1
<1>8. \A q \in DOMAIN m1 : /\ m2[q].next = m1[q].next /\ m2[q].prev = m1[q].prev
                           /\ m2[q].used <=> m1[q].used \/ q = p
  BY <1>5, <1>6
<1>9. HeapChain(m2)
  BY <1>3, <1>5, <1>7, <1>8 DEF HeapChain
<1>10. HeapMerged(m2)
  <2> SUFFICES ASSUME NEW q \in DOMAIN m2 \ {End} PROVE m2[q].used \/ m2[m2[q].next].used
    BY DEF HeapMerged
  <2>1. q \in DOMAIN m1 /\ m1[q].next \in DOMAIN m1
    BY <1>3, <1>5 DEF HeapChain
  <2>2. CASE q = p
    BY <1>6, <2>2
  <2>3. CASE q # p /\ q \in DOMAIN m
    <3>1. m[q].used \/ m[m[q].next].used
      BY <2>3 DEF HeapMerged
    <3>2. m[q].next \in DOMAIN m /\ m1[q].next = m[q].next /\ m1[q].used = m[q].used
      BY <1>3, <2>3 DEF HeapChain
    <3>3. m[q].next # p => m1[m[q].next].used = m[m[q].next].used
      BY <1>3, <3>2
    <3> QED
      BY <1>8, <2>1, <3>1, <3>2, <3>3
  <2>4. CASE q \notin DOMAIN m
    BY <1>3, <1>8, <2>1, <2>4
  <2> QED
    BY <2>2, <2>3, <2>4
<1>11. Data(m2, p) = Data(m1, p)
  BY <1>6 DEF Data
<1>12. HeapUses(m, p, size, m2)
  BY <1>3, <1>5, <1>6, <1>8, <1>9, <1>10, <1>11 DEF HeapUses
<1> QED
  BY <1>12 DEF m1, m2, cut, Use

\* lfree moves on to the lowest free block.
LEMMA HeapNextFree ==
    ASSUME NEW m, NEW m1, NEW p \in DOMAIN m \ {End}, NEW size, NEW low,
           HeapChain(m), HeapLowest(m, low), ~m[p].used, HeapUses(m, p, size, m1)
    PROVE  HeapLowest(m1, NextFree(m1, low, p))
<1>1. /\ End \in DOMAIN m1 /\ \A q \in DOMAIN m1 : q \in Nat /\ q <= End
      /\ p \in DOMAIN m1 /\ m1[p].used
  BY HeapNumbers DEF HeapUses, HeapChain
<1>2. low \in DOMAIN m1 /\ low \in Nat /\ low <= p
  BY <1>1 DEF HeapUses, HeapLowest
<1>3. ASSUME NEW q \in DOMAIN m1, ~m1[q].used PROVE low <= q
  <2>1. CASE q \in DOMAIN m
    BY <1>1, <1>3, <2>1 DEF HeapUses, HeapLowest
  <2>2. CASE q \notin DOMAIN m
    <3>1. p < q /\ p \in Nat /\ q \in Nat
      BY <1>1, <2>2 DEF HeapUses
    <3> QED
      BY <1>2, <3>1
  <2> QED
    BY <2>1, <2>2
<1>4. CASE p # low
  <2>1. low # End => ~m1[low].used
    BY <1>4 DEF HeapUses, HeapLowest
  <2> QED
    BY <1>2, <1>3, <1>4, <2>1 DEF NextFree, HeapLowest
<1>5. CASE p = low
  <2> DEFINE I == {q \in DOMAIN m1 : q >= low /\ (~m1[q].used \/ q = End)}
  <2>1. I \subseteq Nat /\ End \in I
    BY <1>1, <1>2
  <2>2. Min(I) \in I /\ \A q \in I : Min(I) <= q
    <3> HIDE DEF I
    <3> QED
      BY <2>1, MinInSet
  <2>3. \A q \in DOMAIN m1 : ~m1[q].used => q \in I
    BY <1>1, <1>2, <1>3
  <2>4. Min(I) \in DOMAIN m1 /\ (Min(I) # End => ~m1[Min(I)].used)
    BY <2>2
  <2>5. NextFree(m1, low, p) = Min(I)
    BY <1>5 DEF NextFree
  <2> HIDE DEF I
  <2> QED
    BY <2>2, <2>3, <2>4, <2>5 DEF HeapLowest
<1> QED
  BY <1>4, <1>5

\* rt_malloc under heap_sem.
LEMMA HeapAllocateKeeps ==
    ASSUME HeapBlocks, NEW size \in Nat, Found(size), Allocate(size)
    PROVE  /\ HeapBlocks' /\ DOMAIN live' = DOMAIN live \cup {Best(size)}
           /\ Best(size) \in 0..HeapSize \ DOMAIN live
<1> DEFINE wanted == Smallest(size)
<1>1. PICK p : p = Best(size)
  OBVIOUS
<1>2. /\ p \in DOMAIN mem \ {End} /\ ~mem[p].used /\ p \in 0..HeapSize
      /\ wanted \in Nat /\ size <= wanted /\ wanted <= Data(mem, p)
  BY <1>1, HeapBestFits
<1>3. p \notin DOMAIN live
  BY <1>2 DEF HeapBlocks, LiveIntact
<1> HIDE DEF wanted
<1>4. /\ mem' = Use(mem, p, wanted) /\ lfree' = NextFree(mem', lfree, p)
      /\ live' = [q \in DOMAIN live \cup {p} |-> IF q = p THEN size ELSE live[q]]
  BY <1>1 DEF Allocate, wanted
<1>5. HeapUses(mem, p, wanted, mem')
  BY <1>2, <1>4, HeapUseKeeps DEF HeapBlocks
<1>6. HeapLowest(mem', lfree')
  BY <1>2, <1>4, <1>5, HeapNextFree DEF HeapBlocks
<1>7. /\ HeapChain(mem)' /\ HeapLowest(mem, lfree)' /\ HeapMerged(mem)'
  BY <1>5, <1>6 DEF HeapUses, HeapChain, HeapLowest, HeapMerged
<1>8. /\ DOMAIN live' = DOMAIN live \cup {p} /\ live'[p] = size
      /\ \A q \in DOMAIN live : q # p => live'[q] = live[q]
      /\ live' \in [DOMAIN live' -> Nat]
  BY <1>4 DEF HeapBlocks
<1>9. DOMAIN live' = {q \in DOMAIN mem' \ {End} : mem'[q].used}
  <2>1. DOMAIN live = {q \in DOMAIN mem \ {End} : mem[q].used}
    BY DEF HeapBlocks, LiveIntact
  <2>2. /\ p \in DOMAIN mem' /\ mem'[p].used /\ DOMAIN mem \subseteq DOMAIN mem'
        /\ \A q \in DOMAIN mem' : q \notin DOMAIN mem => ~mem'[q].used
        /\ \A q \in DOMAIN mem : q # p => mem'[q].used = mem[q].used
    BY <1>5 DEF HeapUses
  <2> QED
    BY <1>2, <1>8, <2>1, <2>2
<1>10. ASSUME NEW q \in DOMAIN live' PROVE live'[q] <= mem'[q].next - (q + Hdr)
  <2>1. CASE q = p
    <3>1. wanted <= mem'[p].next - (p + Hdr) /\ p \in DOMAIN mem' /\ p # End
      BY <1>2, <1>5 DEF HeapUses, Data
    <3>2. mem'[p].next \in Nat /\ p \in Nat
      BY <1>7, <3>1, HeapNumbers DEF HeapChain
    <3> QED
      BY <1>2, <1>8, <2>1, <3>1, <3>2, HeapNumbers
  <2>2. CASE q # p
    <3>1. q \in DOMAIN live /\ q \in DOMAIN mem
      BY <1>8, <2>2 DEF HeapBlocks, LiveIntact
    <3>2. live[q] <= mem[q].next - (q + Hdr)
      BY <3>1 DEF HeapBlocks, LiveIntact, Data
    <3>3. mem'[q].next = mem[q].next
      BY <1>5, <2>2, <3>1 DEF HeapUses
    <3> QED
      BY <1>8, <2>2, <3>1, <3>2, <3>3
  <2> QED
    BY <2>1, <2>2
<1>11. LiveIntact'
  BY <1>9, <1>10 DEF LiveIntact, Data
<1> QED
  BY <1>1, <1>2, <1>3, <1>7, <1>8, <1>11 DEF HeapBlocks

\* rt_realloc of a block that becomes shorter where it is.
LEMMA HeapShrinkKeeps ==
    ASSUME HeapBlocks, NEW u, NEW p \in DOMAIN live, NEW size \in Nat, Shrink(u, p, size)
    PROVE  HeapBlocks' /\ DOMAIN live' = DOMAIN live
<1> DEFINE m == Split(mem, p, size)
<1>1. PICK r : r = p + Hdr + size
  OBVIOUS
<1> DEFINE low == IF r < lfree THEN r ELSE lfree
<1>2. PICK plugged : /\ plugged = PlugHoles(m, low, r)
                     /\ mem' = plugged.mem /\ lfree' = plugged.lfree
                     /\ live' = [live EXCEPT ![p] = size]
  BY <1>1 DEF Shrink
<1>3. p \in DOMAIN mem \ {End} /\ mem[p].used
  BY DEF HeapBlocks, LiveIntact
<1>4. HeapCuts(mem, p, r, m)
  <2>1. p + Hdr + size + Hdr <= mem[p].next
    <3>1. size + Hdr + MinSize < mem[p].next - (p + Hdr)
      BY DEF Shrink, Data
    <3>2. p \in Nat /\ mem[p].next \in Nat
      BY <1>3, HeapNumbers DEF HeapBlocks, HeapChain
    <3> QED
      BY <3>1, <3>2, HeapNumbers
  <2> QED
    BY <1>1, <1>3, <2>1, HeapSplitKeeps DEF HeapBlocks
<1> HIDE DEF m
<1>5. /\ HeapChain(m) /\ r \in DOMAIN m \ {End} /\ ~m[r].used /\ r \notin DOMAIN mem
      /\ DOMAIN m = DOMAIN mem \cup {r} /\ m[p].next = r /\ m[r].next = mem[p].next
      /\ \A q \in DOMAIN mem : m[q].used = mem[q].used /\ (q # p => m[q].next = mem[q].next)
  BY <1>4 DEF HeapCuts
<1>6. HeapLowest(m, low)
  <2>1. lfree \in DOMAIN mem /\ \A q \in DOMAIN m : q \in Nat
    BY <1>5, HeapNumbers DEF HeapBlocks, HeapLowest, HeapChain
  <2>2. \A q \in DOMAIN mem : ~mem[q].used => lfree <= q
    BY DEF HeapBlocks, HeapLowest
  <2>3. low \in DOMAIN m /\ low \in Nat /\ low <= r /\ low <= lfree
    BY <1>5, <2>1
  <2>4. low # End => ~m[low].used
    BY <1>5 DEF HeapBlocks, HeapLowest
  <2> HIDE DEF low
  <2>5. ASSUME NEW q \in DOMAIN m, ~m[q].used PROVE low <= q
    BY <1>5, <2>1, <2>2, <2>3, <2>5
  <2> QED
    BY <2>3, <2>4, <2>5 DEF HeapLowest
<1>7. HeapMergedBut(m, r)
  <2> SUFFICES ASSUME NEW q \in DOMAIN m \ {End}, q # r, m[q].next # r
               PROVE  m[q].used \/ m[m[q].next].used
    BY DEF HeapMergedBut
  <2>1. q \in DOMAIN mem \ {End} /\ q # p
    BY <1>5
  <2>2. mem[q].next \in DOMAIN mem /\ (mem[q].used \/ mem[mem[q].next].used)
    BY <2>1 DEF HeapBlocks, HeapChain, HeapMerged
  <2> QED
    BY <1>5, <2>1, <2>2
<1>8. HeapPlugged(m, plugged)
  BY <1>2, <1>5, <1>6, <1>7, HeapPlugKeeps
<1>9. /\ HeapChain(mem)' /\ HeapLowest(mem, lfree)' /\ HeapMerged(mem)'
      /\ HeapSameBlocks(m, mem')
  BY <1>2, <1>8 DEF HeapPlugged, HeapChain, HeapLowest, HeapMerged
<1>10. DOMAIN m \subseteq 0..End /\ DOMAIN mem' \subseteq 0..End
  BY <1>5, <1>9 DEF HeapChain
<1>11. /\ DOMAIN live' = DOMAIN live /\ live'[p] = size
       /\ \A q \in DOMAIN live : q # p => live'[q] = live[q]
       /\ live' \in [DOMAIN live' -> Nat]
  BY <1>2 DEF HeapBlocks
<1>12. DOMAIN live = {q \in DOMAIN mem \ {End} : mem[q].used}
  BY DEF HeapBlocks, LiveIntact
<1>13. \A q \in 0..End : q \in DOMAIN m /\ m[q].used <=> q \in DOMAIN mem' /\ mem'[q].used
  BY <1>9 DEF HeapSameBlocks
<1>14. DOMAIN live' = {q \in DOMAIN mem' \ {End} : mem'[q].used}
  <2>1. \A q \in 0..End : q \in DOMAIN live <=> q # End /\ q \in DOMAIN m /\ m[q].used
    BY <1>5, <1>12
  <2>2. DOMAIN live \subseteq 0..End
    BY <1>5, <1>10, <1>12
  <2> QED
    BY <1>10, <1>11, <1>13, <2>1, <2>2
<1>15. ASSUME NEW q \in DOMAIN live' PROVE live'[q] <= mem'[q].next - (q + Hdr)
  <2>1. q \in DOMAIN mem /\ q \in 0..End /\ q \in DOMAIN m /\ m[q].used
    BY <1>5, <1>10, <1>11, <1>12
  <2>2. mem'[q].next = m[q].next
    BY <1>9, <2>1 DEF HeapSameBlocks
  <2>3. CASE q = p
    <3>1. p \in Nat /\ mem'[p].next = p + Hdr + size
      BY <1>1, <1>5, <2>1, <2>2, <2>3, HeapNumbers
    <3> QED
      BY <1>11, <2>3, <3>1, HeapNumbers
  <2>4. CASE q # p
    <3>1. live[q] <= mem[q].next - (q + Hdr)
      BY <1>11 DEF HeapBlocks, LiveIntact, Data
    <3> QED
      BY <1>5, <1>11, <2>1, <2>2, <2>4, <3>1
  <2> QED
    BY <2>3, <2>4
<1>16. LiveIntact'
  BY <1>14, <1>15 DEF LiveIntact, Data
<1> QED
  BY <1>9, <1>11, <1>16 DEF HeapBlocks

\* A block that a thread moves is its own, and it is not the new block of another.
HeapMoves ==
    /\ moving \in [HeapUsers -> [old : 0..HeapSize \cup {Null}, new : 0..HeapSize \cup {Null},
                                 size : Nat]]
    /\ \A u \in HeapUsers :
          /\ moving[u].old = Null => moving[u].new = Null
          /\ moving[u].old # Null => moving[u].old \in DOMAIN live
          /\ moving[u].new # Null => moving[u].new \in DOMAIN live
    /\ \A u, v \in HeapUsers :
          u # v /\ moving[u].old # Null =>
             moving[v].old # moving[u].old /\ moving[v].new # moving[u].old

HeapInv == HeapBlocks /\ HeapMoves

LEMMA HeapInitial == HeapInit => HeapInv
<1> SUFFICES ASSUME HeapInit PROVE HeapInv
  OBVIOUS
<1>1. 0 # End /\ 0 \in 0..End /\ End \in 0..End /\ 0 + Hdr <= End
  BY HeapNumbers
<1>2. /\ DOMAIN mem = {0, End}
      /\ mem[0] = [used |-> FALSE, next |-> End, prev |-> 0]
      /\ mem[End] = [used |-> TRUE, next |-> End, prev |-> End]
      /\ mem = [p \in {0, End} |-> mem[p]]
  BY <1>1 DEF HeapInit
<1>3. mem \in [DOMAIN mem -> [used : BOOLEAN, next : 0..End, prev : 0..End]]
  <2>1. /\ mem[0] \in [used : BOOLEAN, next : 0..End, prev : 0..End]
        /\ mem[End] \in [used : BOOLEAN, next : 0..End, prev : 0..End]
    BY <1>1, <1>2
  <2>2. \A q \in DOMAIN mem : mem[q] \in [used : BOOLEAN, next : 0..End, prev : 0..End]
    BY <1>2, <2>1
  <2>3. mem = [q \in DOMAIN mem |-> mem[q]]
    BY <1>2
  <2> QED
    BY <2>2, <2>3
<1>4. HeapChain(mem)
  <2>1. \A q \in DOMAIN mem : 0 < q => End <= q
    BY <1>2, HeapNumbers
  <2> QED
    BY <1>1, <1>2, <1>3, <2>1 DEF HeapChain
<1>5. HeapLowest(mem, lfree) /\ HeapMerged(mem)
  BY <1>1, <1>2 DEF HeapLowest, HeapMerged, HeapInit
<1>6. LiveIntact /\ live \in [DOMAIN live -> Nat]
  BY <1>2 DEF HeapInit, LiveIntact
<1>7. HeapMoves
  BY DEF HeapInit, HeapMoves, NotMoving
<1> QED
  BY <1>4, <1>5, <1>6, <1>7 DEF HeapInv, HeapBlocks

\* Every step of a user, and every step of a move, keeps the blocks and the moves.
LEMMA HeapNextKeeps == HeapInv /\ [HeapNext]_heapVars => HeapInv'
<1> SUFFICES ASSUME HeapInv, [HeapNext]_heapVars PROVE HeapInv'
  OBVIOUS
<1> USE DEF HeapInv
<1>1. \A p \in DOMAIN live : p \in 0..HeapSize /\ p # Null
  <2>1. \A p \in DOMAIN live : p \in DOMAIN mem \ {End}
    BY DEF HeapBlocks, LiveIntact
  <2>2. \A p \in DOMAIN mem \ {End} : p \in Nat /\ p <= HeapSize
    BY HeapNextDiffers, HeapNumbers DEF HeapBlocks, HeapChain
  <2> QED
    BY <2>1, <2>2, HeapNumbers
<1>2. Null \notin DOMAIN live /\ Sizes \subseteq Nat
  BY <1>1, HeapAssumption
<1>3. ASSUME NEW p \in Settled, NEW u \in HeapUsers
      PROVE  p \in DOMAIN live /\ moving[u].old # p /\ moving[u].new # p
  BY <1>3 DEF Settled
<1>4. CASE UNCHANGED heapVars
  BY <1>4 DEF heapVars, HeapBlocks, HeapMoves, LiveIntact, HeapChain, HeapLowest, HeapMerged,
              Data
<1>5. ASSUME NEW u \in HeapUsers, NEW size \in Sizes, Malloc(u, size) PROVE HeapInv'
  <2>1. HeapBlocks' /\ DOMAIN live' = DOMAIN live \cup {Best(size)}
    BY <1>2, <1>5, HeapAllocateKeeps DEF Malloc
  <2>2. HeapMoves'
    BY <1>5, <2>1 DEF Malloc, HeapMoves
  <2> QED
    BY <2>1, <2>2
<1>6. ASSUME NEW u \in HeapUsers, NEW p \in DOMAIN live, Free(u, p) PROVE HeapInv'
  <2>1. HeapBlocks' /\ DOMAIN live' = DOMAIN live \ {p}
    BY <1>6, HeapReleaseKeeps DEF Free
  <2>2. HeapMoves'
    BY <1>3, <1>6, <2>1 DEF Free, HeapMoves
  <2> QED
    BY <2>1, <2>2
<1>7. ASSUME NEW u \in HeapUsers, NEW p \in DOMAIN live, NEW size \in Sizes, Shrink(u, p, size)
      PROVE  HeapInv'
  <2>1. HeapBlocks' /\ DOMAIN live' = DOMAIN live
    BY <1>2, <1>7, HeapShrinkKeeps
  <2>2. HeapMoves'
    BY <1>7, <2>1 DEF Shrink, HeapMoves
  <2> QED
    BY <2>1, <2>2
<1>8. ASSUME NEW u \in HeapUsers, NEW p \in DOMAIN live, NEW size \in Sizes, KeepSize(u, p, size)
      PROVE  HeapInv'
  <2>1. /\ UNCHANGED <<mem, lfree, moving>> /\ live' = [live EXCEPT ![p] = size]
        /\ size = Data(mem, p)
    BY <1>8 DEF KeepSize
  <2>2. DOMAIN live' = DOMAIN live /\ live' \in [DOMAIN live -> Nat]
    BY <1>2, <2>1 DEF HeapBlocks
  <2>3. \A q \in DOMAIN live : live'[q] <= Data(mem, q)
    <3>1. size <= size
      BY <1>2
    <3> QED
      BY <2>1, <3>1 DEF HeapBlocks, LiveIntact
  <2>4. LiveIntact'
    BY <2>1, <2>2, <2>3 DEF HeapBlocks, LiveIntact, Data
  <2>5. HeapBlocks'
    BY <2>1, <2>2, <2>4 DEF HeapBlocks, HeapChain, HeapLowest, HeapMerged
  <2>6. HeapMoves'
    BY <2>1, <2>2 DEF HeapMoves
  <2> QED
    BY <2>5, <2>6
<1>9. ASSUME NEW u \in HeapUsers, NEW p \in DOMAIN live, NEW size \in Sizes, MoveBegin(u, p, size)
      PROVE  HeapInv'
  <2>1. /\ UNCHANGED <<mem, lfree, live>> /\ p \in Settled
        /\ moving' = [moving EXCEPT ![u] = [old |-> p, new |-> Null, size |-> size]]
    BY <1>9 DEF MoveBegin
  <2>2. HeapBlocks'
    BY <2>1 DEF HeapBlocks, LiveIntact, HeapChain, HeapLowest, HeapMerged, Data
  <2>3. HeapMoves'
    BY <1>1, <1>2, <1>3, <2>1 DEF HeapMoves
  <2> QED
    BY <2>2, <2>3
<1>10. ASSUME NEW u \in HeapUsers, MoveMalloc(u) PROVE HeapInv'
  <2>1. moving[u].old # Null /\ moving[u].new = Null /\ moving[u].size \in Nat
    BY <1>10 DEF MoveMalloc, HeapMoves
  <2>2. CASE Found(moving[u].size)
    <3> DEFINE p == Best(moving[u].size)
    <3>1. Allocate(moving[u].size) /\ moving' = [moving EXCEPT ![u].new = p]
      BY <1>10, <2>2 DEF MoveMalloc
    <3>2. HeapBlocks' /\ DOMAIN live' = DOMAIN live \cup {p} /\ p \in 0..HeapSize \ DOMAIN live
      BY <2>1, <2>2, <3>1, HeapAllocateKeeps
    <3> HIDE DEF p
    <3>3. HeapMoves'
      BY <1>2, <2>1, <3>1, <3>2 DEF HeapMoves
    <3> QED
      BY <3>2, <3>3
  <2>3. CASE ~Found(moving[u].size)
    <3>1. UNCHANGED <<mem, lfree, live>> /\ moving' = [moving EXCEPT ![u] = NotMoving]
      BY <1>10, <2>3 DEF MoveMalloc
    <3>2. HeapBlocks'
      BY <3>1 DEF HeapBlocks, LiveIntact, HeapChain, HeapLowest, HeapMerged, Data
    <3>3. HeapMoves'
      BY <1>2, <3>1 DEF HeapMoves, NotMoving
    <3> QED
      BY <3>2, <3>3
  <2> QED
    BY <2>2, <2>3
<1>11. ASSUME NEW u \in HeapUsers, MoveFree(u) PROVE HeapInv'
  <2> DEFINE p == moving[u].old
  <2>1. /\ p \in DOMAIN live /\ Release(p) /\ moving' = [moving EXCEPT ![u] = NotMoving]
        /\ \A v \in HeapUsers : v # u => moving[v].old # p /\ moving[v].new # p
    BY <1>11 DEF MoveFree, HeapMoves
  <2> HIDE DEF p
  <2>2. HeapBlocks' /\ DOMAIN live' = DOMAIN live \ {p}
    BY <2>1, HeapReleaseKeeps
  <2>3. HeapMoves'
    BY <1>2, <2>1, <2>2 DEF HeapMoves, NotMoving
  <2> QED
    BY <2>2, <2>3
<1> QED
  BY <1>4, <1>5, <1>6, <1>7, <1>8, <1>9, <1>10, <1>11 DEF HeapNext

\* rt_malloc, rt_realloc and rt_free, for any heap, headers, sizes and users: the headers
\* stay one chain both ways, lfree is the lowest free block, free blocks are merged, and
\* the used blocks are those that somebody has, with what they asked for.
THEOREM HeapStaysIntact == HeapSpec => []HeapIntact
<1>1. HeapInv => HeapIntact
  BY HeapBlocksIntact DEF HeapInv
<1> QED
  BY HeapInitial, HeapNextKeeps, <1>1, PTL DEF HeapSpec

\* No two users ever share memory: what was asked for at one address ends before the
\* header of the block at a higher one.
HeapApart == \A p, q \in DOMAIN live : p < q => p + Hdr + live[p] <= q

THEOREM HeapMemoryNotShared == HeapSpec => []HeapApart
<1>1. HeapInv => HeapApart
  <2> SUFFICES ASSUME HeapInv, NEW p \in DOMAIN live, NEW q \in DOMAIN live, p < q
               PROVE  p + Hdr + live[p] <= q
    BY DEF HeapApart
  <2>1. p \in DOMAIN mem \ {End} /\ q \in DOMAIN mem
    BY DEF HeapInv, HeapBlocks, LiveIntact
  <2>2. mem[p].next <= q /\ p \in Nat /\ q \in Nat /\ mem[p].next \in Nat
    BY <2>1, HeapNumbers DEF HeapInv, HeapBlocks, HeapChain
  <2>3. live[p] <= mem[p].next - (p + Hdr) /\ live[p] \in Nat
    BY DEF HeapInv, HeapBlocks, LiveIntact, Data
  <2> QED
    BY <2>2, <2>3, HeapNumbers
<1> QED
  BY HeapInitial, HeapNextKeeps, <1>1, PTL DEF HeapSpec

-----------------------------------------------------------------------------
(***************************************************************************)
(* The timers (Timer), for every width of the tick, every set of periods    *)
(* below half of its range and any number of timers: first the arithmetic   *)
(* across the wrap-around, then the order of the lists, then the steps.     *)
(***************************************************************************)

LEMMA TimerNumbers ==
    /\ TickMod \in Nat /\ Half \in Nat /\ 2 <= Half /\ 2 * Half <= TickMod - 1
    /\ Times # {} /\ Times \subseteq 1..Half - 1
<1>1. TickMod \in Nat \ {0} /\ Times # {} /\ Times \subseteq 1..Half - 1
  BY TimerAssumption DEF Half
<1>2. Half \in Int /\ 2 * Half <= TickMod - 1
  BY <1>1 DEF Half
<1>3. PICK time \in Times : TRUE
  BY <1>1
<1>4. time \in 1..Half - 1
  BY <1>1, <1>3
<1> QED
  BY <1>1, <1>2, <1>4

\* The tick l ticks after x.
TimerLater(x, l) == IF x + l < TickMod THEN x + l ELSE x + l - TickMod

LEMMA TimerLaterIsModulo ==
    ASSUME NEW x \in 0..TickMod - 1, NEW l \in 0..TickMod - 1
    PROVE  (x + l) % TickMod = TimerLater(x, l) /\ TimerLater(x, l) \in 0..TickMod - 1
  BY TimerNumbers DEF TimerLater

LEMMA TimerSinceIs ==
    ASSUME NEW x \in 0..TickMod - 1, NEW y \in 0..TickMod - 1
    PROVE  Since(x, y) = IF y <= x THEN x - y ELSE x - y + TickMod
  BY TimerNumbers DEF Since

\* A timer that is due in l ticks is taken as due if l is 0.
LEMMA TimerDueNow ==
    ASSUME NEW x \in 0..TickMod - 1, NEW l \in 0..Half - 1
    PROVE  Since(x, TimerLater(x, l)) < Half <=> l = 0
<1>1. l \in 0..TickMod - 1
  BY TimerNumbers
<1>2. TimerLater(x, l) \in 0..TickMod - 1
  BY <1>1, TimerLaterIsModulo
<1> QED
  BY <1>1, <1>2, TimerSinceIs, TimerNumbers DEF TimerLater

\* The comparison of rt_timer_start: of two timers that are due in l and d ticks the
\* first is due strictly later.
LEMMA TimerDueLater ==
    ASSUME NEW x \in 0..TickMod - 1, NEW l \in 0..Half - 1, NEW d \in 0..Half - 1
    PROVE  LET a == TimerLater(x, l)
               b == TimerLater(x, d)
           IN  a # b /\ Since(a, b) < Half <=> d < l
<1>1. l \in 0..TickMod - 1 /\ d \in 0..TickMod - 1
  BY TimerNumbers
<1>2. PICK a \in 0..TickMod - 1 : a = TimerLater(x, l)
  BY <1>1, TimerLaterIsModulo
<1>3. PICK b \in 0..TickMod - 1 : b = TimerLater(x, d)
  BY <1>1, TimerLaterIsModulo
<1>4. Since(a, b) = IF b <= a THEN a - b ELSE a - b + TickMod
  BY TimerSinceIs
<1>5. a # b /\ Since(a, b) < Half <=> d < l
  BY <1>1, <1>2, <1>3, <1>4, TimerNumbers DEF TimerLater
<1> QED
  BY <1>2, <1>3, <1>5

\* A tick later the same deadline is one tick nearer.
LEMMA TimerNearer ==
    ASSUME NEW x \in 0..TickMod - 1, NEW l \in 1..Half - 1
    PROVE  /\ (x + 1) % TickMod \in 0..TickMod - 1
           /\ TimerLater((x + 1) % TickMod, l - 1) = TimerLater(x, l)
<1>1. 1 \in 0..TickMod - 1
  BY TimerNumbers
<1>2. PICK y \in 0..TickMod - 1 : y = (x + 1) % TickMod /\ y = TimerLater(x, 1)
  BY <1>1, TimerLaterIsModulo
<1>3. TimerLater(y, l - 1) = TimerLater(x, l)
  BY <1>2, TimerNumbers DEF TimerLater
<1> QED
  BY <1>2, <1>3

-----------------------------------------------------------------------------
(* The order of the elements of a list *)

\* Without one element the others stay in their order.
LEMMA BeforeWithout ==
    ASSUME NEW S, NEW s \in Seq(S), NEW e, IsInjective(s), NEW x, NEW y
    PROVE  Before(Without(s, e), x, y) <=> Before(s, x, y) /\ x # e /\ y # e
<1>1. Len(s) \in Nat /\ DOMAIN s = 1..Len(s)
  BY LenProperties
<1>2. CASE e \notin ToSet(s)
  <2>1. Before(s, x, y) => x # e /\ y # e
    BY <1>2 DEF Before, ToSet
  <2> QED
    BY <1>2, <2>1 DEF Without
<1>3. CASE e \in ToSet(s)
  <2> DEFINE k == CHOOSE a \in DOMAIN s : s[a] = e
             r == RemoveAt(s, k)
  <2>1. k \in 1..Len(s) /\ s[k] = e
    BY <1>1, <1>3 DEF ToSet
  <2>2. Without(s, e) = r
    BY <1>3 DEF Without
  <2> HIDE DEF k
  <2>3. /\ r \in Seq(S) /\ Len(r) = Len(s) - 1
        /\ \A a \in 1..Len(s)-1 : r[a] = IF a < k THEN s[a] ELSE s[a+1]
    BY <2>1, RemoveAtProperties
  <2> HIDE DEF r
  <2>4. DOMAIN r = 1..Len(s)-1
    BY <2>3, LenProperties
  <2>5. \A a, j \in 1..Len(s) : s[a] = s[j] => a = j
    BY <1>1 DEF IsInjective
  <2>6. ASSUME Before(r, x, y) PROVE Before(s, x, y) /\ x # e /\ y # e
    <3>1. PICK a \in 1..Len(s)-1, j \in 1..Len(s)-1 : a < j /\ r[a] = x /\ r[j] = y
      BY <2>4, <2>6 DEF Before
    <3>2. PICK m \in 1..Len(s) : x = s[m] /\ m # k /\ m = IF a < k THEN a ELSE a + 1
      BY <1>1, <2>1, <2>3, <3>1
    <3>3. PICK n \in 1..Len(s) : y = s[n] /\ n # k /\ n = IF j < k THEN j ELSE j + 1
      BY <1>1, <2>1, <2>3, <3>1
    <3>4. m < n
      BY <1>1, <2>1, <3>1, <3>2, <3>3
    <3> QED
      BY <1>1, <2>1, <2>5, <3>2, <3>3, <3>4 DEF Before
  <2>7. ASSUME Before(s, x, y), x # e, y # e PROVE Before(r, x, y)
    <3>1. PICK m \in 1..Len(s), n \in 1..Len(s) : m < n /\ s[m] = x /\ s[n] = y
      BY <1>1, <2>7 DEF Before
    <3>2. m # k /\ n # k
      BY <2>1, <2>7, <3>1
    <3>3. PICK a \in 1..Len(s)-1 : r[a] = x /\ a = IF m < k THEN m ELSE m - 1
      <4>1. PICK h \in 1..Len(s)-1 : h = IF m < k THEN m ELSE m - 1
        BY <1>1, <2>1, <3>2
      <4>2. (h < k /\ h = m) \/ (~(h < k) /\ h + 1 = m)
        BY <1>1, <2>1, <3>2, <4>1
      <4>3. r[h] = IF h < k THEN s[h] ELSE s[h+1]
        BY <2>3
      <4>4. r[h] = s[m]
        BY <4>2, <4>3
      <4> QED
        BY <3>1, <4>1, <4>4
    <3>4. PICK j \in 1..Len(s)-1 : r[j] = y /\ j = IF n < k THEN n ELSE n - 1
      <4>1. PICK h \in 1..Len(s)-1 : h = IF n < k THEN n ELSE n - 1
        BY <1>1, <2>1, <3>2
      <4>2. (h < k /\ h = n) \/ (~(h < k) /\ h + 1 = n)
        BY <1>1, <2>1, <3>2, <4>1
      <4>3. r[h] = IF h < k THEN s[h] ELSE s[h+1]
        BY <2>3
      <4>4. r[h] = s[n]
        BY <4>2, <4>3
      <4> QED
        BY <3>1, <4>1, <4>4
    <3>5. a < j
      BY <1>1, <2>1, <3>1, <3>2, <3>3, <3>4
    <3> QED
      BY <2>4, <3>3, <3>4, <3>5 DEF Before
  <2> QED
    BY <2>2, <2>6, <2>7
<1> QED
  BY <1>2, <1>3

\* Nor do they in the rest of a list.
LEMMA BeforeTail ==
    ASSUME NEW S, NEW s \in Seq(S), s # <<>>, NEW x, NEW y, Before(Tail(s), x, y)
    PROVE  Before(s, x, y)
<1>1. Len(s) \in Nat \ {0} /\ DOMAIN s = 1..Len(s)
  BY LenProperties, EmptySeq
<1>2. /\ Tail(s) \in Seq(S) /\ Len(Tail(s)) = Len(s) - 1 /\ DOMAIN Tail(s) = 1..Len(s) - 1
      /\ \A k \in 1..Len(s) - 1 : Tail(s)[k] = s[k + 1]
  BY <1>1
<1>3. PICK a \in 1..Len(s)-1, j \in 1..Len(s)-1 : a < j /\ Tail(s)[a] = x /\ Tail(s)[j] = y
  BY <1>2 DEF Before
<1>4. a + 1 \in DOMAIN s /\ j + 1 \in DOMAIN s /\ a + 1 < j + 1
  BY <1>1, <1>3
<1> QED
  BY <1>2, <1>3, <1>4 DEF Before

\* What is appended is behind everything.
LEMMA BeforeAppend ==
    ASSUME NEW S, NEW s \in Seq(S), NEW t \in S, NEW x, NEW y
    PROVE  /\ Before(s, x, y) => Before(Append(s, t), x, y)
           /\ x \in ToSet(s) => Before(Append(s, t), x, t)
<1> DEFINE r == Append(s, t)
<1>1. Len(s) \in Nat /\ DOMAIN s = 1..Len(s)
  BY LenProperties
<1>2. /\ DOMAIN r = 1..Len(s) + 1 /\ r[Len(s) + 1] = t
      /\ \A a \in 1..Len(s) : r[a] = s[a]
  BY <1>1
<1> HIDE DEF r
<1>3. Before(s, x, y) => Before(r, x, y)
  BY <1>1, <1>2 DEF Before
<1>4. ASSUME x \in ToSet(s) PROVE Before(r, x, t)
  <2>1. PICK a \in 1..Len(s) : s[a] = x
    BY <1>1, <1>4 DEF ToSet
  <2>2. a \in DOMAIN r /\ Len(s) + 1 \in DOMAIN r /\ a < Len(s) + 1 /\ r[a] = x
    BY <1>1, <1>2, <2>1
  <2> QED
    BY <1>2, <2>2 DEF Before
<1> QED
  BY <1>3, <1>4 DEF r

\* r is the list s with t at place k.
InsertedAt(r, s, k, t) ==
    /\ k \in 1..Len(s)+1 /\ Len(r) = Len(s) + 1
    /\ \A a \in 1..Len(s)+1 : r[a] = IF a < k THEN s[a] ELSE IF a = k THEN t ELSE s[a-1]

LEMMA BeforeInserted ==
    ASSUME NEW S, NEW s \in Seq(S), NEW t \in S, NEW r \in Seq(S), NEW k, InsertedAt(r, s, k, t),
           NEW x, NEW y, Before(r, x, y)
    PROVE  \/ Before(s, x, y)
           \/ y = t /\ \E a \in 1..Len(s) : a < k /\ s[a] = x
           \/ x = t /\ \E a \in 1..Len(s) : k <= a /\ s[a] = y
<1>1. Len(s) \in Nat /\ DOMAIN s = 1..Len(s) /\ DOMAIN r = 1..Len(s)+1 /\ k \in 1..Len(s)+1
  BY LenProperties DEF InsertedAt
<1>2. PICK a \in 1..Len(s)+1, j \in 1..Len(s)+1 : a < j /\ r[a] = x /\ r[j] = y
  BY <1>1 DEF Before
<1>3. ASSUME NEW h \in 1..Len(s)+1, h # k
      PROVE  \E m \in 1..Len(s) : r[h] = s[m] /\ m = IF h < k THEN h ELSE h - 1
  <2>1. CASE h < k
    <3>1. h \in 1..Len(s) /\ r[h] = s[h]
      BY <1>1, <2>1 DEF InsertedAt
    <3> QED
      BY <2>1, <3>1
  <2>2. CASE ~(h < k)
    <3>1. h - 1 \in 1..Len(s) /\ r[h] = s[h-1]
      BY <1>1, <1>3, <2>2 DEF InsertedAt
    <3> QED
      BY <2>2, <3>1
  <2> QED
    BY <2>1, <2>2
<1>4. r[k] = t
  BY <1>1 DEF InsertedAt
<1>5. CASE a = k
  <2>1. j # k
    BY <1>1, <1>2, <1>5
  <2>2. PICK n \in 1..Len(s) : y = s[n] /\ n = IF j < k THEN j ELSE j - 1
    BY <1>2, <1>3, <2>1
  <2>3. k <= n
    BY <1>1, <1>2, <1>5, <2>2
  <2> QED
    BY <1>2, <1>4, <1>5, <2>2, <2>3
<1>6. CASE j = k
  <2>1. a # k
    BY <1>1, <1>2, <1>6
  <2>2. PICK m \in 1..Len(s) : x = s[m] /\ m = IF a < k THEN a ELSE a - 1
    BY <1>2, <1>3, <2>1
  <2>3. m < k
    BY <1>1, <1>2, <1>6, <2>2
  <2> QED
    BY <1>2, <1>4, <1>6, <2>2, <2>3
<1>7. CASE a # k /\ j # k
  <2>1. PICK m \in 1..Len(s) : x = s[m] /\ m = IF a < k THEN a ELSE a - 1
    BY <1>2, <1>3, <1>7
  <2>2. PICK n \in 1..Len(s) : y = s[n] /\ n = IF j < k THEN j ELSE j - 1
    BY <1>2, <1>3, <1>7
  <2>3. m < n
    BY <1>1, <1>2, <1>7, <2>1, <2>2
  <2> QED
    BY <1>1, <2>1, <2>2, <2>3 DEF Before
<1> QED
  BY <1>5, <1>6, <1>7

-----------------------------------------------------------------------------
(* The invariant of the timers *)

\* The timer list and the order of the starts have the same timers, each once.
TimerLists ==
    /\ started \in Seq(Timers)
    /\ IsInjective(timerList) /\ IsInjective(started)
    /\ ToSet(started) = ToSet(timerList)

\* Each timer of the list has the tick that it is due at; none is overdue.
TimerDeadlines ==
    \A t \in ToSet(timerList) :
        /\ left[t] \in 0..Half - 1 /\ timeoutTick[t] = TimerLater(tick, left[t])
        /\ check = "none" => left[t] > 0

\* The timer whose function runs is in no list.
TimerFiring ==
    /\ \A t \in Timers : activated[t] <=> t \in ToSet(timerList) \/ (t = firing /\ periodic[t])
    /\ firing # NoTimer =>
          check = "callback" /\ current = firing /\ firing \notin ToSet(timerList)
    /\ check = "callback" => current \in Timers

TimerIInv == TimerTypeOK /\ TimerLists /\ TimerDeadlines /\ TimerFiring /\ EarliestFirst

LEMMA TimerMembers == ASSUME TimerTypeOK PROVE ToSet(timerList) \subseteq Timers
<1>1. \A a \in 1..Len(timerList) : timerList[a] \in Timers
  BY ElementOfSeq DEF TimerTypeOK
<1>2. DOMAIN timerList = 1..Len(timerList)
  BY LenProperties DEF TimerTypeOK
<1> QED
  BY <1>1, <1>2 DEF ToSet

LEMMA TimerInvOnTime == ASSUME TimerIInv PROVE TimersOnTime
<1>1. ActivatedIsListed
  BY DEF TimerIInv, TimerLists, TimerFiring, ActivatedIsListed
<1>2. ASSUME NEW t \in ToSet(timerList), Due(t) PROVE left[t] = 0
  <2>1. /\ left[t] \in 0..Half - 1 /\ timeoutTick[t] = TimerLater(tick, left[t])
        /\ tick \in 0..TickMod - 1
    BY <1>2 DEF TimerIInv, TimerDeadlines, TimerTypeOK
  <2>2. Since(tick, TimerLater(tick, left[t])) < Half
    BY <1>2, <2>1 DEF Due
  <2> QED
    BY <2>1, <2>2, TimerDueNow
<1>3. FiresOnTime
  BY <1>2 DEF TimerIInv, TimerDeadlines, FiresOnTime
<1> QED
  BY <1>1, <1>3 DEF TimerIInv, TimersOnTime

\* rt_timer_start puts a timer that is due in d ticks behind those that are due no later.
TimerSorted(s) ==
    /\ s \in Seq(Timers) /\ IsInjective(s)
    /\ \A u \in ToSet(s) : left[u] \in 0..Half - 1 /\ timeoutTick[u] = TimerLater(tick, left[u])
    /\ \A a, j \in 1..Len(s) : a < j => left[s[a]] <= left[s[j]]
TimerPlaced(r, s, t, d) ==
    /\ r \in Seq(Timers) /\ ToSet(r) = ToSet(s) \cup {t} /\ IsInjective(r)
    /\ \E k : /\ InsertedAt(r, s, k, t)
              /\ \A a \in 1..Len(s) : IF a < k THEN left[s[a]] <= d ELSE d < left[s[a]]

LEMMA TimerInserted ==
    ASSUME TimerTypeOK, NEW s, TimerSorted(s), NEW t \in Timers, t \notin ToSet(s),
           NEW d \in 0..Half - 1
    PROVE  TimerPlaced(Insert(s, t, TimerLater(tick, d)), s, t, d)
<1> DEFINE b == TimerLater(tick, d)
           Later == {a \in DOMAIN s : timeoutTick[s[a]] # b /\ Since(timeoutTick[s[a]], b) < Half}
           r == Insert(s, t, b)
<1>0. /\ s \in Seq(Timers) /\ IsInjective(s)
      /\ \A u \in ToSet(s) : left[u] \in 0..Half - 1 /\ timeoutTick[u] = TimerLater(tick, left[u])
      /\ \A a, j \in 1..Len(s) : a < j => left[s[a]] <= left[s[j]]
  BY DEF TimerSorted
<1>1. Len(s) \in Nat /\ DOMAIN s = 1..Len(s) /\ \A a \in 1..Len(s) : s[a] \in ToSet(s)
  BY <1>0, LenProperties DEF ToSet
<1>2. tick \in 0..TickMod - 1 /\ d \in Nat
  BY DEF TimerTypeOK
<1>3. \A a \in 1..Len(s) : left[s[a]] \in 0..Half - 1
  BY <1>0, <1>1
<1>4. \A a \in 1..Len(s) : a \in Later <=> d < left[s[a]]
  <2> SUFFICES ASSUME NEW a \in 1..Len(s) PROVE a \in Later <=> d < left[s[a]]
    OBVIOUS
  <2>1. timeoutTick[s[a]] = TimerLater(tick, left[s[a]])
    BY <1>0, <1>1
  <2>2. TimerLater(tick, left[s[a]]) # b /\ Since(TimerLater(tick, left[s[a]]), b) < Half
        <=> d < left[s[a]]
    BY <1>2, <1>3, TimerDueLater
  <2> QED
    BY <1>1, <2>1, <2>2
<1>5. Later \subseteq 1..Len(s) /\ Later \subseteq Nat
  BY <1>1
<1>6. r = IF Later = {} THEN Append(s, t) ELSE InsertAt(s, Min(Later), t)
  BY DEF Insert
<1> HIDE DEF Later, r, b
<1>7. CASE Later = {}
  <2>1. r = Append(s, t)
    BY <1>6, <1>7
  <2>2. r \in Seq(Timers) /\ ToSet(r) = ToSet(s) \cup {t} /\ IsInjective(r)
    BY <1>0, <2>1, AppendAdds
  <2>3. InsertedAt(r, s, Len(s) + 1, t)
    <3>1. Len(Append(s, t)) = Len(s) + 1 /\ Append(s, t)[Len(s) + 1] = t
          /\ \A a \in 1..Len(s) : Append(s, t)[a] = s[a]
      BY <1>0, <1>1
    <3>2. Len(s) + 1 \in 1..Len(s) + 1 /\ ~(Len(s) + 1 < Len(s) + 1)
          /\ \A a \in 1..Len(s) + 1 : a = Len(s) + 1 \/ (a \in 1..Len(s) /\ a < Len(s) + 1)
      BY <1>1
    <3> QED
      BY <2>1, <3>1, <3>2 DEF InsertedAt
  <2>4. \A a \in 1..Len(s) : a < Len(s) + 1 /\ left[s[a]] <= d
    BY <1>1, <1>2, <1>3, <1>4, <1>7
  <2> QED
    BY <2>2, <2>3, <2>4 DEF r, b, TimerPlaced
<1>8. CASE Later # {}
  <2>1. PICK k : k = Min(Later)
    OBVIOUS
  <2>2. k \in Later /\ \A a \in Later : k <= a
    BY <1>5, <1>8, <2>1, MinInSet
  <2>3. k \in 1..Len(s) /\ d < left[s[k]] /\ k \in 1..Len(s) + 1
    BY <1>1, <1>4, <1>5, <2>2
  <2>4. r = InsertAt(s, k, t)
    BY <1>6, <1>8, <2>1
  <2>5. r \in Seq(Timers) /\ ToSet(r) = ToSet(s) \cup {t} /\ IsInjective(r)
    BY <1>0, <2>3, <2>4, InsertAtAdds
  <2>6. InsertedAt(r, s, k, t)
    <3>1. /\ Len(r) = Len(s) + 1
          /\ \A a \in 1..Len(s)+1 : r[a] = IF a < k THEN s[a] ELSE IF a = k THEN t ELSE s[a-1]
      <4>1. s \in Seq(Timers) /\ k \in 1..Len(s) + 1
        BY <1>0, <2>3
      <4> QED
        BY ONLY SMTT(30), <4>1, t \in Timers, <2>4, InsertAtProperties
    <3> QED
      BY <2>3, <3>1 DEF InsertedAt
  <2>7. ASSUME NEW a \in 1..Len(s) PROVE IF a < k THEN left[s[a]] <= d ELSE d < left[s[a]]
    <3>1. a < k => a \notin Later
      BY <1>1, <2>2, <2>3
    <3>2. k <= a => left[s[k]] <= left[s[a]]
      <4>1. k < a => left[s[k]] <= left[s[a]]
        BY <1>0, <2>3
      <4>2. left[s[k]] <= left[s[k]]
        BY <1>3, <2>3
      <4> QED
        BY <2>3, <4>1, <4>2
    <3>3. left[s[a]] \in Nat /\ left[s[k]] \in Nat
      BY <1>3, <2>3
    <3>4. a < k => left[s[a]] <= d
      <4>1. a < k => ~(d < left[s[a]])
        BY <1>4, <3>1
      <4> QED
        BY <1>2, <3>3, <4>1
    <3>5. ~(a < k) => d < left[s[a]]
      <4>1. ~(a < k) => k <= a
        BY <2>3
      <4> QED
        BY <1>2, <2>3, <3>2, <3>3, <4>1
    <3> QED
      BY <3>4, <3>5
  <2> QED
    BY <2>5, <2>6, <2>7 DEF r, b, TimerPlaced
<1> QED
  BY <1>7, <1>8

\* The order without one timer.
LEMMA TimerDropKeeps ==
    ASSUME TimerTypeOK, TimerLists, EarliestFirst, NEW t
    PROVE  LET s == Without(timerList, t)
               o == Without(started, t)
           IN  /\ s \in Seq(Timers) /\ ToSet(s) = ToSet(timerList) \ {t} /\ IsInjective(s)
               /\ o \in Seq(Timers) /\ ToSet(o) = ToSet(s) /\ IsInjective(o)
               /\ \A x, y \in Timers : Before(s, x, y) =>
                     /\ x # t /\ y # t
                     /\ left[x] < left[y] \/ (left[x] = left[y] /\ Before(o, x, y))
<1>1. timerList \in Seq(Timers) /\ IsInjective(timerList)
      /\ started \in Seq(Timers) /\ IsInjective(started) /\ ToSet(started) = ToSet(timerList)
  BY DEF TimerTypeOK, TimerLists
<1>2. /\ Without(timerList, t) \in Seq(Timers)
      /\ ToSet(Without(timerList, t)) = ToSet(timerList) \ {t}
      /\ IsInjective(Without(timerList, t))
  BY <1>1, WithoutProperties
<1>3. /\ Without(started, t) \in Seq(Timers)
      /\ ToSet(Without(started, t)) = ToSet(started) \ {t}
      /\ IsInjective(Without(started, t))
  BY <1>1, WithoutProperties
<1>4. ASSUME NEW x \in Timers, NEW y \in Timers, Before(Without(timerList, t), x, y)
      PROVE  /\ x # t /\ y # t
             /\ left[x] < left[y] \/ (left[x] = left[y] /\ Before(Without(started, t), x, y))
  <2>1. Before(timerList, x, y) /\ x # t /\ y # t
    BY <1>1, <1>4, BeforeWithout
  <2>2. Before(started, x, y) => Before(Without(started, t), x, y)
    BY <1>1, <2>1, BeforeWithout
  <2> QED
    BY <2>1, <2>2 DEF EarliestFirst
<1> QED
  BY <1>1, <1>2, <1>3, <1>4

\* rt_timer_start, from whatever list the timer was in.
LEMMA TimerStartKeeps ==
    ASSUME TimerIInv, NEW t \in Timers, StartTimer(t), tick' = tick
    PROVE  /\ timerList' \in Seq(Timers) /\ TimerLists' /\ EarliestFirst'
           /\ ToSet(timerList') = ToSet(timerList) \cup {t}
           /\ \A u \in ToSet(timerList') :
                 /\ left'[u] \in 0..Half - 1 /\ timeoutTick'[u] = TimerLater(tick, left'[u])
                 /\ left'[u] > 0 \/ (u \in ToSet(timerList) /\ left'[u] = left[u])
           /\ timeoutTick' \in [Timers -> 0..TickMod - 1]
           /\ activated' = [activated EXCEPT ![t] = TRUE] /\ left' \in [Timers -> 0..Half]
<1>1. PICK s : s = Without(timerList, t)
  OBVIOUS
<1>2. PICK o : o = Without(started, t)
  OBVIOUS
<1>3. PICK d : d = initTick[t]
  OBVIOUS
<1>4. d \in 1..Half - 1 /\ d \in 0..Half - 1 /\ d \in 0..TickMod - 1 /\ tick \in 0..TickMod - 1
  BY <1>3, TimerNumbers DEF TimerIInv, TimerTypeOK
<1>5. PICK b \in 0..TickMod - 1 : b = TimerLater(tick, d)
  BY <1>4, TimerLaterIsModulo
<1>a. b = (tick + initTick[t]) % TickMod
  BY <1>3, <1>4, <1>5, TimerLaterIsModulo
<1>6. /\ timerList' = Insert(s, t, b) /\ started' = Append(o, t)
      /\ timeoutTick' = [timeoutTick EXCEPT ![t] = b]
      /\ activated' = [activated EXCEPT ![t] = TRUE]
      /\ left' = [left EXCEPT ![t] = d]
  BY <1>1, <1>2, <1>3, <1>a DEF StartTimer, Dropped
<1>7. /\ s \in Seq(Timers) /\ ToSet(s) = ToSet(timerList) \ {t} /\ IsInjective(s)
      /\ o \in Seq(Timers) /\ ToSet(o) = ToSet(s) /\ IsInjective(o)
      /\ \A x, y \in Timers : Before(s, x, y) =>
            /\ x # t /\ y # t
            /\ left[x] < left[y] \/ (left[x] = left[y] /\ Before(o, x, y))
  BY <1>1, <1>2, TimerDropKeeps DEF TimerIInv
<1>8. /\ timeoutTick' \in [Timers -> 0..TickMod - 1] /\ timeoutTick'[t] = b
      /\ left' \in [Timers -> 0..Half] /\ left'[t] = d
      /\ \A u \in Timers : u # t => timeoutTick'[u] = timeoutTick[u] /\ left'[u] = left[u]
  BY <1>4, <1>6, TimerNumbers DEF TimerIInv, TimerTypeOK
<1>9. ToSet(timerList) \subseteq Timers
  BY TimerMembers DEF TimerIInv
<1>10. \A u \in ToSet(s) : left[u] \in 0..Half - 1 /\ timeoutTick[u] = TimerLater(tick, left[u])
  BY <1>7 DEF TimerIInv, TimerDeadlines
<1>11. Len(s) \in Nat /\ DOMAIN s = 1..Len(s) /\ \A a \in 1..Len(s) : s[a] \in Timers /\ s[a] \in ToSet(s)
  BY <1>7, LenProperties, ElementOfSeq DEF ToSet
<1>12. \A a, j \in 1..Len(s) : a < j => left[s[a]] <= left[s[j]]
  <2> SUFFICES ASSUME NEW a \in 1..Len(s), NEW j \in 1..Len(s), a < j
               PROVE  left[s[a]] <= left[s[j]]
    OBVIOUS
  <2>1. Before(s, s[a], s[j])
    BY <1>11 DEF Before
  <2>2. left[s[a]] < left[s[j]] \/ left[s[a]] = left[s[j]]
    BY <1>7, <1>11, <2>1
  <2>3. left[s[a]] \in Nat /\ left[s[j]] \in Nat
    BY <1>10, <1>11
  <2> QED
    BY <2>2, <2>3
<1>13. PICK k : /\ InsertedAt(timerList', s, k, t)
                /\ \A a \in 1..Len(s) : IF a < k THEN left[s[a]] <= d ELSE d < left[s[a]]
                /\ timerList' \in Seq(Timers) /\ IsInjective(timerList')
                /\ ToSet(timerList') = ToSet(s) \cup {t}
  <2>1. TimerSorted(s)
    BY <1>7, <1>10, <1>12 DEF TimerSorted
  <2>2. t \notin ToSet(s)
    BY <1>7
  <2>3. TimerPlaced(timerList', s, t, d)
    BY <1>4, <1>5, <1>6, <2>1, <2>2, TimerInserted DEF TimerIInv
  <2> QED
    BY <2>3 DEF TimerPlaced
<1>14. /\ started' \in Seq(Timers) /\ ToSet(started') = ToSet(o) \cup {t} /\ IsInjective(started')
  BY <1>6, <1>7, AppendAdds
<1>15. TimerLists'
  BY <1>7, <1>13, <1>14 DEF TimerLists
<1>16. ASSUME NEW x \in Timers, NEW y \in Timers, Before(timerList', x, y)
       PROVE  left'[x] < left'[y] \/ (left'[x] = left'[y] /\ Before(started', x, y))
  <2>1. \/ Before(s, x, y)
        \/ y = t /\ \E a \in 1..Len(s) : a < k /\ s[a] = x
        \/ x = t /\ \E a \in 1..Len(s) : k <= a /\ s[a] = y
    BY <1>7, <1>13, <1>16, BeforeInserted
  <2>2. CASE Before(s, x, y)
    <3>1. Before(o, x, y) => Before(started', x, y)
      BY <1>6, <1>7, BeforeAppend
    <3> QED
      BY <1>7, <1>8, <2>2, <3>1
  <2>3. CASE y = t /\ \E a \in 1..Len(s) : a < k /\ s[a] = x
    <3>1. PICK a \in 1..Len(s) : a < k /\ s[a] = x
      BY <2>3
    <3>2. left[x] <= d /\ x \in ToSet(s) /\ left[x] \in Nat /\ x # t
      BY <1>7, <1>10, <1>11, <1>13, <3>1
    <3>3. Before(started', x, t)
      BY <1>6, <1>7, <3>2, BeforeAppend
    <3> QED
      BY <1>4, <1>8, <2>3, <3>2, <3>3
  <2>4. CASE x = t /\ \E a \in 1..Len(s) : k <= a /\ s[a] = y
    <3>1. PICK a \in 1..Len(s) : k <= a /\ s[a] = y
      BY <2>4
    <3>2. k \in Nat /\ ~(a < k)
      BY <1>11, <1>13, <3>1 DEF InsertedAt
    <3>3. d < left[y] /\ y # t
      BY <1>7, <1>11, <1>13, <3>1, <3>2
    <3> QED
      BY <1>8, <2>4, <3>3
  <2> QED
    BY <2>1, <2>2, <2>3, <2>4
<1>17. EarliestFirst'
  BY <1>16 DEF EarliestFirst, Before
<1>18. ASSUME NEW u \in ToSet(timerList')
       PROVE  /\ left'[u] \in 0..Half - 1 /\ timeoutTick'[u] = TimerLater(tick, left'[u])
              /\ left'[u] > 0 \/ (u \in ToSet(timerList) /\ left'[u] = left[u])
  <2>1. CASE u = t
    BY <1>4, <1>5, <1>8, <2>1
  <2>2. CASE u # t
    BY <1>7, <1>8, <1>9, <1>10, <1>13, <2>2
  <2> QED
    BY <2>1, <2>2
<1>19. ToSet(timerList') = ToSet(timerList) \cup {t}
  BY <1>7, <1>13
<1> QED
  BY <1>6, <1>8, <1>13, <1>15, <1>17, <1>18, <1>19

LEMMA TimerInitial == TimerInit => TimerIInv
<1> SUFFICES ASSUME TimerInit PROVE TimerIInv
  OBVIOUS
<1>1. timerList = <<>> /\ started = <<>> /\ ToSet(<<>>) = {} /\ IsInjective(<<>>)
  BY DEF TimerInit, ToSet, IsInjective
<1>2. PICK time \in Times : time = CHOOSE c \in Times : TRUE
  BY TimerNumbers
<1>3. initTick \in [Timers -> Times]
  BY <1>2 DEF TimerInit
<1>4. 0 \in 0..TickMod - 1 /\ 0 \in 0..Half
  BY TimerNumbers
<1>5. TimerTypeOK
  BY <1>1, <1>3, <1>4 DEF TimerInit, TimerTypeOK
<1>6. TimerLists
  BY <1>1 DEF TimerLists
<1>7. TimerDeadlines /\ TimerFiring
  BY <1>1 DEF TimerInit, TimerDeadlines, TimerFiring
<1>8. EarliestFirst
  BY <1>1 DEF EarliestFirst, Before
<1> QED
  BY <1>5, <1>6, <1>7, <1>8 DEF TimerIInv

\* rt_timer_stop and rt_timer_detach.
LEMMA TimerRemovalKeeps ==
    ASSUME TimerIInv, NEW t \in Timers, Stop(t) \/ Detach(t) PROVE TimerIInv'
<1>1. /\ timerList' = Without(timerList, t) /\ started' = Without(started, t)
      /\ firing' = IF firing = t THEN NoTimer ELSE firing
      /\ activated' = [activated EXCEPT ![t] = FALSE] /\ left' = [left EXCEPT ![t] = 0]
      /\ UNCHANGED <<tick, current, check, timeoutTick, initTick, periodic>>
  BY DEF Stop, Detach, Dropped
<1>2. /\ timerList' \in Seq(Timers) /\ ToSet(timerList') = ToSet(timerList) \ {t}
      /\ IsInjective(timerList')
      /\ started' \in Seq(Timers) /\ ToSet(started') = ToSet(timerList') /\ IsInjective(started')
      /\ \A x, y \in Timers : Before(timerList', x, y) =>
            /\ x # t /\ y # t
            /\ left[x] < left[y] \/ (left[x] = left[y] /\ Before(started', x, y))
  BY <1>1, TimerDropKeeps DEF TimerIInv
<1>3. TimerTypeOK'
  <2>1. left' \in [Timers -> 0..Half]
    BY <1>1, TimerNumbers DEF TimerIInv, TimerTypeOK
  <2> QED
    BY <1>1, <1>2, <2>1 DEF TimerIInv, TimerTypeOK
<1>4. TimerLists'
  BY <1>2 DEF TimerLists
<1>5. \A x \in Timers : x # t => left'[x] = left[x]
  BY <1>1 DEF TimerIInv, TimerTypeOK
<1>6. TimerDeadlines'
  <2>1. ToSet(timerList) \subseteq Timers
    BY TimerMembers DEF TimerIInv
  <2> QED
    BY <1>1, <1>2, <1>5, <2>1 DEF TimerIInv, TimerDeadlines
<1>7. TimerFiring'
  BY <1>1, <1>2, TimerAssumption DEF TimerIInv, TimerTypeOK, TimerFiring
<1>8. EarliestFirst'
  <2>1. \A x, y \in Timers : Before(timerList', x, y) =>
            left'[x] < left'[y] \/ (left'[x] = left'[y] /\ Before(started', x, y))
    BY <1>2, <1>5
  <2> QED
    BY <2>1 DEF EarliestFirst, Before
<1> QED
  BY <1>3, <1>4, <1>6, <1>7, <1>8 DEF TimerIInv

\* rt_timer_start of a thread or of a timeout function.
LEMMA TimerUserStarts ==
    ASSUME TimerIInv, NEW t \in Timers, Start(t) PROVE TimerIInv'
<1>1. /\ StartTimer(t) /\ firing' = IF firing = t THEN NoTimer ELSE firing
      /\ UNCHANGED <<tick, current, check, initTick, periodic>>
  BY DEF Start
<1>2. /\ timerList' \in Seq(Timers) /\ TimerLists' /\ EarliestFirst'
      /\ ToSet(timerList') = ToSet(timerList) \cup {t}
      /\ \A u \in ToSet(timerList') :
            /\ left'[u] \in 0..Half - 1 /\ timeoutTick'[u] = TimerLater(tick, left'[u])
            /\ left'[u] > 0 \/ (u \in ToSet(timerList) /\ left'[u] = left[u])
      /\ timeoutTick' \in [Timers -> 0..TickMod - 1]
      /\ activated' = [activated EXCEPT ![t] = TRUE] /\ left' \in [Timers -> 0..Half]
  BY <1>1, TimerStartKeeps
<1>3. TimerTypeOK'
  BY <1>1, <1>2 DEF TimerIInv, TimerTypeOK
<1>4. TimerDeadlines'
  BY <1>1, <1>2 DEF TimerIInv, TimerDeadlines
<1>5. TimerFiring'
  BY <1>1, <1>2, TimerAssumption DEF TimerIInv, TimerTypeOK, TimerFiring
<1> QED
  BY <1>2, <1>3, <1>4, <1>5 DEF TimerIInv

\* rt_tick_increase.
LEMMA TimerTicks == ASSUME TimerIInv, Tick PROVE TimerIInv'
<1>1. /\ check = "none" /\ tick' = (tick + 1) % TickMod /\ check' = "loop"
      /\ left' = [t \in Timers |-> IF t \in ToSet(timerList) THEN left[t] - 1 ELSE left[t]]
      /\ UNCHANGED <<timerList, firing, current, timeoutTick, initTick, periodic, activated,
                     started>>
  BY DEF Tick
<1>2. ToSet(timerList) \subseteq Timers /\ tick \in 0..TickMod - 1
  BY TimerMembers DEF TimerIInv, TimerTypeOK
<1>3. 1 \in 1..Half - 1
  BY TimerNumbers
<1>4. tick' \in 0..TickMod - 1
  BY <1>1, <1>2, <1>3, TimerNearer
<1>5. ASSUME NEW t \in ToSet(timerList)
      PROVE  /\ left[t] \in 1..Half - 1 /\ left'[t] = left[t] - 1 /\ left'[t] \in 0..Half - 1
             /\ timeoutTick[t] = TimerLater(tick', left'[t])
  <2>1. left[t] \in 0..Half - 1 /\ left[t] > 0 /\ timeoutTick[t] = TimerLater(tick, left[t])
    BY <1>1, <1>5 DEF TimerIInv, TimerDeadlines
  <2>2. left[t] \in 1..Half - 1 /\ left'[t] = left[t] - 1 /\ left'[t] \in 0..Half - 1
    BY <1>1, <1>2, <1>5, <2>1, TimerNumbers
  <2>3. TimerLater(tick', left[t] - 1) = TimerLater(tick, left[t])
    BY <1>1, <1>2, <2>2, TimerNearer
  <2> QED
    BY <2>1, <2>2, <2>3
<1>6. \A t \in Timers : t \notin ToSet(timerList) => left'[t] = left[t]
  BY <1>1
<1>7. left' \in [Timers -> 0..Half]
  <2>1. \A t \in Timers : left'[t] \in 0..Half
    BY <1>5, <1>6, TimerNumbers DEF TimerIInv, TimerTypeOK
  <2> QED
    BY <1>1, <2>1
<1>8. TimerTypeOK'
  BY <1>1, <1>4, <1>7 DEF TimerIInv, TimerTypeOK
<1>9. TimerLists'
  BY <1>1 DEF TimerIInv, TimerLists
<1>10. TimerDeadlines'
  BY <1>1, <1>5 DEF TimerDeadlines
<1>11. TimerFiring'
  BY <1>1 DEF TimerIInv, TimerFiring
<1>12. EarliestFirst'
  <2>1. ASSUME NEW x \in Timers, NEW y \in Timers, Before(timerList, x, y)
        PROVE  left'[x] < left'[y] \/ (left'[x] = left'[y] /\ Before(started, x, y))
    <3>1. x \in ToSet(timerList) /\ y \in ToSet(timerList)
      BY <2>1 DEF Before, ToSet
    <3>2. left[x] < left[y] \/ (left[x] = left[y] /\ Before(started, x, y))
      BY <2>1 DEF TimerIInv, EarliestFirst
    <3> QED
      BY <1>5, <3>1, <3>2
  <2> QED
    BY <1>1, <2>1 DEF EarliestFirst, Before
<1> QED
  BY <1>8, <1>9, <1>10, <1>11, <1>12 DEF TimerIInv

\* The first timer of the list is due and its function is called.
LEMMA TimerExpires == ASSUME TimerIInv, Expire PROVE TimerIInv'
<1>1. PICK t : t = Head(timerList)
  OBVIOUS
<1>2. /\ check = "loop" /\ timerList # <<>> /\ check' = "callback"
      /\ timerList' = Tail(timerList) /\ firing' = t /\ current' = t
      /\ activated' = [activated EXCEPT ![t] = periodic[t]]
      /\ started' = Without(started, t)
      /\ UNCHANGED <<tick, timeoutTick, initTick, periodic, left>>
  BY <1>1 DEF Expire, Dropped
<1>3. /\ timerList \in Seq(Timers) /\ IsInjective(timerList)
      /\ started \in Seq(Timers) /\ IsInjective(started) /\ ToSet(started) = ToSet(timerList)
  BY DEF TimerIInv, TimerTypeOK, TimerLists
<1>4. /\ timerList' \in Seq(Timers) /\ t \in ToSet(timerList)
      /\ ToSet(timerList') = ToSet(timerList) \ {t} /\ IsInjective(timerList')
  BY <1>1, <1>2, <1>3, TailProperties
<1>5. /\ started' \in Seq(Timers) /\ ToSet(started') = ToSet(started) \ {t}
      /\ IsInjective(started')
  BY <1>2, <1>3, WithoutProperties
<1>6. t \in Timers /\ t # NoTimer
  BY <1>4, TimerMembers, TimerAssumption DEF TimerIInv
<1>7. TimerTypeOK'
  BY <1>2, <1>4, <1>6 DEF TimerIInv, TimerTypeOK
<1>8. TimerLists'
  BY <1>3, <1>4, <1>5 DEF TimerLists
<1>9. TimerDeadlines'
  BY <1>2, <1>4 DEF TimerIInv, TimerDeadlines
<1>10. TimerFiring'
  <2>1. firing = NoTimer
    BY <1>2 DEF TimerIInv, TimerFiring
  <2>2. activated'[t] = periodic[t] /\ \A u \in Timers : u # t => activated'[u] = activated[u]
    BY <1>2, <1>6 DEF TimerIInv, TimerTypeOK
  <2>3. \A u \in Timers : u # t =>
           (activated'[u] <=> u \in ToSet(timerList') \/ (u = firing' /\ periodic'[u]))
    <3> SUFFICES ASSUME NEW u \in Timers, u # t PROVE activated'[u] <=> u \in ToSet(timerList')
      BY <1>2
    <3>1. activated[u] <=> u \in ToSet(timerList) \/ (u = firing /\ periodic[u])
      BY DEF TimerIInv, TimerFiring
    <3>2. u # firing
      BY <2>1, TimerAssumption
    <3>3. u \in ToSet(timerList') <=> u \in ToSet(timerList)
      BY <1>4
    <3> QED
      BY <2>2, <3>1, <3>2, <3>3, Zenon
  <2>4. activated'[t] <=> t \in ToSet(timerList') \/ (t = firing' /\ periodic'[t])
    BY <1>2, <1>4, <2>2
  <2> QED
    BY <1>2, <1>4, <1>6, <2>3, <2>4 DEF TimerFiring
<1>11. EarliestFirst'
  <2>1. ASSUME NEW x \in Timers, NEW y \in Timers, Before(timerList', x, y)
        PROVE  left[x] < left[y] \/ (left[x] = left[y] /\ Before(started', x, y))
    <3>1. Before(timerList, x, y)
      BY <1>2, <1>3, <2>1, BeforeTail
    <3>2. x # t /\ y # t
      BY <1>4, <2>1 DEF Before, ToSet
    <3>3. Before(started, x, y) => Before(started', x, y)
      BY <1>2, <1>3, <3>2, BeforeWithout
    <3> QED
      BY <3>1, <3>3 DEF TimerIInv, EarliestFirst
  <2> QED
    BY <1>2, <2>1 DEF EarliestFirst, Before
<1> QED
  BY <1>7, <1>8, <1>9, <1>10, <1>11 DEF TimerIInv

\* The function returns.
LEMMA TimerReturns == ASSUME TimerIInv, FunctionReturns PROVE TimerIInv'
<1>1. /\ check = "callback" /\ firing' = NoTimer /\ check' = "loop" /\ current \in Timers
      /\ UNCHANGED <<tick, current, initTick, periodic>>
  BY DEF FunctionReturns, TimerIInv, TimerFiring
<1>2. CASE firing # NoTimer /\ periodic[current] /\ activated[current]
  <2>1. StartTimer(current) /\ firing = current
    BY <1>2 DEF FunctionReturns, TimerIInv, TimerFiring
  <2>2. /\ timerList' \in Seq(Timers) /\ TimerLists' /\ EarliestFirst'
        /\ ToSet(timerList') = ToSet(timerList) \cup {current}
        /\ \A u \in ToSet(timerList') :
              left'[u] \in 0..Half - 1 /\ timeoutTick'[u] = TimerLater(tick, left'[u])
        /\ timeoutTick' \in [Timers -> 0..TickMod - 1]
        /\ activated' = [activated EXCEPT ![current] = TRUE] /\ left' \in [Timers -> 0..Half]
    BY <1>1, <2>1, TimerStartKeeps
  <2>3. TimerTypeOK'
    BY <1>1, <2>2 DEF TimerIInv, TimerTypeOK
  <2>4. TimerDeadlines'
    BY <1>1, <2>2 DEF TimerDeadlines
  <2>5. TimerFiring'
    BY <1>1, <2>1, <2>2, TimerAssumption DEF TimerIInv, TimerTypeOK, TimerFiring
  <2> QED
    BY <2>2, <2>3, <2>4, <2>5 DEF TimerIInv
<1>3. CASE ~(firing # NoTimer /\ periodic[current] /\ activated[current])
  <2>1. UNCHANGED <<timerList, timeoutTick, activated, left, started>>
    BY <1>3 DEF FunctionReturns
  <2>2. TimerTypeOK'
    BY <1>1, <2>1 DEF TimerIInv, TimerTypeOK
  <2>3. TimerLists' /\ EarliestFirst'
    BY <2>1 DEF TimerIInv, TimerLists, EarliestFirst, Before
  <2>4. TimerDeadlines'
    BY <1>1, <2>1 DEF TimerIInv, TimerDeadlines
  <2>5. TimerFiring'
    BY <1>1, <1>3, <2>1, TimerAssumption DEF TimerIInv, TimerTypeOK, TimerFiring
  <2> QED
    BY <2>2, <2>3, <2>4, <2>5 DEF TimerIInv
<1> QED
  BY <1>2, <1>3

\* No timer of the list is due: they are sorted, and the first is not.
LEMMA TimerCheckEnds == ASSUME TimerIInv, CheckDone PROVE TimerIInv'
<1>1. /\ check = "loop" /\ check' = "none" /\ current' = NoTimer
      /\ timerList # <<>> => ~Due(Head(timerList))
      /\ UNCHANGED <<tick, timerList, firing, timeoutTick, initTick, periodic, activated, left,
                     started>>
  BY DEF CheckDone
<1>2. ASSUME NEW t \in ToSet(timerList) PROVE left[t] > 0
  <2>1. /\ Len(timerList) \in Nat /\ DOMAIN timerList = 1..Len(timerList)
        /\ timerList \in Seq(Timers)
    BY LenProperties DEF TimerIInv, TimerTypeOK
  <2>2. PICK a \in 1..Len(timerList) : timerList[a] = t
    BY <1>2, <2>1 DEF ToSet
  <2>3. PICK h : h = timerList[1]
    OBVIOUS
  <2>4. 1 \in 1..Len(timerList) /\ h \in ToSet(timerList) /\ ~Due(h)
    <3>1. 1 \in 1..Len(timerList) /\ timerList # <<>>
      BY <2>1, <2>2
    <3>2. Head(timerList) = h
      BY <2>1, <2>3, <3>1
    <3> QED
      BY <1>1, <2>1, <2>3, <3>1, <3>2 DEF ToSet
  <2>5. /\ left[h] \in 0..Half - 1 /\ timeoutTick[h] = TimerLater(tick, left[h])
        /\ left[t] \in 0..Half - 1 /\ tick \in 0..TickMod - 1
    BY <1>2, <2>4 DEF TimerIInv, TimerDeadlines, TimerTypeOK
  <2>6. left[h] > 0
    <3>1. left[h] # 0
      BY <2>4, <2>5, TimerDueNow DEF Due
    <3> QED
      BY <2>5, <3>1
  <2>7. h = t \/ Before(timerList, h, t)
    BY <2>1, <2>2, <2>3, <2>4 DEF Before
  <2>8. h \in Timers /\ t \in Timers
    BY <1>2, <2>4, TimerMembers DEF TimerIInv
  <2>9. h = t \/ left[h] < left[t] \/ left[h] = left[t]
    BY <2>7, <2>8 DEF TimerIInv, EarliestFirst
  <2> QED
    BY <2>5, <2>6, <2>9
<1>3. TimerTypeOK'
  BY <1>1 DEF TimerIInv, TimerTypeOK
<1>4. TimerLists' /\ EarliestFirst'
  BY <1>1 DEF TimerIInv, TimerLists, EarliestFirst, Before
<1>5. TimerDeadlines'
  BY <1>1, <1>2 DEF TimerIInv, TimerDeadlines
<1>6. TimerFiring'
  BY <1>1 DEF TimerIInv, TimerFiring
<1> QED
  BY <1>3, <1>4, <1>5, <1>6 DEF TimerIInv

LEMMA TimerNextKeeps == TimerIInv /\ [TimerNext]_timerVars => TimerIInv'
<1> SUFFICES ASSUME TimerIInv, [TimerNext]_timerVars PROVE TimerIInv'
  OBVIOUS
<1>1. ASSUME UNCHANGED <<tick, timerList, firing, current, check, timeoutTick, activated, left,
                         started>>,
             initTick' \in [Timers -> Times], periodic' \in [Timers -> BOOLEAN],
             firing # NoTimer => periodic'[firing] = periodic[firing]
      PROVE  TimerIInv'
  <2>1. TimerTypeOK'
    BY <1>1 DEF TimerIInv, TimerTypeOK
  <2>2. TimerLists' /\ EarliestFirst' /\ TimerDeadlines'
    BY <1>1 DEF TimerIInv, TimerLists, EarliestFirst, Before, TimerDeadlines
  <2>3. TimerFiring'
    BY <1>1, TimerAssumption DEF TimerIInv, TimerFiring
  <2> QED
    BY <2>1, <2>2, <2>3 DEF TimerIInv
<1>2. CASE UNCHANGED timerVars
  BY <1>1, <1>2 DEF timerVars, TimerIInv, TimerTypeOK
<1>3. ASSUME NEW t \in Timers, Start(t) \/ Stop(t) \/ Detach(t) PROVE TimerIInv'
  BY <1>3, TimerUserStarts, TimerRemovalKeeps
<1>4. ASSUME NEW t \in Timers, NEW time \in Times, SetTime(t, time) PROVE TimerIInv'
  <2>1. initTick' \in [Timers -> Times]
    BY <1>4 DEF SetTime, TimerIInv, TimerTypeOK
  <2> QED
    BY <1>1, <1>4, <2>1 DEF SetTime, TimerIInv, TimerTypeOK
<1>5. ASSUME NEW t \in Timers, NEW flag \in BOOLEAN, SetPeriodic(t, flag) PROVE TimerIInv'
  <2>1. periodic' \in [Timers -> BOOLEAN]
    BY <1>5 DEF SetPeriodic, TimerIInv, TimerTypeOK
  <2>2. firing # NoTimer => t # firing
    BY <1>5 DEF SetPeriodic, TimerIInv, TimerFiring
  <2>3. firing # NoTimer => periodic'[firing] = periodic[firing]
    BY <1>5, <2>2 DEF SetPeriodic, TimerIInv, TimerTypeOK
  <2> QED
    BY <1>1, <1>5, <2>1, <2>3 DEF SetPeriodic, TimerIInv, TimerTypeOK
<1> QED
  BY <1>2, <1>3, <1>4, <1>5, TimerTicks, TimerExpires, TimerReturns, TimerCheckEnds DEF TimerNext

\* rt_timer_start, rt_timer_stop, rt_timer_control and rt_timer_check, for any width of the
\* tick: what is activated is in the list once, the list is in the order of the deadlines
\* and the starts across the wrap-around of the tick, and every timer expires at its tick.
THEOREM TimerExpiresOnTime == TimerSpec => []TimersOnTime
<1>1. TimerIInv => TimersOnTime
  BY TimerInvOnTime
<1> QED
  BY TimerInitial, TimerNextKeeps, <1>1, PTL DEF TimerSpec

\* The ticks, the flags and the lists of the timers stay in their types.
THEOREM TimerTypes == TimerSpec => []TimerTypeOK
<1>1. TimerIInv => TimerTypeOK
  BY DEF TimerIInv
<1> QED
  BY TimerInitial, TimerNextKeeps, <1>1, PTL DEF TimerSpec
=============================================================================
