-------------------------------- MODULE DmaLock --------------------------------
(***************************************************************************)
(* The lock of the DMA channels in driver/dmalock.c.  A semaphore counts    *)
(* the free channels; who has taken a token looks for a free channel under  *)
(* a mutex, while dmalock_release frees a channel without the mutex.        *)
(*                                                                         *)
(* Each access to the channel tables is a step, in the order of the program;*)
(* the users are threads of both cores.  The semaphore and the mutex are    *)
(* those of ipc.c, taken here for what they promise: a counter that is not  *)
(* taken below zero and a lock with one owner.                              *)
(***************************************************************************)
EXTENDS Integers, FiniteSets

CONSTANTS Users,       \* the threads that use DMA channels
          Channels,    \* DMAC_CHANNEL_COUNT
          NoUser       \* no user: NULL, and the mutex without an owner

ASSUME DmaAssumption ==
    /\ Channels \in Nat \ {0}
    /\ NoUser \notin Users /\ IsFiniteSet(Users)

VARIABLES tokens,      \* the value of dma_sem
          dmaOwner,    \* the owner of dma_mutex
          channelUsed, \* channel_used
          channelName, \* channel_name: the user whose name it is
          at,          \* where each user is
          i,           \* its loop variable
          chn          \* its channel, Channels if it has none (DMAC_CHANNEL_MAX)

dmaVars == <<tokens, dmaOwner, channelUsed, channelName, at, i, chn>>

Chans == 0..Channels - 1

DmaInit ==
    /\ tokens = Channels
    /\ dmaOwner = NoUser
    /\ channelUsed = [c \in Chans |-> FALSE]
    /\ channelName = [c \in Chans |-> NoUser]
    /\ at = [u \in Users |-> "out"]
    /\ i = [u \in Users |-> 0]
    /\ chn = [u \in Users |-> Channels]

Go(u, place) == at' = [at EXCEPT ![u] = place]

-----------------------------------------------------------------------------
(* _dmalock_sync_take(chn, timeout_ms, name) *)

\* rt_sem_take returns RT_EOK; if it times out, *chn stays DMAC_CHANNEL_MAX and
\* nothing is taken.
TakeToken(u) ==
    /\ at[u] = "out" /\ tokens > 0
    /\ tokens' = tokens - 1
    /\ Go(u, "lock")
    /\ UNCHANGED <<dmaOwner, channelUsed, channelName, i, chn>>

\* Seeded fault: the mutex is not taken.
LockNothing(u) ==
    /\ at[u] = "lock"
    /\ i' = [i EXCEPT ![u] = 0]
    /\ Go(u, "scan")
    /\ UNCHANGED <<tokens, dmaOwner, channelUsed, channelName, chn>>

Lock(u) ==
    /\ at[u] = "lock" /\ dmaOwner = NoUser
    /\ dmaOwner' = u
    /\ i' = [i EXCEPT ![u] = 0]
    /\ Go(u, "scan")
    /\ UNCHANGED <<tokens, channelUsed, channelName, chn>>

\* One round of the loop: if (channel_used[i] == 0)
Scan(u) ==
    /\ at[u] = "scan"
    /\ IF i[u] = Channels THEN Go(u, "unlock") /\ UNCHANGED i
       ELSE IF channelUsed[i[u]] THEN i' = [i EXCEPT ![u] = @ + 1] /\ UNCHANGED at
       ELSE Go(u, "mark") /\ UNCHANGED i
    /\ UNCHANGED <<tokens, dmaOwner, channelUsed, channelName, chn>>

Mark(u) ==
    /\ at[u] = "mark"
    /\ channelUsed' = [channelUsed EXCEPT ![i[u]] = TRUE]
    /\ Go(u, "name")
    /\ UNCHANGED <<tokens, dmaOwner, channelName, i, chn>>

Name(u) ==
    /\ at[u] = "name"
    /\ channelName' = [channelName EXCEPT ![i[u]] = u]
    /\ chn' = [chn EXCEPT ![u] = i[u]]
    /\ Go(u, "unlock")
    /\ UNCHANGED <<tokens, dmaOwner, channelUsed, i>>

\* rt_mutex_release, and the return to the user.
Unlock(u) ==
    /\ at[u] = "unlock"
    /\ dmaOwner' = NoUser
    /\ Go(u, "in")
    /\ UNCHANGED <<tokens, channelUsed, channelName, i, chn>>

-----------------------------------------------------------------------------
(* dmalock_release(chn) *)

ClearName(u) ==
    /\ at[u] = "in"
    /\ IF chn[u] >= Channels THEN Go(u, "out") /\ UNCHANGED channelName
       ELSE /\ channelName' = [channelName EXCEPT ![chn[u]] = NoUser]
            /\ Go(u, "free")
    /\ UNCHANGED <<tokens, dmaOwner, channelUsed, i, chn>>

FreeChannel(u) ==
    /\ at[u] = "free"
    /\ channelUsed' = [channelUsed EXCEPT ![chn[u]] = FALSE]
    /\ Go(u, "post")
    /\ UNCHANGED <<tokens, dmaOwner, channelName, i, chn>>

\* rt_sem_release; the user forgets its channel.
Post(u) ==
    /\ at[u] = "post"
    /\ tokens' = tokens + 1
    /\ chn' = [chn EXCEPT ![u] = Channels]
    /\ Go(u, "out")
    /\ UNCHANGED <<dmaOwner, channelUsed, channelName, i>>

DmaNext ==
    \E u \in Users :
        \/ TakeToken(u) \/ Lock(u) \/ Scan(u) \/ Mark(u) \/ Name(u) \/ Unlock(u)
        \/ ClearName(u) \/ FreeChannel(u) \/ Post(u)

DmaSpec == DmaInit /\ [][DmaNext]_dmaVars

-----------------------------------------------------------------------------
(* Properties *)

DmaTypeOK ==
    /\ tokens \in 0..Channels
    /\ dmaOwner \in Users \cup {NoUser}
    /\ channelUsed \in [Chans -> BOOLEAN]
    /\ channelName \in [Chans -> Users \cup {NoUser}]
    /\ at \in [Users -> {"out", "lock", "scan", "mark", "name", "unlock", "in", "free", "post"}]
    /\ i \in [Users -> 0..Channels]
    /\ chn \in [Users -> 0..Channels]

\* Whoever has got a token finds a channel: the loop of _dmalock_sync_take never
\* ends without one, although channels are freed without the mutex while it runs.
TokenFindsChannel ==
    \A u \in Users :
        /\ at[u] = "scan" => \E c \in i[u]..Channels - 1 : ~channelUsed[c]
        /\ at[u] \in {"unlock", "in"} => chn[u] \in Chans

\* Who holds a channel holds it alone, and it bears its name: a release that is
\* still under way neither frees nor renames the channel of its next holder.
HeldByOne ==
    \A u \in Users : at[u] \in {"unlock", "in"} =>
        /\ channelUsed[chn[u]] /\ channelName[chn[u]] = u
        /\ \A v \in Users \ {u} : at[v] \in {"unlock", "in", "free"} => chn[v] # chn[u]

\* _dmalock_sync_take and dmalock_release: a token is worth a channel of one's own.
ChannelsServed == TokenFindsChannel /\ HeldByOne
=============================================================================
