---------------------------- MODULE ClientAddress ----------------------------
(***************************************************************************)
(* TrustedProxyClientIpResolver: the key under which the rate limiter      *)
(* counts a request.  A client connects to the API directly or through a   *)
(* chain of reverse proxies, each of which appends its peer to             *)
(* X-Forwarded-For; the client may have sent a header of its own.          *)
(***************************************************************************)
EXTENDS Naturals, Sequences, SequencesExt

CONSTANTS
  Proxies,      \* addresses in TRUSTED_PROXY_CIDRS
  Clients,      \* other addresses
  MaxHops,      \* MAX_FORWARDED_HOPS
  MaxClaimed,   \* bound: entries of the header the client sends
  MaxProxies    \* bound: proxies on the way

ASSUME AddressAssumption ==
  /\ Proxies \cap Clients = {}
  /\ {"", "junk", "unknown"} \cap (Proxies \cup Clients) = {}
  /\ {MaxHops, MaxClaimed, MaxProxies} \subseteq Nat

VARIABLES
  addrAt,       \* where the request is
  addrOrigin,   \* who sent it; "" is a socket without a host
  addrClaim,    \* the header it came with
  addrHops,     \* history: the proxies it went through
  addrHeader,   \* X-Forwarded-For
  addrPeer,     \* request.client.host
  addrKey       \* the resolver's result

addrVars == <<addrAt, addrOrigin, addrClaim, addrHops, addrHeader, addrPeer, addrKey>>

\* An address stands for all its spellings: ip_address(..).compressed picks one.
Addresses == Proxies \cup Clients
\* Entries of a header: addresses, blank ones and such that are no address.
Entries == Addresses \cup {"", "junk"}

AddressTypeOK ==
  /\ addrAt \in {"none", "sent", "resolved"}
  /\ addrOrigin \in Entries
  /\ addrClaim \in Seq(Entries)
  /\ addrHops \in 0..MaxProxies
  /\ addrHeader \in Seq(Entries) /\ Len(addrHeader) <= MaxClaimed + MaxProxies
  /\ addrPeer \in Entries
  /\ addrKey \in Addresses \cup {"", "junk", "unknown"}

AddressInit ==
  /\ addrAt = "none" /\ addrOrigin = "" /\ addrClaim = <<>> /\ addrHops = 0
  /\ addrHeader = <<>> /\ addrPeer = "" /\ addrKey = ""

-----------------------------------------------------------------------------
\* The client connects to the first proxy, or to the API.
Connect ==
  /\ addrAt = "none"
  /\ addrAt' = "sent"
  /\ addrOrigin' \in Entries
  /\ addrClaim' \in BoundedSeq(Entries, MaxClaimed)
  /\ addrPeer' = addrOrigin'
  /\ addrHeader' = addrClaim'
  /\ UNCHANGED <<addrHops, addrKey>>

\* A proxy passes the request on.
Forward(p) ==
  /\ addrAt = "sent" /\ addrHops < MaxProxies
  /\ addrHops' = addrHops + 1
  /\ addrHeader' = Append(addrHeader, addrPeer)
  /\ addrPeer' = p
  /\ UNCHANGED <<addrAt, addrOrigin, addrClaim, addrKey>>

Trusted(a) == a \in Proxies

\* Mutated form: the first entry that is not trusted.
Leftmost(header) == SelectInSeq(header, LAMBDA a : ~Trusted(a))

\* The nearest untrusted entry, from the right; 0 if all are trusted.
Nearest(header) == SelectLastInSeq(header, LAMBDA a : ~Trusted(a))

Usable(header) ==
  /\ Len(header) \in 1..MaxHops
  /\ \A i \in DOMAIN header : header[i] \in Addresses

ResolveClient(peer, header) ==
  IF peer \notin Addresses
  THEN IF peer = "" THEN "unknown" ELSE peer
  ELSE IF Trusted(peer) /\ Usable(header) /\ Nearest(header) > 0
       THEN header[Nearest(header)]
       ELSE peer

Resolve ==
  /\ addrAt = "sent"
  /\ addrAt' = "resolved"
  /\ addrKey' = ResolveClient(addrPeer, addrHeader)
  /\ UNCHANGED <<addrOrigin, addrClaim, addrHops, addrHeader, addrPeer>>

AddressNext == Connect \/ (\E p \in Proxies : Forward(p)) \/ Resolve

AddressSpec == AddressInit /\ [][AddressNext]_addrVars

-----------------------------------------------------------------------------
(* Properties.                                                             *)

\* A client outside the trusted networks is counted under its own address, however
\* many trusted proxies its request went through and whatever header it came with;
\* or, if that header has made the chain unusable, under the last proxy's.  No
\* header makes it pass for somebody else.
KeyIsTheClients ==
  addrAt = "resolved" /\ addrOrigin \in Clients =>
    \/ addrKey = addrOrigin
    \/ /\ addrHops > 0 /\ addrKey = addrPeer
       /\ \/ Len(addrClaim) + addrHops > MaxHops
          \/ \E i \in DOMAIN addrClaim : addrClaim[i] \notin Addresses
=============================================================================
