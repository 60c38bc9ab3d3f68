--------------------------- MODULE MCServiceParts ----------------------------
(***************************************************************************)
(* One instance for TLC of the small parts of the service: intake, the     *)
(* body limit, the client's address, page reads, queue metrics, the parser *)
(* of answers, the start of the processes, and the rate limiter.  They     *)
(* share no state, so that a property of one needs to be checked only      *)
(* where the others have not moved: the part that moves first is the only  *)
(* one that moves.                                                         *)
(***************************************************************************)
EXTENDS LeadIntake, BodyLimit, ClientAddress, LeadPages, QueueMetrics, ResponseParser,
        Startup, RateLimiter, TLC

VARIABLE active     \* the part that moves

allVars == <<vars, bodyVars, addrVars, pageVars, countVars, parserVars, setupVars, limiterVars>>

ServiceInit ==
  /\ active = "none"
  /\ Init /\ BodyInit /\ AddressInit /\ PagesInit /\ MetricsInit /\ ParserInit /\ SetupInit
  /\ LimiterInit

Moves(part) == active \in {"none", part} /\ active' = part

IntakeMoves ==
  /\ Moves("intake") /\ Next
  /\ UNCHANGED <<bodyVars, addrVars, pageVars, countVars, parserVars, setupVars, limiterVars>>
BodyMoves ==
  /\ Moves("body") /\ BodyNext
  /\ UNCHANGED <<vars, addrVars, pageVars, countVars, parserVars, setupVars, limiterVars>>
AddressMoves ==
  /\ Moves("address") /\ AddressNext
  /\ UNCHANGED <<vars, bodyVars, pageVars, countVars, parserVars, setupVars, limiterVars>>
PagesMove ==
  /\ Moves("pages") /\ PagesNext
  /\ UNCHANGED <<vars, bodyVars, addrVars, countVars, parserVars, setupVars, limiterVars>>
MetricsMove ==
  /\ Moves("metrics") /\ MetricsNext
  /\ UNCHANGED <<vars, bodyVars, addrVars, pageVars, parserVars, setupVars, limiterVars>>
ParserMoves ==
  /\ Moves("parser") /\ ParserNext
  /\ UNCHANGED <<vars, bodyVars, addrVars, pageVars, countVars, setupVars, limiterVars>>
SetupMoves ==
  /\ Moves("setup") /\ SetupNext
  /\ UNCHANGED <<vars, bodyVars, addrVars, pageVars, countVars, parserVars, limiterVars>>
LimiterMoves ==
  /\ Moves("limiter") /\ LimiterNext
  /\ UNCHANGED <<vars, bodyVars, addrVars, pageVars, countVars, parserVars, setupVars>>

ServiceNext ==
  \/ IntakeMoves \/ BodyMoves \/ AddressMoves \/ PagesMove
  \/ MetricsMove \/ ParserMoves \/ SetupMoves \/ LimiterMoves

ServiceSpec == ServiceInit /\ [][ServiceNext]_<<active, allVars>>

\* Every part keeps its types: intake, and what surrounds it in the service.
ServiceTypeOK ==
  LET of(part) == active \in {"none", part} IN
  /\ of("intake") => TypeOK
  /\ of("body") => BodyTypeOK
  /\ of("address") => AddressTypeOK
  /\ of("pages") => PagesTypeOK
  /\ of("metrics") => MetricsTypeOK
  /\ of("parser") => ParserTypeOK
  /\ of("setup") => SetupTypeOK
  /\ of("limiter") => LimiterTypeOK

\* Submissions, the rows that are read and the limiter's clients have the same names:
\* two of the three stand still, so that a permutation of the names permutes the other.
ServiceSymmetry == Permutations(Submissions)
=============================================================================
