------------------------------ MODULE MCParts -------------------------------
(***************************************************************************)
(* The parts that share no state with the two threads' loops or with each  *)
(* other, on small instances.  A behaviour is that of one of them, `part'; *)
(* the others stay in an initial state.                                    *)
(***************************************************************************)
EXTENDS MCPacketBuffer, MCDissector, Checksum, RawSocket, LocalAddresses,
        Logger, BrokerTopology

VARIABLE part

partsVars == <<part, packetVars, dissectorVars, checksumVars, socketVars,
               addressVars, loggerVars, topologyVars>>

restingFrame == CHOOSE f \in Frames : TRUE
restingBuffer == CHOOSE b \in Leftovers : TRUE

PartsInit ==
  /\ part \in {"packets", "frame", "checksum", "socket", "addresses", "logger",
              "queues"}
  /\ part = "frame" \/ (input = restingFrame /\ left = restingBuffer)
  /\ part = "checksum" \/ data = <<>>
  /\ part = "socket" \/ (granted = Both /\ flags = {})
  /\ part = "addresses" \/ host = <<>>
  /\ PacketInit /\ DissectorInit /\ ChecksumInit /\ SocketInit
  /\ AddressInit /\ LoggerInit /\ TopologyInit

PartsNext ==
  \/ /\ part = "packets" /\ MCPacketNext
     /\ UNCHANGED <<part, dissectorVars, checksumVars, socketVars, addressVars,
                    loggerVars, topologyVars>>
  \/ /\ part = "frame" /\ handle
     /\ UNCHANGED <<part, packetVars, checksumVars, socketVars, addressVars,
                    loggerVars, topologyVars>>
  \/ /\ part = "checksum" /\ ChecksumNext
     /\ UNCHANGED <<part, packetVars, dissectorVars, socketVars, addressVars,
                    loggerVars, topologyVars>>
  \/ /\ part = "socket" /\ SocketNext
     /\ UNCHANGED <<part, packetVars, dissectorVars, checksumVars, addressVars,
                    loggerVars, topologyVars>>
  \/ /\ part = "addresses" /\ AddressNext
     /\ UNCHANGED <<part, packetVars, dissectorVars, checksumVars, socketVars,
                    loggerVars, topologyVars>>
  \/ /\ part = "logger" /\ LoggerNext
     /\ UNCHANGED <<part, packetVars, dissectorVars, checksumVars, socketVars,
                    addressVars, topologyVars>>
  \/ /\ part = "queues" /\ TopologyNext
     /\ UNCHANGED <<part, packetVars, dissectorVars, checksumVars, socketVars,
                    addressVars, loggerVars>>

PartsSpec ==
  /\ PartsInit /\ [][PartsNext]_partsVars
  /\ WF_addressVars(part = "addresses" /\ answered)
=============================================================================
