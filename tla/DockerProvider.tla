--------------------------- MODULE DockerProvider ---------------------------
(***************************************************************************)
(* Docker discovery (src/src/discovery/docker.rs): the provider's loop and *)
(* the daemon it polls.  The loop awaits in three places: the poll, the    *)
(* send and the sleep; what lies between two of them is one action.        *)
(***************************************************************************)
EXTENDS RouteManager

CONSTANTS
  Containers,       \* the containers that can run
  ContainerRoutes,  \* what routes_from_labels makes of each: [Containers -> Seq]
  SocketKind        \* "unix" or "http": which connector the socket URL picks

ASSUME DockerConstants ==
  /\ ContainerRoutes \in [Containers -> Seq(Routes)]
  /\ SocketKind \in {"unix", "http"}

VARIABLES
  listings,       \* the container lists so far, the current one last
  socket,         \* the daemon: "up", "dead" (socket, no answer) or "absent"
  dockerPc,       \* where the loop is: "top", "poll", "send", "sleep", "off"
  docker,         \* there is a client (docker.is_some())
  last,           \* the last snapshot sent
  warnedConnect,  \* the "serving file/env routes only" warning is standing
  polled,         \* routes in hand while the send waits
  polledAt        \* auxiliary: the listing that polled shows

daemonVars == << listings, socket >>
dockerVars == << dockerPc, docker, last, warnedConnect, polled, polledAt >>

\* poll_once: the routes of the listed containers, in the list's order.
RoutesOfListing(list) ==
  LET places == UNION {{<< i, j >> : j \in DOMAIN ContainerRoutes[list[i]]} : i \in DOMAIN list}
      order == Ordered(places,
                       {p \in places \X places :
                          \/ p[1][1] < p[2][1]
                          \/ p[1][1] = p[2][1] /\ p[1][2] < p[2][2]})
  IN  [n \in DOMAIN order |-> ContainerRoutes[list[order[n][1]]][order[n][2]]]

DockerInit ==
  /\ listings = << <<>> >>
  /\ socket \in IF "docker" \in Enabled THEN {"up", "dead", "absent"} ELSE {"absent"}
  /\ dockerPc = IF "docker" \in Enabled THEN "top" ELSE "off"
  /\ docker = FALSE
  /\ last = NoSnapshot
  /\ warnedConnect = FALSE
  /\ polled = NoSnapshot
  /\ polledAt = 0

\* The daemon lists running containers only, the newest first.
ContainerStarts(c) ==
  LET list == listings[Len(listings)] IN
  /\ \A i \in DOMAIN list : list[i] # c
  /\ listings' = Append(listings, << c >> \o list)
  /\ UNCHANGED socket

ContainerStops(c) ==
  LET list == listings[Len(listings)] IN
  /\ \E i \in DOMAIN list :
       /\ list[i] = c
       /\ listings' = Append(listings, SubSeq(list, 1, i - 1) \o SubSeq(list, i + 1, Len(list)))
  /\ UNCHANGED socket

\* The daemon stops or restarts, or its socket goes or comes back.
SocketBecomes(s) ==
  /\ socket # s
  /\ socket' = s
  /\ UNCHANGED listings

\* connect: bollard's unix connector fails when the socket path is missing,
\* its HTTP connector does not touch the network.
CanConnect == SocketKind = "http" \/ socket # "absent"

\* The top of the loop, with a client at hand or with a new one.
DockerConnect ==
  /\ dockerPc = "top"
  /\ docker \/ CanConnect
  /\ docker' = TRUE
  /\ warnedConnect' = (docker /\ warnedConnect)
  /\ dockerPc' = "poll"
  /\ UNCHANGED << last, polled, polledAt >>

\* A provider that gives up where the real one retries.
DockerCannotConnectMutant ==
  /\ dockerPc = "top"
  /\ ~docker /\ ~CanConnect
  /\ warnedConnect' = TRUE
  /\ dockerPc' = "off"
  /\ UNCHANGED << docker, last, polled, polledAt >>

\* The top of the loop when connect fails: warn, sleep and try again.
DockerCannotConnect ==
  /\ dockerPc = "top"
  /\ ~docker /\ ~CanConnect
  /\ warnedConnect' = TRUE
  /\ dockerPc' = "sleep"
  /\ UNCHANGED << docker, last, polled, polledAt >>

\* The answer to poll_once: a snapshot to send if it differs from the last
\* one sent, or an error that drops the client.
DockerPoll ==
  /\ dockerPc = "poll"
  /\ \/ /\ socket = "up"
        /\ LET routes == RoutesOfListing(listings[Len(listings)]) IN
             \/ /\ last # routes
                /\ polled' = routes
                /\ polledAt' = Len(listings)
                /\ dockerPc' = "send"
             \/ /\ last = routes
                /\ dockerPc' = "sleep"
                /\ UNCHANGED << polled, polledAt >>
        /\ UNCHANGED docker
     \/ /\ socket # "up"
        /\ docker' = FALSE
        /\ dockerPc' = "sleep"
        /\ UNCHANGED << polled, polledAt >>
  /\ UNCHANGED << last, warnedConnect >>

\* The send completes.  Its error arm needs a manager that dropped the
\* receiver, which it only does once this sender is gone.
DockerSend ==
  /\ dockerPc = "send"
  /\ Send("docker", polled, [s \in {"docker"} |-> polledAt])
  /\ last' = polled
  /\ polled' = NoSnapshot
  /\ dockerPc' = "sleep"
  /\ UNCHANGED << docker, warnedConnect, polledAt >>

\* tokio::time::sleep(self.poll) ends, on either path.
DockerWake ==
  /\ dockerPc = "sleep"
  /\ dockerPc' = "top"
  /\ UNCHANGED << docker, last, warnedConnect, polled, polledAt >>
=============================================================================
