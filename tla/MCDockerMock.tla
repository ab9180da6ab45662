---------------------------- MODULE MCDockerMock ----------------------------
(* Projects for TLC.  Networks are known by YAML names 1 and 2. *)
EXTENDS DockerMock

Net(name, external) == [Name |-> name, External |-> external]

Service(name, container, networks, supported) ==
    [Name |-> name, ContainerName |-> container, Networks |-> networks,
     Supported |-> supported]

\* A project with a network of its own, an external one, a volume and a
\* service whose container has the service's name.
One == [Networks |-> <<Net("one_net", FALSE), Net("shared", TRUE)>>,
        Volumes |-> {"vol"},
        Services |-> {Service("web", "web", {1, 2}, TRUE)}]

\* The same project after a change to that service, with another service
\* that cannot be generated.
Changed == [One EXCEPT !.Services = {Service("web", "web", {2}, TRUE),
                                     Service("job", "job", {1}, FALSE)}]

\* Another project: its network has the YAML name of one_net, and its
\* container is not named after its service.
Two == [Networks |-> <<Net("two_net", FALSE)>>,
        Volumes |-> {},
        Services |-> {Service("db", "two_db", {1}, TRUE)}]

MCProjects == {One, Changed, Two}

\* Two projects without volumes on one external network.
Left == [Networks |-> <<Net("shared", TRUE)>>, Volumes |-> {},
         Services |-> {Service("web", "web", {1}, TRUE)}]
Right == [Networks |-> <<Net("shared", TRUE), Net("right_net", FALSE)>>,
          Volumes |-> {},
          Services |-> {Service("db", "db", {1}, TRUE)}]

MCSharing == {Left, Right}

MCSubnets == <<17, 18>>

=============================================================================
