SPECIFICATION FairSpec
CONSTANTS
    Conns = {c1, c2, c3}
    Reqs = {q1}
    Ips = {i1, i2}
    Rooms = {r1, r2, r3}
    NoIp = NoIp
    NoRoom = NoRoom
    maxSocketsPerIp = 2
    maxTotalSockets = 2
    maxRooms = 1
    BootRooms = 2
INVARIANTS TypeOK CountsExact RoomCapSoft
PROPERTIES DeadPeerReaped ShutdownCompletes
