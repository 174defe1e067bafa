CONSTANTS
    s1 = s1  s2 = s2  s3 = s3  s4 = s4  self = self  other = other  root = root
    NoSocket = NoSocket
    Uids = {self, other, root}
    Self = self
    Root = root
    NoUid = NoUid
    Servers = {s1, s2, s3, s4}
SPECIFICATION Spec
INVARIANTS OwnerOnly ServesWanted OneIsServing
SYMMETRY Symmetry
