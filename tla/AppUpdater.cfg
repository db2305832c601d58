\* Three mounts of the home screen with up to three downloads, and a check that
\* may be answered after the screen it belongs to is gone.
SPECIFICATION FairSpec
CONSTANTS
  Releases = {r1, r2}
  None = None
  Old = Old
  MaxMounts = 3
  MaxDownloads = 3
INVARIANTS TypeOK InstalledIsVerified
PROPERTIES UpdateSettles
\* The program has quit, or the mounts and downloads are used up.
CHECK_DEADLOCK FALSE
