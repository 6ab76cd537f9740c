SPECIFICATION Spec
CONSTANTS
  t1 = t1
  t2 = t2
  t3 = t3
  ch = ch
  r1 = r1
  r2 = r2
  repo = repo
  Threads = {t1, t2}
  Channels = {ch}
  Rooms = {r1}
  Repos = {repo}
  Mu = Mu
  RepoLocksMu = RepoLocksMu
  Free = Free
  Scripts <- AllScripts
  Cap = 1
INVARIANTS NoCircularWait
