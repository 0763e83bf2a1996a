CONSTANTS
  Threads = {t1, t2}
  Main = t1
  Strategies = {"TIME", "SPACE", "CONST"}
  h_or_d = 1
  m_amount_size = 2
  m_max_file_size = 5
  MAX_PARA_STR_LEN = 3
  Lines = {1}
  Levels = {0, 4, 5}
  m_log_level = 4
  LOG_TERM = 0
  HoursPerDay = 2
  Fds = {0, 1, 2}
  MaxHour = 2
  MaxPos = 2
  MaxBytes = 4
SPECIFICATION Spec
INVARIANTS
  CurrentOpen
  SlotsExact
  
  FileOfPeriod
  RoundBounded
